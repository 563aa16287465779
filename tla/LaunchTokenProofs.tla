------------------------- MODULE LaunchTokenProofs -------------------------
(***************************************************************************)
(* Proofs about the launch-token file, for any number of launches and any  *)
(* number of pieces of a token.  No step but a step of one launch changes  *)
(* anything, so every proof is by cases on the actions of one launch.      *)
(***************************************************************************)
EXTENDS LaunchToken, TLAPS

\* A launch about to save holds a token of its own making.
SaverHasOwn ==
    \A l \in Launches : pc[l] \in {"saving", "writing"} => token[l] = TokenOf(l)

FileInv == TypeOK /\ SaverHasOwn /\ FileUnmixed

Sound == {NoToken} \cup {TokenOf(m) : m \in Launches}

\* Without a full disk the file is empty or one whole token at every moment,
\* so a launch has read nothing or everything.
WholeOrEmpty == Len(file) \in {0, Parts}

ReaderSound ==
    \A l \in Launches :
       /\ pc[l] \in {"start", "creating", "reading"} =>
             \/ got[l] = 0 /\ token[l] = NoToken
             \/ got[l] = Parts /\ token[l] \in Sound
       /\ pc[l] = "launching" => token[l] \in Sound

SoundInv == FileInv /\ WholeOrEmpty /\ ReaderSound /\ TokenSound

-----------------------------------------------------------------------------
\* A whole token is a sequence of pieces.
LEMMA TokensAreTokens ==
    ASSUME NEW l \in Launches
    PROVE  NoToken \in Token /\ TokenOf(l) \in Token
BY DEF NoToken, TokenOf, Token, Piece

\* The launches start with a file that is one token or nothing.
LEMMA InitFile == Init => FileInv
<1> SUFFICES ASSUME Init PROVE FileInv
    OBVIOUS
<1>1. TypeOK
    <2>1. NoToken \in Token
        BY DEF NoToken, Token, Piece
    <2>2. file \in Seq(Launches) /\ Len(file) <= Parts
        BY LaunchAssumption DEF Init
    <2>3. exists \in BOOLEAN
        BY Zenon DEF Init
    <2> QED
        BY <2>1, <2>2, <2>3, LaunchAssumption DEF Init, TypeOK
<1>2. SaverHasOwn /\ FileUnmixed
    BY DEF Init, SaverHasOwn, FileUnmixed
<1> QED
    BY <1>1, <1>2 DEF FileInv

\* A piece of a function on 1..n is a sequence of its range.
LEMMA PrefixIsSeq ==
    ASSUME NEW l \in Launches, NEW n \in 0..Parts, NEW t, t = TokenOf(l)
    PROVE  LET s == [i \in 1..n |-> t[i]]
           IN  /\ s \in Seq(Launches) /\ Len(s) = n
               /\ \A i \in 1..Len(s) : s[i] = l
<1>1. n \in Nat /\ \A i \in 1..n : t[i] = l
    BY LaunchAssumption DEF TokenOf
<1> QED
    BY <1>1

\* Boolean variables have a step of their own.
LEMMA ExistsIsBoolean ==
    ASSUME exists \in BOOLEAN, NEW l \in Launches, Step(l) \/ Kill(l)
    PROVE  exists' \in BOOLEAN
BY Zenon DEF Step, OpenSaved, OpenNew, ReadMore, ReadDone, CreateEnclave, Reopen, Save, Kill

\* No step of a launch mixes the file.
LEMMA StepKeepsFile ==
    ASSUME FileInv, NEW l \in Launches, Step(l) \/ Kill(l)
    PROVE  FileInv'
<1>0. exists' \in BOOLEAN
    BY ExistsIsBoolean DEF FileInv, TypeOK
<1>l. Len(file) \in 0..Parts
    BY LaunchAssumption DEF FileInv, TypeOK
<1>e. <<>> \in Seq(Launches) /\ Len(<<>>) = 0
    OBVIOUS
<1> USE LaunchAssumption, <1>0, <1>l, <1>e DEF FileInv
<1>1. CASE OpenSaved(l)
    BY <1>1 DEF OpenSaved, TypeOK, SaverHasOwn, FileUnmixed, Ended
<1>2. CASE OpenNew(l)
    <2>0. file' = <<>> \/ file' = file
        BY <1>2, Zenon DEF OpenNew
    <2>1. file' \in Seq(Launches) /\ Len(file') <= Parts
        <3>1. CASE file' = <<>>
            BY <3>1
        <3>2. CASE file' = file
            BY <3>2 DEF TypeOK
        <3> QED
            BY <2>0, <3>1, <3>2
    <2>2. FileUnmixed'
        BY <2>0 DEF FileUnmixed
    <2>3. TypeOK'
        BY <1>2, <2>1 DEF OpenNew, TypeOK
    <2>4. SaverHasOwn'
        BY <1>2 DEF OpenNew, TypeOK, SaverHasOwn
    <2> QED
        BY <2>2, <2>3, <2>4
<1>3. CASE ReadMore(l)
    <2> DEFINE t == [i \in 1..Parts |-> IF i > got[l] /\ i <= Len(file)
                                        THEN file[i] ELSE token[l][i]]
    <2>1. t \in Token
        BY <1>3 DEF ReadMore, TypeOK, Token, Piece
    <2>2. token' = [token EXCEPT ![l] = t]
        BY <1>3 DEF ReadMore
    <2> HIDE DEF t
    <2>3. TypeOK'
        BY <1>3, <2>1, <2>2 DEF ReadMore, TypeOK
    <2>4. SaverHasOwn' /\ FileUnmixed'
        BY <1>3, <2>2 DEF ReadMore, TypeOK, SaverHasOwn, FileUnmixed
    <2> QED
        BY <2>3, <2>4
<1>4. CASE ReadDone(l)
    <2>1. token' \in [Launches -> Token]
        BY <1>4, TokensAreTokens DEF ReadDone, TypeOK
    <2>2. TypeOK'
        BY <1>4, <2>1 DEF ReadDone, TypeOK
    <2>3. SaverHasOwn' /\ FileUnmixed'
        BY <1>4 DEF ReadDone, TypeOK, SaverHasOwn, FileUnmixed
    <2> QED
        BY <2>2, <2>3
<1>5. CASE CreateEnclave(l)
    <2>1. token' \in [Launches -> Token] /\ passed' \in [Launches -> Token]
        <3>1. token \in [Launches -> Token] /\ passed \in [Launches -> Token]
            BY DEF TypeOK
        <3> QED
            BY <1>5, <3>1, TokensAreTokens DEF CreateEnclave
    <2>2. TypeOK'
        BY <1>5, <2>1 DEF CreateEnclave, TypeOK
    <2>3. SaverHasOwn' /\ FileUnmixed'
        BY <1>5 DEF CreateEnclave, TypeOK, SaverHasOwn, FileUnmixed
    <2> QED
        BY <2>2, <2>3
<1>6. CASE Reopen(l)
    <2>0. file' = <<>> \/ file' = file
        BY <1>6, Zenon DEF Reopen
    <2>1. file' \in Seq(Launches) /\ Len(file') <= Parts
        <3>1. CASE file' = <<>>
            BY <3>1
        <3>2. CASE file' = file
            BY <3>2 DEF TypeOK
        <3> QED
            BY <2>0, <3>1, <3>2
    <2>2. FileUnmixed'
        BY <2>0 DEF FileUnmixed
    <2>3. TypeOK'
        BY <1>6, <2>1 DEF Reopen, TypeOK
    <2>4. SaverHasOwn'
        BY <1>6 DEF Reopen, TypeOK, SaverHasOwn
    <2> QED
        BY <2>2, <2>3, <2>4
<1>7. CASE Save(l)
    <2>0. (IF DiskMayFill THEN Len(file) ELSE Parts)..Parts \subseteq 0..Parts
        <3>1. CASE DiskMayFill
            BY <3>1
        <3>2. CASE ~DiskMayFill
            BY <3>2
        <3> QED
            BY <3>1, <3>2
    <2>1. PICK n \in 0..Parts : file' = [i \in 1..n |-> token[l][i]]
        BY <1>7, <2>0, Zenon DEF Save
    <2>a. /\ pc[l] = "writing" /\ pc' = [pc EXCEPT ![l] = "running"]
          /\ fp' = [fp EXCEPT ![l] = "none"]
          /\ UNCHANGED <<exists, token, got, passed>>
        BY <1>7, Zenon DEF Save
    <2>2. token[l] = TokenOf(l)
        BY <2>a DEF SaverHasOwn
    <2>3. file' \in Seq(Launches) /\ Len(file') = n /\ \A i \in 1..Len(file') : file'[i] = l
        BY <2>1, <2>2, PrefixIsSeq
    <2>4. FileUnmixed'
        BY <2>3 DEF FileUnmixed
    <2> QED
        BY <2>a, <2>3, <2>4 DEF TypeOK, SaverHasOwn
<1>8. CASE Kill(l)
    BY <1>8 DEF Kill, TypeOK, SaverHasOwn, FileUnmixed, Ended
<1> QED
    BY <1>1, <1>2, <1>3, <1>4, <1>5, <1>6, <1>7, <1>8 DEF Step

\* So no step does.
LEMMA NextKeepsFile ==
    ASSUME FileInv, [Next]_vars
    PROVE  FileInv'
<1>1. CASE Next
    BY <1>1, StepKeepsFile DEF Next
<1>2. CASE UNCHANGED vars
    BY <1>2 DEF vars, FileInv, TypeOK, SaverHasOwn, FileUnmixed
<1> QED
    BY <1>1, <1>2

\* TypeOK: the variables of the launcher keep their types.
THEOREM TypeCorrect == Spec => []TypeOK
<1>1. FileInv => TypeOK
    BY DEF FileInv
<1> QED
    BY <1>1, InitFile, NextKeepsFile, PTL DEF Spec

\* FileUnmixed: however many launches truncate, save and die around each
\* other, on a disk that may fill up, the file holds pieces of one token only.
THEOREM FileUnmixedAlways == Spec => []FileUnmixed
<1>1. FileInv => FileUnmixed
    BY DEF FileInv
<1> QED
    BY <1>1, InitFile, NextKeepsFile, PTL DEF Spec

-----------------------------------------------------------------------------
\* At the start nobody holds half a token.
LEMMA InitSound == Init => SoundInv
<1> SUFFICES ASSUME Init PROVE SoundInv
    OBVIOUS
<1>1. FileInv
    BY InitFile
<1>2. WholeOrEmpty /\ ReaderSound /\ TokenSound
    BY DEF Init, WholeOrEmpty, ReaderSound, TokenSound, Sound
<1> QED
    BY <1>1, <1>2 DEF SoundInv

\* A file of Parts pieces that are all alike is one launch's token.
LEMMA WholeFileIsToken ==
    ASSUME TypeOK, FileUnmixed, Len(file) = Parts, NEW l \in Launches
    PROVE  [i \in 1..Parts |-> file[i]] \in Sound
<1>1. Parts >= 1 /\ file[1] \in Launches
    BY LaunchAssumption DEF TypeOK
<1>2. \A i \in 1..Parts : file[i] = file[1]
    BY <1>1, LaunchAssumption DEF FileUnmixed
<1>3. [i \in 1..Parts |-> file[i]] = TokenOf(file[1])
    BY <1>2 DEF TokenOf
<1> QED
    BY <1>1, <1>3 DEF Sound

\* No step of a launch makes half a token, on a disk with space.
LEMMA StepKeepsSound ==
    ASSUME SoundInv, ~DiskMayFill, NEW l \in Launches, Step(l) \/ Kill(l)
    PROVE  SoundInv'
<1>0. FileInv' /\ Parts \in Nat \ {0} /\ TypeOK /\ FileUnmixed
    BY StepKeepsFile, LaunchAssumption DEF SoundInv, FileInv
<1>s. NoToken \in Sound /\ TokenOf(l) \in Sound
    BY DEF Sound
<1> USE DEF SoundInv
<1>1. CASE OpenSaved(l)
    BY <1>0, <1>1 DEF OpenSaved, TypeOK, WholeOrEmpty, ReaderSound, TokenSound
<1>2. CASE OpenNew(l)
    <2>1. ReaderSound'
        BY <1>0, <1>2, <1>s DEF OpenNew, TypeOK, ReaderSound
    <2>2. WholeOrEmpty' /\ TokenSound'
        BY <1>0, <1>2 DEF OpenNew, TypeOK, WholeOrEmpty, TokenSound
    <2> QED
        BY <1>0, <2>1, <2>2
<1>3. CASE ReadMore(l)
    <2>1. Len(file) = Parts /\ got[l] = 0
        BY <1>0, <1>3 DEF ReadMore, TypeOK, WholeOrEmpty, ReaderSound
    <2>2. token' = [token EXCEPT ![l] = [i \in 1..Parts |-> file[i]]]
        <3>1. [i \in 1..Parts |-> IF i > got[l] /\ i <= Len(file) THEN file[i] ELSE token[l][i]]
              = [i \in 1..Parts |-> file[i]]
            BY <1>0, <2>1
        <3> QED
            BY <1>3, <3>1 DEF ReadMore
    <2>3. [i \in 1..Parts |-> file[i]] \in Sound
        BY <1>0, <2>1, WholeFileIsToken
    <2>4. ReaderSound'
        BY <1>0, <1>3, <2>1, <2>2, <2>3 DEF ReadMore, TypeOK, ReaderSound
    <2> QED
        BY <1>0, <1>3, <2>4 DEF ReadMore, WholeOrEmpty, TokenSound
<1>4. CASE ReadDone(l)
    BY <1>0, <1>4, <1>s DEF ReadDone, TypeOK, WholeOrEmpty, ReaderSound, TokenSound
<1>5. CASE CreateEnclave(l)
    <2>1. token[l] \in Sound
        BY <1>5 DEF CreateEnclave, ReaderSound
    <2>2. TokenSound'
        BY <1>0, <1>5, <2>1 DEF CreateEnclave, TypeOK, TokenSound, Sound
    <2>3. ReaderSound' /\ WholeOrEmpty'
        BY <1>0, <1>5 DEF CreateEnclave, TypeOK, ReaderSound, WholeOrEmpty
    <2> QED
        BY <1>0, <2>2, <2>3
<1>6. CASE Reopen(l)
    BY <1>0, <1>6 DEF Reopen, TypeOK, WholeOrEmpty, ReaderSound, TokenSound
<1>7. CASE Save(l)
    <2>1. file' = [i \in 1..Parts |-> token[l][i]]
        BY <1>0, <1>7 DEF Save
    <2>2. Len(file') = Parts
        BY <1>0, <2>1
    <2> QED
        BY <1>0, <1>7, <2>2 DEF Save, TypeOK, WholeOrEmpty, ReaderSound, TokenSound
<1>8. CASE Kill(l)
    BY <1>0, <1>8 DEF Kill, TypeOK, WholeOrEmpty, ReaderSound, TokenSound, Ended
<1> QED
    BY <1>1, <1>2, <1>3, <1>4, <1>5, <1>6, <1>7, <1>8 DEF Step

\* TokenSound: as long as no write falls short, what any launch hands to
\* sgx_create_enclave is nothing or one whole token, with any number of
\* launches at once, killed anywhere.
THEOREM TokenSoundAlways ==
    ASSUME ~DiskMayFill
    PROVE  Spec => []TokenSound
<1>1. ASSUME SoundInv, [Next]_vars
      PROVE  SoundInv'
    <2>1. CASE Next
        BY <1>1, <2>1, StepKeepsSound DEF Next
    <2>2. CASE UNCHANGED vars
        BY <1>1, <2>2 DEF vars, SoundInv, FileInv, TypeOK, SaverHasOwn, FileUnmixed,
                          WholeOrEmpty, ReaderSound, TokenSound
    <2> QED
        BY <1>1, <2>1, <2>2
<1>2. SoundInv => TokenSound
    BY DEF SoundInv
<1> QED
    BY <1>1, <1>2, InitSound, PTL DEF Spec
=============================================================================
