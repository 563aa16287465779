---------------------------- MODULE LaunchToken ----------------------------
(***************************************************************************)
(* The launch-token file of the enclave launcher (src/App/App.cpp,         *)
(* initialize_enclave and main).  Every launch is a process of its own;    *)
(* launches of one user share one file, take no lock on it and may be      *)
(* killed between any two steps.                                           *)
(*                                                                         *)
(* A token is cut into Parts equal pieces, enough to tell a whole token    *)
(* from a piece of one, and a piece is named after the launch whose        *)
(* sgx_create_enclave updated the token.  A file that exists can be        *)
(* opened.  One read or write system call is atomic, a read returns all    *)
(* there is, and a write falls short only when the file would have to grow *)
(* on a full disk.                                                         *)
(***************************************************************************)
EXTENDS Naturals, Sequences, FiniteSets

CONSTANTS
    Launches,     \* the processes that are launched, in any order or at once
    Zero,         \* a piece of the token that was never filled
    Parts,        \* pieces of a launch token
    MaxAlive,     \* bound: launches under way at once
    DiskMayFill   \* whether the disk can run out of space

ASSUME LaunchAssumption ==
    /\ Zero \notin Launches
    /\ Parts \in Nat \ {0} /\ MaxAlive \in Nat \ {0}
    /\ DiskMayFill \in BOOLEAN

VARIABLES
    exists,   \* whether the token file exists
    file,     \* its content
    pc,       \* where each launch is
    fp,       \* how each launch has the file open
    token,    \* each launch's buffer
    got,      \* pieces its fread has stored so far
    passed    \* history: what it handed to sgx_create_enclave

vars == <<exists, file, pc, fp, token, got, passed>>

Piece == Launches \cup {Zero}
Token == [1..Parts -> Piece]

NoToken      == [i \in 1..Parts |-> Zero]
TokenOf(l)   == [i \in 1..Parts |-> l]
Ended        == {"running", "failed", "killed"}
Alive        == {l \in Launches : pc[l] \notin Ended \cup {"start"}}

-----------------------------------------------------------------------------
Init ==
    /\ exists = FALSE /\ file = <<>>
    /\ pc = [l \in Launches |-> "start"]
    /\ fp = [l \in Launches |-> "none"]
    /\ token = [l \in Launches |-> NoToken]
    /\ got = [l \in Launches |-> 0]
    /\ passed = [l \in Launches |-> NoToken]

\* fopen(token_path, "rb"): it fails when there is no file.
OpenSaved(l) ==
    /\ pc[l] = "start" /\ Cardinality(Alive) < MaxAlive
    /\ IF exists THEN /\ fp' = [fp EXCEPT ![l] = "read"]
                      /\ pc' = [pc EXCEPT ![l] = "reading"]
                 ELSE /\ fp' = fp
                      /\ pc' = [pc EXCEPT ![l] = "creating"]
    /\ UNCHANGED <<exists, file, token, got, passed>>

\* fopen(token_path, "wb"), which empties whatever file is there by now.
OpenNew(l) ==
    /\ pc[l] = "creating"
    /\ \/ /\ exists' = TRUE /\ file' = <<>>
          /\ fp' = [fp EXCEPT ![l] = "write"]
          /\ pc' = [pc EXCEPT ![l] = "reading"]
       \/ /\ pc' = [pc EXCEPT ![l] = "launching"]
          /\ UNCHANGED <<exists, file, fp>>
    /\ UNCHANGED <<token, got, passed>>

ReadMoreOneTooMany(l) ==
    /\ pc[l] = "reading" /\ fp[l] = "read"
    /\ got[l] < Len(file)
    /\ token' = [token EXCEPT ![l] =
                    [i \in 1..Parts |-> IF i > got[l] /\ i <= Len(file) THEN file[i] ELSE @[i]]]
    /\ got' = [got EXCEPT ![l] = Len(file) + 1]
    /\ UNCHANGED <<exists, file, pc, fp, passed>>

\* One read system call of fread that returned something.
ReadMore(l) ==
    /\ pc[l] = "reading" /\ fp[l] = "read"
    /\ got[l] < Len(file)
    /\ token' = [token EXCEPT ![l] =
                    [i \in 1..Parts |-> IF i > got[l] /\ i <= Len(file) THEN file[i] ELSE @[i]]]
    /\ got' = [got EXCEPT ![l] = Len(file)]
    /\ UNCHANGED <<exists, file, pc, fp, passed>>

ReadDoneWhole(l) ==
    /\ pc[l] = "reading"
    /\ fp[l] = "write" \/ got[l] = Parts
    /\ pc' = [pc EXCEPT ![l] = "launching"]
    /\ UNCHANGED <<exists, file, fp, token, got, passed>>

\* fread has the whole token, or met the end of the file (or, on a stream
\* opened for writing, an error) and the size is checked.
ReadDone(l) ==
    /\ pc[l] = "reading"
    /\ fp[l] = "write" \/ got[l] = Parts \/ got[l] >= Len(file)
    /\ token' = IF got[l] \in {0, Parts} THEN token ELSE [token EXCEPT ![l] = NoToken]
    /\ pc' = [pc EXCEPT ![l] = "launching"]
    /\ UNCHANGED <<exists, file, fp, got, passed>>

\* sgx_create_enclave: failure, success, or success with an updated token,
\* which is saved only when the file is open.
CreateEnclave(l) ==
    /\ pc[l] = "launching"
    /\ passed' = [passed EXCEPT ![l] = token[l]]
    /\ \/ /\ pc' \in {[pc EXCEPT ![l] = "failed"], [pc EXCEPT ![l] = "running"]}
          /\ fp' = [fp EXCEPT ![l] = "none"]
          /\ token' = token
       \/ /\ pc' = [pc EXCEPT ![l] = IF fp[l] = "none" THEN "running" ELSE "saving"]
          /\ fp' = fp
          /\ token' = [token EXCEPT ![l] = TokenOf(l)]
    /\ UNCHANGED <<exists, file, got>>

\* freopen(token_path, "wb", fp), which may fail and then leaves no stream.
Reopen(l) ==
    /\ pc[l] = "saving"
    /\ \/ /\ exists' = TRUE /\ file' = <<>>
          /\ fp' = [fp EXCEPT ![l] = "write"]
          /\ pc' = [pc EXCEPT ![l] = "writing"]
       \/ /\ fp' = [fp EXCEPT ![l] = "none"]
          /\ pc' = [pc EXCEPT ![l] = "running"]
          /\ UNCHANGED <<exists, file>>
    /\ UNCHANGED <<token, got, passed>>

SavePiecewise(l) ==
    /\ pc[l] = "writing"
    /\ \E n \in 1..Parts :
          /\ file' = [i \in 1..(IF n > Len(file) THEN n ELSE Len(file)) |->
                        IF i <= n THEN token[l][i] ELSE file[i]]
          /\ pc' = [pc EXCEPT ![l] = IF n = Parts THEN "running" ELSE "writing"]
          /\ fp' = [fp EXCEPT ![l] = IF n = Parts THEN "none" ELSE "write"]
    /\ UNCHANGED <<exists, token, got, passed>>

\* fwrite only fills the stream's buffer; the one write happens in fclose.
Save(l) ==
    /\ pc[l] = "writing"
    /\ \E n \in (IF DiskMayFill THEN Len(file) ELSE Parts) .. Parts :
          file' = [i \in 1..n |-> token[l][i]]
    /\ fp' = [fp EXCEPT ![l] = "none"]
    /\ pc' = [pc EXCEPT ![l] = "running"]
    /\ UNCHANGED <<exists, token, got, passed>>

\* The process dies; its unwritten buffer dies with it.
Kill(l) ==
    /\ pc[l] \notin Ended
    /\ pc' = [pc EXCEPT ![l] = "killed"]
    /\ fp' = [fp EXCEPT ![l] = "none"]
    /\ UNCHANGED <<exists, file, token, got, passed>>

Step(l) ==
    \/ OpenSaved(l) \/ OpenNew(l) \/ ReadMore(l) \/ ReadDone(l)
    \/ CreateEnclave(l) \/ Reopen(l) \/ Save(l)

Next == \E l \in Launches : Step(l) \/ Kill(l)

\* A launch that is not killed keeps running.
Spec == Init /\ [][Next]_vars /\ \A l \in Launches : WF_vars(Step(l))

-----------------------------------------------------------------------------
TypeOK ==
    /\ exists \in BOOLEAN
    /\ file \in Seq(Launches) /\ Len(file) <= Parts
    /\ pc \in [Launches -> {"start", "creating", "reading", "launching", "saving", "writing",
                           "running", "failed", "killed"}]
    /\ fp \in [Launches -> {"none", "read", "write"}]
    /\ token \in [Launches -> Token] /\ passed \in [Launches -> Token]
    /\ got \in [Launches -> 0..Parts]

\* Whatever launches overlap, die while saving or run out of disk, the file
\* never mixes the tokens of two launches: each save starts from an empty
\* file and one write, so at worst it is a prefix of one token.
FileUnmixed == \A i, j \in 1..Len(file) : file[i] = file[j]

\* What reaches sgx_create_enclave is no token at all or one token saved in
\* full by one launch, although nothing keeps a launch from reading while
\* another truncates and saves.
TokenSound ==
    \A l \in Launches : passed[l] \in {NoToken} \cup {TokenOf(m) : m \in Launches}

\* "if there is no token, then create a new one" (App.cpp:169): a launch with
\* no new token to save leaves a saved token alone.
SavedTokenKept ==
    [][(Len(file) = Parts /\ file' = <<>>) => \E l \in Launches : pc[l] = "saving"]_vars

\* No interrupted or unlucky launch keeps a later one from starting: every
\* launch gets its enclave running, is refused it, or is killed.
LaunchEnds == \A l \in Launches : <>(pc[l] \in Ended)

-----------------------------------------------------------------------------
\* Mutants.  The size check is forgotten; fread wants the whole token and does
\* not stop at the end of the file; a write may be cut anywhere and is tried
\* again from the start; the count of a read is one too high.
ReadDoneUnchecked(l) ==
    /\ pc[l] = "reading"
    /\ fp[l] = "write" \/ got[l] = Parts \/ got[l] >= Len(file)
    /\ pc' = [pc EXCEPT ![l] = "launching"]
    /\ UNCHANGED <<exists, file, fp, token, got, passed>>
=============================================================================
