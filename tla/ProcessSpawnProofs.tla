------------------------- MODULE ProcessSpawnProofs -------------------------
(***************************************************************************)
(* The descriptors of popen, pclose and system, for any number of threads, *)
(* calls and descriptors, on hardware or in simulation.                    *)
(*                                                                         *)
(* What a thread owns follows from where it is: the descriptors it will    *)
(* still use (Keeps) and those it closes next (Queued), two disjoint sets. *)
(* A step of another thread changes descriptors that are free or its own.  *)
(***************************************************************************)
EXTENDS ProcessSpawn, FiniteSetTheorems, WellFoundedInduction, TLAPS

-----------------------------------------------------------------------------
(* The lowest free descriptors.                                            *)

\* A finite set of numbers has a least one: of the sets of numbers below one of
\* its members one is minimal.
LEMMA LeastMember ==
    ASSUME NEW S, S \subseteq Nat, IsFiniteSet(S), S # {}
    PROVE  \E x \in S : \A y \in S : x <= y
<1> DEFINE Below == {{z \in S : z <= x} : x \in S}
<1>1. Below \subseteq SUBSET S /\ Below # {}
  OBVIOUS
<1>2. \A B \in Below : IsFiniteSet(B)
  BY <1>1, FS_Subset
<1>3. PICK B \in Below : \A C \in Below : ~(<<C, B>> \in StrictSubsetOrdering(S))
  <2> HIDE DEF Below
  <2>1. Below \subseteq FiniteSubsetsOf(S)
    BY <1>1, <1>2 DEF FiniteSubsetsOf
  <2> QED
    BY <1>1, <2>1, WFMin, FS_StrictSubsetOrderingWellFounded
<1>4. PICK x \in S : B = {z \in S : z <= x}
  OBVIOUS
<1>5. ASSUME NEW y \in S, y < x PROVE FALSE
  <2> DEFINE C == {z \in S : z <= y}
  <2>1. C \in Below
    OBVIOUS
  <2>2. x \in Nat /\ y \in Nat /\ S \subseteq Nat
    OBVIOUS
  <2>3. \A z \in S : z <= y => z <= x
    BY <2>2, <1>5
  <2>4. C \subseteq B
    BY <2>3, <1>4
  <2>5. x \in B /\ x \notin C
    BY <2>2, <1>4, <1>5
  <2> QED
    BY <2>1, <2>4, <2>5, <1>3, <1>1 DEF StrictSubsetOrdering
<1> QED
  BY <1>5

\* Lowest gives a free descriptor whenever there is one.
LEMMA LowestIn == ASSUME NEW S \in SUBSET Fds, S # {} PROVE Lowest(S) \in S
BY LeastMember, FS_Subset, SpawnAssumption DEF Lowest

\* pipe2 gives two different ones.
LEMMA PairFree ==
    ASSUME Cardinality(FreeFds) >= 2
    PROVE  /\ NextPair \in Fds \X Fds /\ NextPair[1] # NextPair[2]
           /\ fds[NextPair[1]] = Free /\ fds[NextPair[2]] = Free
<1>1. FreeFds \in SUBSET Fds /\ IsFiniteSet(FreeFds)
  BY FS_Subset, SpawnAssumption DEF FreeFds
<1>2. FreeFds # {}
  BY FS_EmptySet
<1> DEFINE a == Lowest(FreeFds)
<1>3. a \in FreeFds
  BY <1>1, <1>2, LowestIn
<1>4. FreeFds \ {a} # {} /\ FreeFds \ {a} \in SUBSET Fds
  BY <1>1, <1>3, FS_Singleton
<1>5. Lowest(FreeFds \ {a}) \in FreeFds \ {a}
  BY <1>4, LowestIn
<1> QED
  BY <1>3, <1>5 DEF NextPair, FreeFds

-----------------------------------------------------------------------------
(* The invariant.                                                          *)

\* Where a thread goes on once it has closed what it is closing.
Place(t) == IF pc[t] = "close" THEN after[t] ELSE pc[t]

HasPipe(t) == op[t] \in {"r", "w"} /\ Place(t) \in {"fdopen", "move", "spawn", "clone", "sync"}

\* The descriptors it will still use.
Keeps(t) ==
    (IF HasPipe(t) THEN {p[t][1], p[t][2]} ELSE {})
    \cup (IF Place(t) = "clone" THEN {q[t][1], q[t][2]}
          ELSE IF Place(t) = "sync" THEN {q[t][1]} ELSE {})
    \cup (IF Place(t) = "open" THEN {Mine(t)} ELSE {})

\* Those it closes next.
Queued(t) == {todo[t][i] : i \in 1..Len(todo[t])}

\* The descriptors it keeps are what it takes them for.
Ends(t) ==
    /\ Place(t) \in {"fdopen", "move", "open"} => op[t] \in {"r", "w"}
    /\ Place(t) \notin {"idle", "open", "reap"} => op[t] # "none"
    /\ HasPipe(t) => /\ p[t] \in Fds \X Fds /\ fds[p[t][1]] = End(t, "data", "r")
                     /\ fds[p[t][2]] = End(t, "data", "w")
    /\ Place(t) \in {"clone", "sync"} => q[t] \in Fds \X Fds /\ fds[q[t][1]] = End(t, "sync", "r")
    /\ Place(t) = "clone" => fds[q[t][2]] = End(t, "sync", "w")
    /\ Place(t) = "open" => p[t] \in Fds \X Fds /\ fds[Mine(t)] = End(t, "data", op[t])

\* It closes each descriptor once, and none it keeps.
Closing(t) ==
    /\ pc[t] = "close" <=> todo[t] # <<>>
    /\ Queued(t) \subseteq Owned(t) \ Keeps(t)
    /\ Len(todo[t]) = 2 => todo[t][1] # todo[t][2]

Accounts(t) == Owned(t) = Keeps(t) \cup Queued(t)

TInv(t) == Ends(t) /\ Closing(t) /\ Accounts(t)

IInv == TypeOK /\ \A t \in Threads : TInv(t)

-----------------------------------------------------------------------------
\* The threads' names are not those of the other owners.
LEMMA Owners == \A t \in Threads : t # "free" /\ t # "base"
BY SpawnAssumption

\* A thread keeps and closes what it did as long as its own state stays and
\* others touch only what it does not own.
LEMMA Elsewhere ==
    ASSUME NEW s \in Threads, TypeOK, TypeOK', TInv(s),
           pc'[s] = pc[s], op'[s] = op[s], p'[s] = p[s], q'[s] = q[s],
           todo'[s] = todo[s], after'[s] = after[s],
           \A fd \in Fds : fds'[fd] = fds[fd] \/ (fds[fd].owner # s /\ fds'[fd].owner # s)
    PROVE  TInv(s)'
<1>1. Place(s)' = Place(s) /\ Mine(s)' = Mine(s) /\ HasPipe(s)' = HasPipe(s)
  BY DEF Place, Mine, HasPipe
<1>2. Keeps(s)' = Keeps(s) /\ Queued(s)' = Queued(s)
  BY <1>1 DEF Keeps, Queued
<1>3. Owned(s)' = Owned(s)
  BY DEF Owned
<1>4. \A fd \in Owned(s) : fds'[fd] = fds[fd]
  BY DEF Owned
<1>5. Accounts(s)' /\ Closing(s)'
  BY <1>2, <1>3 DEF TInv, Accounts, Closing
<1>6. Keeps(s) \subseteq Owned(s)
  BY DEF TInv, Accounts
<1>7. Ends(s)'
  BY <1>1, <1>4, <1>6 DEF TInv, Ends, Keeps, HasPipe
<1> QED
  BY <1>5, <1>7 DEF TInv

\* What a step of thread t leaves alone.
Untouched(t) ==
    /\ \A s \in Threads \ {t} :
          /\ pc'[s] = pc[s] /\ op'[s] = op[s] /\ p'[s] = p[s] /\ q'[s] = q[s]
          /\ todo'[s] = todo[s] /\ after'[s] = after[s]
    /\ \A fd \in Fds :
          \/ fds'[fd] = fds[fd]
          \/ fds[fd].owner \in {"free", t} /\ fds'[fd].owner \in {"free", t}

\* The invariant is kept by a step that keeps it for its own thread.
LEMMA OwnStep ==
    ASSUME IInv, NEW t \in Threads, TypeOK', Untouched(t), TInv(t)'
    PROVE  IInv'
<1> SUFFICES ASSUME NEW s \in Threads \ {t} PROVE TInv(s)'
  BY DEF IInv
<1>1. \A fd \in Fds : fds'[fd] = fds[fd] \/ (fds[fd].owner # s /\ fds'[fd].owner # s)
  BY Owners DEF Untouched
<1> QED
  BY <1>1, Elsewhere DEF IInv, Untouched

\* The descriptors queued, by the shape of todo.
LEMMA QueuedIs ==
    ASSUME NEW t \in Threads
    PROVE  /\ todo[t] = <<>> => Queued(t) = {}
           /\ \A a : todo[t] = <<a>> => Queued(t) = {a}
           /\ \A a, b : todo[t] = <<a, b>> => Queued(t) = {a, b}
BY DEF Queued

-----------------------------------------------------------------------------
\* popen takes the two lowest free descriptors or none.
LEMMA PopenStep ==
    ASSUME IInv, NEW t \in Threads, NEW c \in Calls, Popen(t, c)
    PROVE  TypeOK' /\ Untouched(t) /\ TInv(t)'
<1>1. CASE OpenPipe(t, "data") /\ Goto(t, "fdopen") /\ p' = [p EXCEPT ![t] = NextPair]
           /\ op' = [op EXCEPT ![t] = c]
  <2> DEFINE a == NextPair[1]
  <2> DEFINE b == NextPair[2]
  <2>1. NextPair \in Fds \X Fds /\ a \in Fds /\ b \in Fds /\ a # b /\ fds[a] = Free /\ fds[b] = Free
    BY <1>1, PairFree DEF OpenPipe
  <2>2. fds' = [fds EXCEPT ![a] = End(t, "data", "r"), ![b] = End(t, "data", "w")]
    BY <1>1 DEF OpenPipe
  <2> HIDE DEF a, b
  <2>3. fds' \in [Fds -> Entries]
    BY <2>1, <2>2 DEF IInv, TypeOK, Entries, End
  <2>4. c \in {"r", "w"}
    BY SpawnAssumption DEF Popen
  <2>5. pc' = [pc EXCEPT ![t] = "fdopen"] /\ UNCHANGED <<children, ignored, alive, q, todo, after, pid>>
        /\ pc[t] = "idle" /\ calls' = [calls EXCEPT ![t] = @ + 1] /\ calls[t] < MaxCalls
    BY <1>1 DEF Popen, Goto, Begin, At
  <2>6. TypeOK'
    BY <1>1, <2>1, <2>3, <2>5, SpawnAssumption DEF IInv, TypeOK, Labels
  <2>7. Untouched(t)
    BY <1>1, <2>1, <2>2, <2>5 DEF IInv, TypeOK, Untouched, Free, End
  <2>8. Place(t) = "idle" /\ Keeps(t) = {} /\ Queued(t) = {} /\ todo[t] = <<>>
    BY <2>5, QueuedIs DEF IInv, TInv, Place, Keeps, HasPipe, Closing
  <2>9. Owned(t) = {}
    BY <2>8 DEF IInv, TInv, Accounts
  <2>10. pc'[t] = "fdopen" /\ todo'[t] = <<>> /\ op'[t] = c /\ p'[t] = NextPair /\ p'[t][1] = a /\ p'[t][2] = b
    BY <1>1, <2>5, <2>8 DEF IInv, TypeOK, a, b
  <2>11. Keeps(t)' = {a, b} /\ Queued(t)' = {} /\ Place(t)' = "fdopen" /\ HasPipe(t)'
    BY <2>4, <2>10 DEF Keeps, HasPipe, Place, Queued
  <2>12. Owned(t)' = {a, b}
    BY <2>9, <2>2, <2>1 DEF Owned, End, IInv, TypeOK
  <2>13. fds'[a] = End(t, "data", "r") /\ fds'[b] = End(t, "data", "w") /\ p'[t] \in Fds \X Fds
    BY <2>1, <2>2, <2>10 DEF IInv, TypeOK
  <2>14. Ends(t)'
    BY <2>4, <2>10, <2>11, <2>13 DEF Ends
  <2>15. Closing(t)' /\ Accounts(t)'
    BY <2>10, <2>11, <2>12 DEF Closing, Accounts
  <2> QED
    BY <2>6, <2>7, <2>14, <2>15 DEF TInv
<1>2. CASE UNCHANGED <<fds, op, p, pc>>
  <2>1. UNCHANGED <<fds, children, ignored, alive, pc, op, p, q, todo, after, pid>>
        /\ calls' = [calls EXCEPT ![t] = @ + 1] /\ calls[t] < MaxCalls
    BY <1>2 DEF Popen, Begin
  <2>2. TypeOK'
    BY <2>1, SpawnAssumption DEF IInv, TypeOK
  <2>3. TInv(t)'
    BY <2>1, <2>2, Elsewhere DEF IInv
  <2>4. Untouched(t)
    BY <2>1 DEF Untouched
  <2> QED
    BY <2>2, <2>3, <2>4
<1> QED
  BY <1>1, <1>2 DEF Popen

\* What a step that opens and closes nothing, and goes on from place to place,
\* has to keep.
LEMMA SameFds ==
    ASSUME IInv, NEW t \in Threads, fds' = fds,
           Keeps(t)' \cup Queued(t)' = Keeps(t) \cup Queued(t),
           Keeps(t)' \cap Queued(t)' = {}
    PROVE  Accounts(t)' /\ Queued(t)' \subseteq Owned(t)' \ Keeps(t)'
<1>1. Owned(t)' = Owned(t)
  BY DEF Owned
<1> QED
  BY <1>1 DEF IInv, TInv, Accounts

\* fdopen keeps the two or gives them up.
LEMMA FdOpenStep ==
    ASSUME IInv, NEW t \in Threads, FdOpen(t)
    PROVE  TypeOK' /\ Untouched(t) /\ TInv(t)'
<1>1. UNCHANGED <<fds, children, ignored, alive, op, p, q, pid, calls>> /\ pc[t] = "fdopen"
  BY DEF FdOpen, At
<1>2. Place(t) = "fdopen" /\ HasPipe(t) /\ op[t] \in {"r", "w"}
  BY <1>1 DEF IInv, TInv, Ends, HasPipe, Place
<1>3. Keeps(t) = {p[t][1], p[t][2]} /\ todo[t] = <<>> /\ Queued(t) = {}
  BY <1>1, <1>2, QueuedIs DEF Keeps, IInv, TInv, Closing
<1>4. p[t] \in Fds \X Fds /\ fds[p[t][1]] = End(t, "data", "r") /\ fds[p[t][2]] = End(t, "data", "w")
  BY <1>2 DEF IInv, TInv, Ends
<1>5. p[t][1] # p[t][2]
  BY <1>4 DEF End
<1>6. CASE Goto(t, IF Other(t) = Final(t) THEN "move" ELSE "spawn") /\ UNCHANGED <<todo, after>>
  <2>1. PICK l \in {"move", "spawn"} : pc' = [pc EXCEPT ![t] = l]
    BY <1>6 DEF Goto
  <2>2. TypeOK' /\ Untouched(t)
    BY <1>1, <1>6, <2>1 DEF IInv, TypeOK, Labels, Untouched
  <2>3. pc'[t] = l
    BY <2>1 DEF IInv, TypeOK
  <2>4. Place(t)' = l /\ HasPipe(t)'
    BY <1>1, <1>2, <2>3 DEF Place, HasPipe
  <2>5. Keeps(t)' = {p[t][1], p[t][2]} /\ Queued(t)' = {} /\ todo'[t] = <<>>
    BY <1>1, <1>3, <1>6, <2>4 DEF Keeps, Queued
  <2>6. Ends(t)'
    BY <1>1, <1>2, <1>4, <1>5, <2>4 DEF Ends
  <2> QED
    BY <1>1, <1>3, <2>2, <2>3, <2>5, <2>6, SameFds DEF TInv, Closing
<1>7. CASE CloseThen(t, p[t], "idle")
  <2>1. todo' = [todo EXCEPT ![t] = p[t]] /\ after' = [after EXCEPT ![t] = "idle"] /\ pc' = [pc EXCEPT ![t] = "close"]
    BY <1>7 DEF CloseThen, Goto
  <2>2. TypeOK' /\ Untouched(t)
    BY <1>1, <1>4, <2>1 DEF IInv, TypeOK, Labels, Untouched
  <2>3. pc'[t] = "close" /\ after'[t] = "idle" /\ todo'[t] = p[t]
    BY <2>1 DEF IInv, TypeOK
  <2>4. Place(t)' = "idle" /\ ~HasPipe(t)' /\ Keeps(t)' = {}
    BY <2>3 DEF Place, HasPipe, Keeps
  <2>5. Queued(t)' = {p[t][1], p[t][2]}
    BY <1>4, <2>3 DEF Queued
  <2>6. Ends(t)'
    BY <2>4 DEF Ends
  <2> QED
    BY <1>1, <1>3, <1>4, <1>5, <2>2, <2>3, <2>4, <2>5, <2>6, SameFds DEF TInv, Closing
<1> QED
  BY <1>6, <1>7 DEF FdOpen

\* pipe2 adds two descriptors to what the thread owns.
LEMMA PipeOpened ==
    ASSUME IInv, NEW t \in Threads, NEW kind \in {"data", "sync"}, OpenPipe(t, kind)
    PROVE  \E a, b \in Fds :
              /\ NextPair = <<a, b>> /\ a # b /\ a \notin Owned(t) /\ b \notin Owned(t)
              /\ fds[a] = Free /\ fds[b] = Free
              /\ fds' = [fds EXCEPT ![a] = End(t, kind, "r"), ![b] = End(t, kind, "w")]
              /\ fds' \in [Fds -> Entries] /\ Owned(t)' = Owned(t) \cup {a, b}
              /\ fds'[a] = End(t, kind, "r") /\ fds'[b] = End(t, kind, "w")
              /\ \A fd \in Owned(t) : fds'[fd] = fds[fd]
<1>1. PICK a, b \in Fds : NextPair = <<a, b>> /\ a # b /\ fds[a] = Free /\ fds[b] = Free
  BY PairFree DEF OpenPipe
<1>2. fds' = [fds EXCEPT ![a] = End(t, kind, "r"), ![b] = End(t, kind, "w")]
  BY <1>1 DEF OpenPipe
<1>3. fds \in [Fds -> Entries]
  BY DEF IInv, TypeOK
<1>4. fds' \in [Fds -> Entries]
  BY <1>2, <1>3 DEF Entries, End
<1>5. a \notin Owned(t) /\ b \notin Owned(t)
  BY <1>1, Owners DEF Owned, Free
<1>6. Owned(t)' = Owned(t) \cup {a, b} /\ \A fd \in Owned(t) : fds'[fd] = fds[fd]
  BY <1>1, <1>2, <1>3, <1>5 DEF Owned, End
<1>7. fds'[a] = End(t, kind, "r") /\ fds'[b] = End(t, kind, "w")
  BY <1>1, <1>2, <1>3
<1> QED
  BY <1>1, <1>2, <1>4, <1>5, <1>6, <1>7

\* What a thread has in its pipes at the places where it uses them.
LEMMA PipeAt ==
    ASSUME IInv, NEW t \in Threads, HasPipe(t)
    PROVE  /\ p[t] \in Fds \X Fds /\ p[t][1] # p[t][2]
           /\ fds[p[t][1]] = End(t, "data", "r") /\ fds[p[t][2]] = End(t, "data", "w")
           /\ {Mine(t), Other(t)} = {p[t][1], p[t][2]} /\ Mine(t) # Other(t)
           /\ fds[Mine(t)] = End(t, "data", op[t])
<1>1. /\ p[t] \in Fds \X Fds
      /\ fds[p[t][1]] = End(t, "data", "r") /\ fds[p[t][2]] = End(t, "data", "w")
  BY DEF IInv, TInv, Ends
<1>2. p[t][1] # p[t][2]
  BY <1>1 DEF End
<1> QED
  BY <1>1, <1>2 DEF Mine, Other, HasPipe

\* system goes straight to posix_spawn.
LEMMA SystemStep ==
    ASSUME IInv, NEW t \in Threads, "system" \in Calls, System(t)
    PROVE  TypeOK' /\ Untouched(t) /\ TInv(t)'
<1>1. /\ UNCHANGED <<fds, children, ignored, alive, p, q, todo, after, pid>>
      /\ pc[t] = "idle" /\ calls[t] < MaxCalls /\ calls' = [calls EXCEPT ![t] = @ + 1]
      /\ pc' = [pc EXCEPT ![t] = "spawn"] /\ op' = [op EXCEPT ![t] = "system"]
  BY DEF System, Begin, At, Goto
<1>2. TypeOK' /\ Untouched(t)
  BY <1>1, SpawnAssumption DEF IInv, TypeOK, Labels, Untouched
<1>3. Keeps(t) = {} /\ Queued(t) = {} /\ todo[t] = <<>>
  BY <1>1, QueuedIs DEF IInv, TInv, Place, Keeps, HasPipe, Closing
<1>4. pc'[t] = "spawn" /\ op'[t] = "system" /\ todo'[t] = <<>>
  BY <1>1, <1>3 DEF IInv, TypeOK
<1>5. Place(t)' = "spawn" /\ ~HasPipe(t)' /\ Keeps(t)' = {} /\ Queued(t)' = {}
  BY <1>4 DEF Place, HasPipe, Keeps, Queued
<1>6. Ends(t)'
  BY <1>4, <1>5 DEF Ends
<1> QED
  BY <1>1, <1>2, <1>3, <1>4, <1>5, <1>6, SameFds DEF TInv, Closing

\* The child's end is moved, or popen gives up.
LEMMA MoveStep ==
    ASSUME IInv, NEW t \in Threads, Move(t)
    PROVE  TypeOK' /\ Untouched(t) /\ TInv(t)'
<1>1. UNCHANGED <<children, ignored, alive, op, q, pid, calls>> /\ pc[t] = "move"
  BY DEF Move, At
<1>2. Place(t) = "move" /\ HasPipe(t) /\ op[t] \in {"r", "w"}
  BY <1>1 DEF IInv, TInv, Ends, HasPipe, Place
<1>3. Keeps(t) = {p[t][1], p[t][2]} /\ todo[t] = <<>> /\ Queued(t) = {} /\ Owned(t) = {p[t][1], p[t][2]}
  BY <1>1, <1>2, QueuedIs DEF Keeps, IInv, TInv, Closing, Accounts
<1>4. p[t] \in Fds \X Fds
  BY <1>2, PipeAt
<1> DEFINE mine == Mine(t)
<1> DEFINE other == Other(t)
<1>5. mine \in Fds /\ other \in Fds /\ mine # other /\ Owned(t) = {mine, other}
  BY <1>2, <1>3, <1>4, PipeAt DEF Mine, Other
<1>6. ASSUME FreeFds # {}, NEW tmp, tmp = Lowest(FreeFds), fds' = [fds EXCEPT ![tmp] = fds[other]],
             p' = [p EXCEPT ![t] = IF op[t] = "r" THEN <<@[1], tmp>> ELSE <<tmp, @[2]>>],
             CloseThen(t, <<other>>, "spawn")
      PROVE  TypeOK' /\ Untouched(t) /\ TInv(t)'
  <2>1. tmp \in Fds /\ fds[tmp] = Free
    BY <1>6, LowestIn DEF FreeFds
  <2>2. tmp # mine /\ tmp # other
    BY <2>1, <1>5, Owners DEF Owned, Free
  <2>3. todo' = [todo EXCEPT ![t] = <<other>>] /\ after' = [after EXCEPT ![t] = "spawn"] /\ pc' = [pc EXCEPT ![t] = "close"]
    BY <1>6 DEF CloseThen, Goto
  <2>4. fds' \in [Fds -> Entries]
    BY <1>5, <1>6, <2>1 DEF IInv, TypeOK
  <2>5. p[t] = IF op[t] = "r" THEN <<mine, other>> ELSE <<other, mine>>
    BY <1>4 DEF Mine, Other
  <2>6. p'[t] = IF op[t] = "r" THEN <<mine, tmp>> ELSE <<tmp, mine>>
    BY <1>4, <1>6 DEF IInv, TypeOK, Mine
  <2>7. p' \in [Threads -> {<<>>} \cup Fds \X Fds]
    BY <1>4, <1>6, <2>1 DEF IInv, TypeOK
  <2>8. TypeOK'
    BY <1>1, <1>5, <2>3, <2>4, <2>7 DEF IInv, TypeOK, Labels
  <2>9. fds[other].owner = t
    BY <1>5 DEF Owned
  <2>10. \A fd \in Fds : fds'[fd] = IF fd = tmp THEN fds[other] ELSE fds[fd]
    BY <1>6 DEF IInv, TypeOK
  <2>11. Untouched(t)
    BY <1>1, <1>6, <2>1, <2>3, <2>9, <2>10 DEF IInv, TypeOK, Untouched, Free
  <2>12. Owned(t)' = {mine, other, tmp}
    BY <1>5, <2>1, <2>2, <2>9, <2>10 DEF Owned
  <2>13. pc'[t] = "close" /\ after'[t] = "spawn" /\ todo'[t] = <<other>> /\ op'[t] = op[t]
    BY <1>1, <2>3 DEF IInv, TypeOK
  <2>14. Place(t)' = "spawn" /\ HasPipe(t)'
    BY <1>2, <2>13 DEF Place, HasPipe
  <2>15. Keeps(t)' = {mine, tmp} /\ Queued(t)' = {other}
    BY <2>6, <2>13, <2>14 DEF Keeps, Queued
  <2>16. fds[mine] = End(t, "data", op[t]) /\ fds[other] = End(t, "data", IF op[t] = "r" THEN "w" ELSE "r")
    BY <1>2, PipeAt DEF Mine, Other
  <2>17. fds'[mine] = End(t, "data", op[t]) /\ fds'[tmp] = End(t, "data", IF op[t] = "r" THEN "w" ELSE "r")
    BY <1>5, <2>1, <2>2, <2>10, <2>16
  <2>18. p'[t] \in Fds \X Fds /\ fds'[p'[t][1]] = End(t, "data", "r") /\ fds'[p'[t][2]] = End(t, "data", "w")
    BY <1>2, <1>5, <2>1, <2>6, <2>17
  <2>19. Ends(t)'
    BY <1>2, <2>13, <2>14, <2>18 DEF Ends
  <2>20. Closing(t)' /\ Accounts(t)'
    BY <1>5, <2>2, <2>12, <2>13, <2>15 DEF Closing, Accounts
  <2> QED
    BY <2>8, <2>11, <2>19, <2>20 DEF TInv
<1>7. CASE CloseThen(t, <<mine, other>>, "idle") /\ UNCHANGED <<fds, p>>
  <2>1. todo' = [todo EXCEPT ![t] = <<mine, other>>] /\ after' = [after EXCEPT ![t] = "idle"] /\ pc' = [pc EXCEPT ![t] = "close"]
    BY <1>7 DEF CloseThen, Goto
  <2>2. TypeOK' /\ Untouched(t)
    BY <1>1, <1>5, <1>7, <2>1 DEF IInv, TypeOK, Labels, Untouched
  <2>3. pc'[t] = "close" /\ after'[t] = "idle" /\ todo'[t] = <<mine, other>>
    BY <2>1 DEF IInv, TypeOK
  <2>4. Place(t)' = "idle" /\ ~HasPipe(t)' /\ Keeps(t)' = {}
    BY <2>3 DEF Place, HasPipe, Keeps
  <2>5. Queued(t)' = {mine, other}
    BY <2>3 DEF Queued
  <2>6. Ends(t)'
    BY <2>4 DEF Ends
  <2> QED
    BY <1>3, <1>5, <1>7, <2>2, <2>3, <2>4, <2>5, <2>6, SameFds DEF TInv, Closing
<1> QED
  BY <1>6, <1>7 DEF Move

\* A call returns with nothing left.
LEMMA ReturnStep ==
    ASSUME IInv, NEW t \in Threads, Return(t), UNCHANGED <<fds, todo, after, calls>>,
           pc[t] # "close", Keeps(t) = {},
           children' = {}, ignored' \in BOOLEAN, alive' \in BOOLEAN
    PROVE  TypeOK' /\ Untouched(t) /\ TInv(t)'
<1>1. /\ pc' = [pc EXCEPT ![t] = "idle"] /\ op' = [op EXCEPT ![t] = "none"]
      /\ pid' = [pid EXCEPT ![t] = 0] /\ p' = [p EXCEPT ![t] = <<>>] /\ q' = [q EXCEPT ![t] = <<>>]
  BY DEF Return, Goto
<1>2. TypeOK' /\ Untouched(t)
  BY <1>1 DEF IInv, TypeOK, Labels, Untouched
<1>3. todo[t] = <<>> /\ Queued(t) = {}
  BY QueuedIs DEF IInv, TInv, Closing
<1>4. pc'[t] = "idle" /\ todo'[t] = <<>>
  BY <1>1, <1>3 DEF IInv, TypeOK
<1>5. Place(t)' = "idle" /\ Keeps(t)' = {} /\ Queued(t)' = {} /\ ~HasPipe(t)'
  BY <1>4 DEF Place, HasPipe, Keeps, Queued
<1>6. Ends(t)'
  BY <1>5 DEF Ends
<1> QED
  BY <1>2, <1>3, <1>4, <1>5, <1>6, SameFds DEF TInv, Closing

\* posix_spawn opens a pipe of its own, or fails.
LEMMA SpawnStep ==
    ASSUME IInv, NEW t \in Threads, Spawn(t)
    PROVE  TypeOK' /\ Untouched(t) /\ TInv(t)'
<1>1. UNCHANGED <<children, ignored, alive, calls>> /\ pc[t] = "spawn"
  BY DEF Spawn, At
<1>2. Place(t) = "spawn" /\ todo[t] = <<>> /\ Queued(t) = {} /\ op[t] # "none"
  BY <1>1, QueuedIs DEF IInv, TInv, Ends, Place, Closing
<1>3. Keeps(t) = IF HasPipe(t) THEN {p[t][1], p[t][2]} ELSE {}
  BY <1>2 DEF Keeps
<1>4. op[t] = "system" <=> ~HasPipe(t)
  BY <1>2, SpawnAssumption DEF HasPipe, IInv, TypeOK
<1>5. CASE OpenPipe(t, "sync") /\ q' = [q EXCEPT ![t] = NextPair] /\ Goto(t, "clone")
           /\ UNCHANGED <<todo, after, op, p, pid>>
  <2>1. PICK a, b \in Fds :
              /\ NextPair = <<a, b>> /\ a # b /\ a \notin Owned(t) /\ b \notin Owned(t)
              /\ fds[a] = Free /\ fds[b] = Free
              /\ fds' = [fds EXCEPT ![a] = End(t, "sync", "r"), ![b] = End(t, "sync", "w")]
              /\ fds' \in [Fds -> Entries] /\ Owned(t)' = Owned(t) \cup {a, b}
              /\ fds'[a] = End(t, "sync", "r") /\ fds'[b] = End(t, "sync", "w")
              /\ \A fd \in Owned(t) : fds'[fd] = fds[fd]
    BY <1>5, PipeOpened
  <2>2. pc' = [pc EXCEPT ![t] = "clone"] /\ q' = [q EXCEPT ![t] = <<a, b>>]
    BY <1>5, <2>1 DEF Goto
  <2>3. TypeOK'
    BY <1>1, <1>5, <2>1, <2>2 DEF IInv, TypeOK, Labels
  <2>4. Untouched(t)
    BY <1>5, <2>1, <2>2 DEF IInv, TypeOK, Untouched, Free, End
  <2>5. pc'[t] = "clone" /\ q'[t] = <<a, b>> /\ todo'[t] = <<>> /\ p'[t] = p[t] /\ op'[t] = op[t]
    BY <1>2, <1>5, <2>2 DEF IInv, TypeOK
  <2>6. Place(t)' = "clone" /\ (HasPipe(t)' <=> HasPipe(t))
    BY <1>2, <2>5 DEF Place, HasPipe
  <2>7. Keeps(t)' = Keeps(t) \cup {a, b} /\ Queued(t)' = {}
    BY <1>3, <2>5, <2>6 DEF Keeps, Queued
  <2>8. Owned(t) = Keeps(t)
    BY <1>2 DEF IInv, TInv, Accounts
  <2>9. HasPipe(t) => /\ p'[t] \in Fds \X Fds /\ fds'[p'[t][1]] = End(t, "data", "r")
                      /\ fds'[p'[t][2]] = End(t, "data", "w")
    BY <1>3, <2>1, <2>5, <2>8, PipeAt
  <2>10. Ends(t)'
    BY <1>2, <2>1, <2>5, <2>6, <2>9 DEF Ends
  <2>11. Closing(t)' /\ Accounts(t)'
    BY <2>1, <2>5, <2>7, <2>8 DEF Closing, Accounts
  <2> QED
    BY <2>3, <2>4, <2>10, <2>11 DEF TInv
<1>6. CASE Undo(t) /\ UNCHANGED fds
  <2>1. CASE op[t] = "system"
    <3>1. Keeps(t) = {}
      BY <1>3, <1>4, <2>1
    <3> QED
      BY <1>1, <1>6, <2>1, <3>1, ReturnStep DEF Undo, IInv, TypeOK
  <2>2. CASE op[t] # "system"
    <3>1. HasPipe(t) /\ p[t] \in Fds \X Fds /\ {Mine(t), Other(t)} = {p[t][1], p[t][2]} /\ Mine(t) # Other(t)
      BY <1>4, <2>2, PipeAt
    <3>2. UNCHANGED <<op, p, q, pid>> /\ todo' = [todo EXCEPT ![t] = <<Mine(t), Other(t)>>]
          /\ after' = [after EXCEPT ![t] = "idle"] /\ pc' = [pc EXCEPT ![t] = "close"]
      BY <1>6, <2>2 DEF Undo, CloseThen, Goto
    <3>3. Mine(t) \in Fds /\ Other(t) \in Fds
      BY <3>1
    <3>4. TypeOK' /\ Untouched(t)
      BY <1>1, <1>6, <3>2, <3>3 DEF IInv, TypeOK, Labels, Untouched
    <3>5. pc'[t] = "close" /\ after'[t] = "idle" /\ todo'[t] = <<Mine(t), Other(t)>>
      BY <3>2 DEF IInv, TypeOK
    <3>6. Place(t)' = "idle" /\ ~HasPipe(t)' /\ Keeps(t)' = {}
      BY <3>5 DEF Place, HasPipe, Keeps
    <3>7. Queued(t)' = {Mine(t), Other(t)}
      BY <3>5 DEF Queued
    <3>8. Ends(t)'
      BY <3>6 DEF Ends
    <3>9. Accounts(t)' /\ Queued(t)' \subseteq Owned(t)' \ Keeps(t)'
      BY <1>2, <1>3, <1>6, <3>1, <3>6, <3>7, SameFds
    <3>10. Closing(t)'
      BY <3>1, <3>5, <3>9 DEF Closing
    <3> QED
      BY <3>4, <3>8, <3>9, <3>10 DEF TInv
  <2> QED
    BY <2>1, <2>2
<1> QED
  BY <1>5, <1>6 DEF Spawn

\* After clone the writing end is what is closed next.
LEMMA CloneStep ==
    ASSUME IInv, NEW t \in Threads, Clone(t)
    PROVE  TypeOK' /\ Untouched(t) /\ TInv(t)'
<1> DEFINE b == q[t][2]
<1>1. /\ UNCHANGED <<fds, children, ignored, alive, op, p, q, calls>> /\ pc[t] = "clone"
      /\ pid' = [pid EXCEPT ![t] = ClonePid] /\ todo' = [todo EXCEPT ![t] = <<b>>]
      /\ after' = [after EXCEPT ![t] = "sync"] /\ pc' = [pc EXCEPT ![t] = "close"]
  BY DEF Clone, At, CloseThen, Goto
<1>2. Place(t) = "clone" /\ todo[t] = <<>> /\ Queued(t) = {} /\ op[t] # "none"
  BY <1>1, QueuedIs DEF IInv, TInv, Ends, Place, Closing
<1>3. /\ q[t] \in Fds \X Fds /\ b \in Fds
      /\ fds[q[t][1]] = End(t, "sync", "r") /\ fds[b] = End(t, "sync", "w")
  BY <1>2 DEF IInv, TInv, Ends
<1>4. Keeps(t) = {q[t][1], b} \cup (IF HasPipe(t) THEN {p[t][1], p[t][2]} ELSE {})
  BY <1>2 DEF Keeps
<1>5. b # q[t][1] /\ (HasPipe(t) => b # p[t][1] /\ b # p[t][2])
  <2>1. HasPipe(t) => fds[p[t][1]] = End(t, "data", "r") /\ fds[p[t][2]] = End(t, "data", "w")
    BY PipeAt
  <2> QED
    BY <1>3, <2>1 DEF End
<1>6. TypeOK' /\ Untouched(t)
  BY <1>1, <1>3 DEF IInv, TypeOK, Labels, Untouched
<1>7. pc'[t] = "close" /\ after'[t] = "sync" /\ todo'[t] = <<b>>
  BY <1>1 DEF IInv, TypeOK
<1>8. Place(t)' = "sync" /\ (HasPipe(t)' <=> HasPipe(t))
  BY <1>1, <1>2, <1>7 DEF Place, HasPipe
<1>9. Keeps(t)' = {q[t][1]} \cup (IF HasPipe(t) THEN {p[t][1], p[t][2]} ELSE {})
  BY <1>1, <1>8 DEF Keeps
<1>10. Queued(t)' = {b}
  BY <1>7 DEF Queued
<1>11. Ends(t)'
  BY <1>1, <1>2, <1>3, <1>8, PipeAt DEF Ends
<1>12. Accounts(t)' /\ Queued(t)' \subseteq Owned(t)' \ Keeps(t)'
  BY <1>1, <1>2, <1>4, <1>5, <1>9, <1>10, SameFds
<1>13. Closing(t)'
  BY <1>7, <1>12 DEF Closing
<1> QED
  BY <1>6, <1>11, <1>12, <1>13 DEF TInv

\* The wait for the child ends.
LEMMA SyncStep ==
    ASSUME IInv, NEW t \in Threads, Sync(t)
    PROVE  TypeOK' /\ Untouched(t) /\ TInv(t)'
<1> DEFINE a == q[t][1]
<1>1. UNCHANGED <<fds, children, ignored, alive, op, p, q, pid, calls>> /\ pc[t] = "sync"
  BY DEF Sync, At
<1>2. Place(t) = "sync" /\ todo[t] = <<>> /\ Queued(t) = {} /\ op[t] # "none"
  BY <1>1, QueuedIs DEF IInv, TInv, Ends, Place, Closing
<1>3. a \in Fds /\ fds[a] = End(t, "sync", "r")
  BY <1>2 DEF IInv, TInv, Ends
<1>4. Keeps(t) = {a} \cup (IF HasPipe(t) THEN {p[t][1], p[t][2]} ELSE {})
  BY <1>2 DEF Keeps
<1>5. op[t] = "system" <=> ~HasPipe(t)
  BY <1>2, SpawnAssumption DEF HasPipe, IInv, TypeOK
<1>6. CASE op[t] = "system" /\ CloseThen(t, <<a>>, "wait")
  <2>1. todo' = [todo EXCEPT ![t] = <<a>>] /\ after' = [after EXCEPT ![t] = "wait"] /\ pc' = [pc EXCEPT ![t] = "close"]
    BY <1>6 DEF CloseThen, Goto
  <2>2. TypeOK' /\ Untouched(t)
    BY <1>1, <1>3, <2>1 DEF IInv, TypeOK, Labels, Untouched
  <2>3. pc'[t] = "close" /\ after'[t] = "wait" /\ todo'[t] = <<a>>
    BY <2>1 DEF IInv, TypeOK
  <2>4. Place(t)' = "wait" /\ ~HasPipe(t)' /\ Keeps(t)' = {}
    BY <2>3 DEF Place, HasPipe, Keeps
  <2>5. Queued(t)' = {a}
    BY <2>3 DEF Queued
  <2>6. Ends(t)'
    BY <1>1, <1>2, <2>4 DEF Ends
  <2>7. Accounts(t)' /\ Queued(t)' \subseteq Owned(t)' \ Keeps(t)'
    BY <1>1, <1>2, <1>4, <1>5, <1>6, <2>4, <2>5, SameFds
  <2>8. Closing(t)'
    BY <2>3, <2>7 DEF Closing
  <2> QED
    BY <2>2, <2>6, <2>7, <2>8 DEF TInv
<1>7. CASE op[t] # "system" /\ CloseThen(t, <<a, Other(t)>>, "open")
  <2>1. HasPipe(t) /\ p[t] \in Fds \X Fds /\ {Mine(t), Other(t)} = {p[t][1], p[t][2]}
        /\ Mine(t) # Other(t) /\ fds[Mine(t)] = End(t, "data", op[t])
    BY <1>5, <1>7, PipeAt
  <2>2. a # p[t][1] /\ a # p[t][2]
    <3>1. fds[p[t][1]] = End(t, "data", "r") /\ fds[p[t][2]] = End(t, "data", "w")
      BY <2>1, PipeAt
    <3> QED
      BY <1>3, <3>1 DEF End
  <2>3. a # Mine(t) /\ a # Other(t) /\ Mine(t) \in Fds /\ Other(t) \in Fds
    BY <2>1, <2>2
  <2>4. todo' = [todo EXCEPT ![t] = <<a, Other(t)>>] /\ after' = [after EXCEPT ![t] = "open"] /\ pc' = [pc EXCEPT ![t] = "close"]
    BY <1>7 DEF CloseThen, Goto
  <2>5. TypeOK' /\ Untouched(t)
    BY <1>1, <1>3, <2>3, <2>4 DEF IInv, TypeOK, Labels, Untouched
  <2>6. pc'[t] = "close" /\ after'[t] = "open" /\ todo'[t] = <<a, Other(t)>>
    BY <2>4 DEF IInv, TypeOK
  <2>7. Place(t)' = "open" /\ ~HasPipe(t)' /\ Mine(t)' = Mine(t)
    BY <1>1, <2>6 DEF Place, HasPipe, Mine
  <2>8. Keeps(t)' = {Mine(t)} /\ Queued(t)' = {a, Other(t)}
    BY <2>6, <2>7 DEF Keeps, Queued
  <2>9. Ends(t)'
    BY <1>1, <2>1, <2>7 DEF Ends, HasPipe
  <2>10. Accounts(t)' /\ Queued(t)' \subseteq Owned(t)' \ Keeps(t)'
    BY <1>1, <1>2, <1>4, <2>1, <2>3, <2>8, SameFds
  <2>11. Closing(t)'
    BY <2>3, <2>6, <2>10 DEF Closing
  <2> QED
    BY <2>5, <2>9, <2>10, <2>11 DEF TInv
<1> QED
  BY <1>6, <1>7 DEF Sync

\* One descriptor less is owned, and one less queued.
LEMMA CloseStep ==
    ASSUME IInv, NEW t \in Threads, Close(t)
    PROVE  TypeOK' /\ Untouched(t) /\ TInv(t)' /\ Head(todo[t]) \in Owned(t) /\ todo'[t] # todo[t]
<1>1. /\ UNCHANGED <<children, ignored, alive, calls>> /\ pc[t] = "close"
      /\ fds' = [fds EXCEPT ![Head(todo[t])] = Free] /\ todo' = [todo EXCEPT ![t] = Tail(@)]
      /\ after' = [after EXCEPT ![t] = IF Len(todo[t]) = 1 THEN "idle" ELSE @]
  BY DEF Close, At
<1>2. PICK h \in Fds : todo[t] = <<h>> \/ \E b \in Fds : todo[t] = <<h, b>>
  <2>1. todo[t] # <<>> /\ todo[t] \in {<<>>} \cup {<<fd>> : fd \in Fds} \cup Fds \X Fds
    BY <1>1 DEF IInv, TInv, Closing, TypeOK
  <2> QED
    BY <2>1
<1>13. Head(todo[t]) = h
  BY <1>2
<1>3. Place(t) = after[t]
  BY <1>1 DEF Place
<1>4. Owned(t) = Keeps(t) \cup Queued(t) /\ Keeps(t) \cap Queued(t) = {}
  BY DEF IInv, TInv, Closing, Accounts
<1>5. h \in Queued(t) /\ h \in Fds
  BY <1>2 DEF Queued
<1>6. \A fd \in Fds : fds'[fd] = IF fd = h THEN Free ELSE fds[fd]
  BY <1>1, <1>13 DEF IInv, TypeOK
<1>7. fds' \in [Fds -> Entries]
  BY <1>1 DEF IInv, TypeOK, Entries
<1>8. Owned(t)' = Owned(t) \ {h}
  BY <1>6, Owners DEF Owned, Free
<1>9. \A fd \in Keeps(t) : fds'[fd] = fds[fd]
  <2>1. \A fd \in Keeps(t) : fd \in Fds /\ fd # h
    BY <1>4, <1>5 DEF Owned
  <2> QED
    BY <2>1, <1>6
<1>10. fds[h].owner = t
  BY <1>4, <1>5 DEF Owned
<1>11. CASE Len(todo[t]) # 1
  <2>1. PICK b \in Fds : todo[t] = <<h, b>>
    BY <1>2, <1>11
  <2>2. pc' = [pc EXCEPT ![t] = "close"] /\ UNCHANGED <<op, p, q, pid, after>>
    <3>1. after' = after
      BY <1>1, <1>11 DEF IInv, TypeOK
    <3> QED
      BY <3>1, <1>11 DEF Close, Goto
  <2>3. todo' = [todo EXCEPT ![t] = <<b>>]
    BY <1>1, <2>1
  <2>4. TypeOK' /\ Untouched(t)
    <3>1. todo' \in [Threads -> {<<>>} \cup {<<fd>> : fd \in Fds} \cup Fds \X Fds]
      BY <2>3 DEF IInv, TypeOK
    <3>2. TypeOK'
      BY <1>1, <1>7, <2>2, <3>1 DEF IInv, TypeOK, Labels
    <3> QED
      BY <3>2, <1>1, <1>6, <1>10, <2>2, <2>3 DEF Untouched, Free
  <2>5. pc'[t] = "close" /\ todo'[t] = <<b>> /\ todo'[t] # todo[t]
    <3>1. pc'[t] = "close" /\ todo'[t] = <<b>>
      BY <2>2, <2>3 DEF IInv, TypeOK
    <3>2. Len(todo'[t]) = 1
      BY <3>1
    <3> QED
      BY <1>11, <3>1, <3>2
  <2>6. Place(t)' = Place(t) /\ (HasPipe(t)' <=> HasPipe(t)) /\ Mine(t)' = Mine(t)
    BY <1>3, <2>2, <2>5 DEF Place, HasPipe, Mine
  <2>7. Keeps(t)' = Keeps(t) /\ Queued(t)' = {b}
    BY <2>2, <2>5, <2>6 DEF Keeps, Queued
  <2>8. h # b /\ Queued(t) = {h, b}
    <3>1. Len(todo[t]) = 2 /\ todo[t][1] = h /\ todo[t][2] = b
      BY <2>1
    <3>2. todo[t][1] # todo[t][2]
      BY <3>1 DEF IInv, TInv, Closing
    <3> QED
      BY <2>1, <3>1, <3>2, QueuedIs
  <2>9. Ends(t)'
    BY <1>9, <2>2, <2>6 DEF IInv, TInv, Ends, Keeps, HasPipe
  <2>10. Accounts(t)' /\ Closing(t)'
    BY <1>4, <1>8, <2>5, <2>7, <2>8 DEF Accounts, Closing
  <2> QED
    BY <1>4, <1>5, <1>13, <2>4, <2>5, <2>9, <2>10 DEF TInv
<1>12. CASE Len(todo[t]) = 1
  <2> todo[t] = <<h>>
    BY <1>2, <1>12
  <2> Tail(todo[t]) = <<>>
    OBVIOUS
  <2>1. todo[t] = <<h>> /\ todo' = [todo EXCEPT ![t] = <<>>] /\ after' = [after EXCEPT ![t] = "idle"]
    BY <1>1, <1>12
  <2>2. Queued(t) = {h} /\ todo'[t] = <<>> /\ Queued(t)' = {} /\ todo'[t] # todo[t]
    BY <2>1, QueuedIs DEF IInv, TypeOK, Queued
  <2>3. after[t] \in {"idle", "spawn", "sync", "wait", "open", "reap"}
    BY DEF IInv, TypeOK
  <2>4. CASE after[t] = "idle" /\ Return(t)
    <3>1. /\ pc' = [pc EXCEPT ![t] = "idle"] /\ op' = [op EXCEPT ![t] = "none"]
          /\ pid' = [pid EXCEPT ![t] = 0] /\ p' = [p EXCEPT ![t] = <<>>] /\ q' = [q EXCEPT ![t] = <<>>]
      BY <2>4 DEF Return, Goto
    <3>2. TypeOK'
      BY <1>1, <1>7, <2>1, <3>1 DEF IInv, TypeOK, Labels
    <3>3. Untouched(t)
      BY <1>6, <1>10, <2>1, <3>1 DEF IInv, TypeOK, Untouched, Free
    <3>4. pc'[t] = "idle"
      BY <3>1 DEF IInv, TypeOK
    <3>5. Place(t)' = "idle" /\ Keeps(t)' = {} /\ ~HasPipe(t)' /\ Keeps(t) = {}
      BY <1>3, <2>4, <3>4 DEF Place, Keeps, HasPipe
    <3>6. Ends(t)' /\ Accounts(t)' /\ Closing(t)'
      BY <1>4, <1>8, <2>2, <3>4, <3>5 DEF Ends, Accounts, Closing
    <3> QED
      BY <1>4, <1>5, <1>13, <2>2, <3>2, <3>3, <3>6 DEF TInv
  <2>5. CASE after[t] # "idle" /\ Goto(t, after[t]) /\ UNCHANGED <<op, p, q, pid>>
    <3>1. pc' = [pc EXCEPT ![t] = after[t]]
      BY <2>5 DEF Goto
    <3>2. TypeOK'
      BY <1>1, <1>7, <2>1, <2>3, <2>5, <3>1 DEF IInv, TypeOK, Labels
    <3>3. Untouched(t)
      BY <1>6, <1>10, <2>1, <2>5, <3>1 DEF IInv, TypeOK, Untouched, Free
    <3>4. pc'[t] = after[t] /\ pc'[t] # "close"
      BY <2>3, <3>1 DEF IInv, TypeOK
    <3>5. Place(t)' = Place(t) /\ (HasPipe(t)' <=> HasPipe(t)) /\ Mine(t)' = Mine(t)
      BY <1>3, <2>5, <3>4 DEF Place, HasPipe, Mine
    <3>6. Keeps(t)' = Keeps(t)
      BY <2>5, <3>5 DEF Keeps
    <3>7. Ends(t)'
      BY <1>9, <2>5, <3>5 DEF IInv, TInv, Ends, Keeps, HasPipe
    <3>8. Accounts(t)' /\ Closing(t)'
      BY <1>4, <1>8, <2>2, <3>4, <3>6 DEF Accounts, Closing
    <3> QED
      BY <1>4, <1>5, <1>13, <2>2, <3>2, <3>3, <3>7, <3>8 DEF TInv
  <2> QED
    BY <1>12, <2>4, <2>5 DEF Close
<1> QED
  BY <1>11, <1>12

\* waitpid changes no descriptor.
LEMMA WaitStep ==
    ASSUME IInv, NEW t \in Threads, Wait(t)
    PROVE  TypeOK' /\ Untouched(t) /\ TInv(t)'
<1>1. /\ pc[t] = "wait" /\ Return(t) /\ UNCHANGED <<fds, children, ignored, todo, after, calls>>
      /\ alive' = ~Hardware
  BY DEF Wait, At
<1>2. alive' \in BOOLEAN
  BY <1>1 DEF IInv, TypeOK
<1>3. children' = {} /\ ignored' \in BOOLEAN
  BY <1>1 DEF IInv, TypeOK
<1>4. Keeps(t) = {}
  BY <1>1 DEF Keeps, HasPipe, Place
<1> QED
  BY <1>1, <1>2, <1>3, <1>4, ReturnStep

\* What waitpid answers changes no descriptor.
LEMMA ReapStep ==
    ASSUME IInv, NEW t \in Threads, Reap(t)
    PROVE  TypeOK' /\ Untouched(t) /\ TInv(t)'
<1>1. /\ pc[t] = "reap" /\ Return(t) /\ UNCHANGED <<fds, ignored, alive, todo, after, calls>>
      /\ children' = children \ {pid[t]}
  BY DEF Reap, At
<1>2. children' = {} /\ ignored' \in BOOLEAN /\ alive' \in BOOLEAN
  BY <1>1 DEF IInv, TypeOK
<1>3. Keeps(t) = {}
  BY <1>1 DEF Keeps, HasPipe, Place
<1> QED
  BY <1>1, <1>2, <1>3, ReturnStep

\* pclose closes the stream's descriptor next.
LEMMA PcloseStep ==
    ASSUME IInv, NEW t \in Threads, Pclose(t)
    PROVE  TypeOK' /\ Untouched(t) /\ TInv(t)'
<1> DEFINE m == Mine(t)
<1>1. /\ UNCHANGED <<fds, children, ignored, alive, op, p, q, pid, calls>> /\ pc[t] = "open"
      /\ todo' = [todo EXCEPT ![t] = <<m>>] /\ after' = [after EXCEPT ![t] = "reap"]
      /\ pc' = [pc EXCEPT ![t] = "close"]
  BY DEF Pclose, At, CloseThen, Goto
<1>2. Place(t) = "open" /\ todo[t] = <<>> /\ Queued(t) = {} /\ op[t] \in {"r", "w"}
  BY <1>1, QueuedIs DEF IInv, TInv, Ends, Place, Closing
<1>3. p[t] \in Fds \X Fds /\ m \in Fds /\ Keeps(t) = {m}
  BY <1>2 DEF IInv, TInv, Ends, Mine, Keeps, HasPipe
<1>4. TypeOK' /\ Untouched(t)
  BY <1>1, <1>3 DEF IInv, TypeOK, Labels, Untouched
<1>5. pc'[t] = "close" /\ after'[t] = "reap" /\ todo'[t] = <<m>>
  BY <1>1 DEF IInv, TypeOK
<1>6. Place(t)' = "reap" /\ ~HasPipe(t)' /\ Keeps(t)' = {} /\ Queued(t)' = {m}
  BY <1>5 DEF Place, HasPipe, Keeps, Queued
<1>7. Ends(t)'
  BY <1>6 DEF Ends
<1>8. Accounts(t)' /\ Queued(t)' \subseteq Owned(t)' \ Keeps(t)'
  BY <1>1, <1>2, <1>3, <1>6, SameFds
<1>9. Closing(t)'
  BY <1>5, <1>8 DEF Closing
<1> QED
  BY <1>4, <1>7, <1>8, <1>9 DEF TInv

\* Neither a write nor an ignored signal moves a descriptor.
LEMMA QuietStep ==
    ASSUME IInv, UNCHANGED <<fds, children, pc, op, p, q, todo, after, pid, calls>>,
           ignored' \in BOOLEAN, alive' \in BOOLEAN
    PROVE  IInv'
<1>1. TypeOK'
  BY DEF IInv, TypeOK
<1>2. ASSUME NEW t \in Threads PROVE TInv(t)'
  BY <1>1, Elsewhere DEF IInv
<1> QED
  BY <1>1, <1>2 DEF IInv

\* Whether popen writes is a truth value.
LEMMA WriteBoolean ==
    ASSUME NEW t \in Threads, Write(t)
    PROVE  alive' \in BOOLEAN
BY DEF Write

-----------------------------------------------------------------------------
\* The invariant holds at the start.
LEMMA Initially == Init => IInv
<1> SUFFICES ASSUME Init PROVE IInv
  OBVIOUS
<1>1. TypeOK
  <2>1. fds \in [Fds -> Entries]
    BY DEF Init, Entries
  <2>2. calls \in [Threads -> 0..MaxCalls] /\ pid \in [Threads -> {0, ClonePid}]
    BY SpawnAssumption DEF Init
  <2>3. pc \in [Threads -> Labels] /\ op \in [Threads -> {"none"} \cup Calls]
        /\ after \in [Threads -> {"idle", "spawn", "sync", "wait", "open", "reap"}]
    BY DEF Init, Labels
  <2>4. p \in [Threads -> {<<>>} \cup Fds \X Fds] /\ q \in [Threads -> {<<>>} \cup Fds \X Fds]
        /\ todo \in [Threads -> {<<>>} \cup {<<fd>> : fd \in Fds} \cup Fds \X Fds]
    BY DEF Init
  <2> QED
    BY <2>1, <2>2, <2>3, <2>4 DEF Init, TypeOK
<1>2. ASSUME NEW t \in Threads PROVE TInv(t)
  <2>1. Place(t) = "idle" /\ ~HasPipe(t) /\ Keeps(t) = {} /\ todo[t] = <<>> /\ Queued(t) = {} /\ pc[t] = "idle"
    BY QueuedIs DEF Init, Place, HasPipe, Keeps
  <2>2. Owned(t) = {}
    BY Owners DEF Init, Owned, Free, Base
  <2> QED
    BY <2>1, <2>2 DEF TInv, Ends, Closing, Accounts
<1> QED
  BY <1>1, <1>2 DEF IInv

\* Every step keeps the invariant.
LEMMA Inductive == IInv /\ [Next]_vars => IInv'
<1> SUFFICES ASSUME IInv, [Next]_vars PROVE IInv'
  OBVIOUS
<1>1. ASSUME NEW t \in Threads, NEW c \in Calls, Popen(t, c) PROVE IInv'
  BY <1>1, PopenStep, OwnStep
<1>2. ASSUME NEW t \in Threads, "system" \in Calls, System(t) PROVE IInv'
  BY <1>2, SystemStep, OwnStep
<1>3. ASSUME NEW t \in Threads, Write(t) PROVE IInv'
  <2>1. UNCHANGED <<fds, children, ignored, pc, op, p, q, todo, after, pid, calls>>
    BY <1>3 DEF Write
  <2>2. ignored' \in BOOLEAN
    BY <2>1 DEF IInv, TypeOK
  <2> QED
    BY <1>3, <2>1, <2>2, WriteBoolean, QuietStep
<1>4. ASSUME NEW t \in Threads, Pclose(t) PROVE IInv'
  BY <1>4, PcloseStep, OwnStep
<1>5. ASSUME NEW t \in Threads, Step(t) PROVE IInv'
  <2>1. TypeOK' /\ Untouched(t) /\ TInv(t)'
    BY <1>5, FdOpenStep, MoveStep, SpawnStep, CloneStep, SyncStep, CloseStep, WaitStep, ReapStep
       DEF Step
  <2> QED
    BY <2>1, OwnStep
<1>6. CASE IgnorePipe
  <2>1. UNCHANGED <<fds, children, alive, pc, op, p, q, todo, after, pid, calls>> /\ ignored' = TRUE
    BY <1>6 DEF IgnorePipe
  <2>2. alive' \in BOOLEAN
    BY <2>1 DEF IInv, TypeOK
  <2> QED
    BY <2>1, <2>2, QuietStep
<1>7. CASE UNCHANGED vars
  <2>1. ignored' \in BOOLEAN /\ alive' \in BOOLEAN
    BY <1>7 DEF IInv, TypeOK, vars
  <2> QED
    BY <1>7, <2>1, QuietStep DEF vars
<1> QED
  BY <1>1, <1>2, <1>3, <1>4, <1>5, <1>6, <1>7 DEF Next

\* So it holds in every state.
LEMMA InvariantAlways == Spec => []IInv
BY Initially, Inductive, PTL DEF Spec

\* The invariant says more about threads that are between two calls than what
\* is promised.
LEMMA IInvAccounts == IInv => DescriptorsAccounted
<1> SUFFICES ASSUME IInv, NEW t \in Threads
             PROVE  /\ pc[t] = "idle" => Owned(t) = {}
                    /\ pc[t] = "open" => /\ Owned(t) = {Mine(t)}
                                         /\ fds[Mine(t)] = End(t, "data", op[t])
  BY DEF DescriptorsAccounted
<1>1. CASE pc[t] \in {"idle", "open"}
  <2>1. todo[t] = <<>> /\ Queued(t) = {} /\ Place(t) = pc[t] /\ ~HasPipe(t)
    BY <1>1, QueuedIs DEF IInv, TInv, Closing, Place, HasPipe
  <2>2. Owned(t) = Keeps(t)
    BY <2>1 DEF IInv, TInv, Accounts
  <2> QED
    BY <1>1, <2>1, <2>2 DEF Keeps, IInv, TInv, Ends
<1> QED
  BY <1>1

\* A descriptor becomes free only as the next in some thread's queue.
LEMMA OnlyCloseFrees ==
    ASSUME IInv, [Next]_vars, NEW fd \in Fds, fds[fd] # Free, fds'[fd] = Free
    PROVE  \E t \in Threads : fds[fd].owner = t /\ todo'[t] # todo[t]
<1>1. fds' # fds
  OBVIOUS
<1>2. ASSUME NEW t \in Threads, NEW kind \in {"data", "sync"}, OpenPipe(t, kind) PROVE FALSE
  <2>1. PICK a, b \in Fds :
           /\ fds' = [fds EXCEPT ![a] = End(t, kind, "r"), ![b] = End(t, kind, "w")]
           /\ fds'[a] = End(t, kind, "r") /\ fds'[b] = End(t, kind, "w")
    BY <1>2, PipeOpened
  <2>2. fd \notin {a, b}
    BY <2>1, Owners DEF End, Free
  <2> QED
    BY <2>1, <2>2 DEF IInv, TypeOK
<1>3. ASSUME NEW t \in Threads, NEW c \in Calls, Popen(t, c) PROVE FALSE
  BY <1>1, <1>2, <1>3 DEF Popen
<1>4. ASSUME NEW t \in Threads, Spawn(t) PROVE FALSE
  BY <1>1, <1>2, <1>4 DEF Spawn
<1>5. ASSUME NEW t \in Threads, Move(t) PROVE FALSE
  <2>1. HasPipe(t)
    BY <1>5 DEF Move, At, HasPipe, Place, IInv, TInv, Ends
  <2>2. Other(t) \in Fds /\ fds[Other(t)] # Free
    <3>1. p[t] \in Fds \X Fds
          /\ fds[p[t][1]] = End(t, "data", "r") /\ fds[p[t][2]] = End(t, "data", "w")
      BY <2>1, PipeAt
    <3> QED
      BY <3>1, Owners DEF Other, Free, End
  <2>3. fds' = [fds EXCEPT ![Lowest(FreeFds)] = fds[Other(t)]]
    BY <1>1, <1>5 DEF Move
  <2> QED
    BY <2>2, <2>3 DEF IInv, TypeOK
<1>6. ASSUME NEW t \in Threads, Close(t) PROVE \E u \in Threads : fds[fd].owner = u /\ todo'[u] # todo[u]
  <2>1. Head(todo[t]) \in Owned(t) /\ todo'[t] # todo[t]
    BY <1>6, CloseStep
  <2>2. fds' = [fds EXCEPT ![Head(todo[t])] = Free]
    BY <1>6 DEF Close
  <2>3. fd = Head(todo[t])
    BY <2>2 DEF IInv, TypeOK
  <2> QED
    BY <2>1, <2>3 DEF Owned
<1> QED
  BY <1>1, <1>3, <1>4, <1>5, <1>6
     DEF Next, Step, FdOpen, Clone, Sync, Wait, Reap, System, Write, Pclose, IgnorePipe, vars

-----------------------------------------------------------------------------
\* For any number of threads, calls and descriptors the state keeps its types.
THEOREM TypeCorrect == Spec => []TypeOK
BY InvariantAlways, PTL DEF IInv

\* No exit of popen, posix_spawn, system or pclose leaves a descriptor behind,
\* and an open stream is the end of its own pipe, however many threads share
\* the table and whatever the host refuses.
THEOREM DescriptorsAccountedAlways == Spec => []DescriptorsAccounted
BY InvariantAlways, IInvAccounts, PTL

\* A descriptor is closed by the thread that owns it, and by no other that was
\* left with its number.
THEOREM ClosesOwnAlways == Spec => ClosesOwn
<1>1. IInv /\ [Next]_vars =>
        [\A fd \in Fds : (fds[fd] # Free /\ fds'[fd] = Free) =>
            \E t \in Threads : fds[fd].owner = t /\ todo'[t] # todo[t]]_vars
  BY OnlyCloseFrees
<1> QED
  BY <1>1, InvariantAlways, PTL DEF Spec, ClosesOwn
=============================================================================
