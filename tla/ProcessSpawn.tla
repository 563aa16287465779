---------------------------- MODULE ProcessSpawn ----------------------------
(***************************************************************************)
(* popen, pclose and system inside the enclave: the C library's code       *)
(* (src/musl-sgx/src/stdio/popen.c, pclose.c, process/system.c,            *)
(* posix_spawn.c), one system call per step, over the handlers of the      *)
(* system call shim, where enclave_clone answers with a constant and       *)
(* starts nothing, and over the host's table of descriptors.               *)
(*                                                                         *)
(* Several threads run in the enclave and share the table.  Each holds at  *)
(* most one stream.  pthread_sigmask and sigprocmask change nothing (the   *)
(* shim answers 0 for them) and are left out, as is fcntl(F_SETFD).        *)
(***************************************************************************)
EXTENDS Integers, Sequences, FiniteSets

CONSTANTS
    Threads,     \* the threads that enter the enclave
    Calls,       \* which calls they make: some of "r", "w", "system"
    Fds,         \* the descriptors the host may hand out: 0..n
    BaseFds,     \* those in use before the first call
    Hardware,    \* real SGX, not simulation
    MaxCalls     \* bound: calls of a thread

ASSUME SpawnAssumption ==
    /\ Calls \subseteq {"r", "w", "system"} /\ Hardware \in BOOLEAN
    /\ Fds \subseteq Nat /\ IsFiniteSet(Fds) /\ BaseFds \subseteq Fds /\ MaxCalls \in Nat
    /\ Threads \cap {"free", "base"} = {}

VARIABLES
    fds,        \* the host's table: what each descriptor is
    children,   \* the processes the host runs for the enclave
    ignored,    \* whether the program asked for SIGPIPE to be ignored
    alive,      \* whether the process still runs
    pc, op,     \* of each thread: where it is, and which call it makes
    p, q,       \* the pipe of popen, the pipe of posix_spawn: <<reader, writer>>
    todo,       \* descriptors to close next, in this order
    after,      \* where to go once they are closed
    pid,        \* f->pipe_pid
    calls       \* history: calls made

vars == <<fds, children, ignored, alive, pc, op, p, q, todo, after, pid, calls>>

Free == [owner |-> "free"]
Base == [owner |-> "base"]
\* One end of a pipe: whose, of which of the two pipes, which end.
End(t, kind, side) == [owner |-> t, kind |-> kind, side |-> side]

ClonePid == 23008          \* enclave_clone's answer

FreeFds == {fd \in Fds : fds[fd] = Free}
Lowest(S) == CHOOSE x \in S : \A y \in S : x <= y

\* pipe2, if the host agrees: the two lowest descriptors.
NextPair == <<Lowest(FreeFds), Lowest(FreeFds \ {Lowest(FreeFds)})>>
OpenPipe(t, kind) ==
    /\ Cardinality(FreeFds) >= 2
    /\ fds' = [fds EXCEPT ![NextPair[1]] = End(t, kind, "r"),
                          ![NextPair[2]] = End(t, kind, "w")]

\* The end the program keeps (p[op]) and the one meant for the child.
Mine(t)  == IF op[t] = "r" THEN p[t][1] ELSE p[t][2]
Other(t) == IF op[t] = "r" THEN p[t][2] ELSE p[t][1]
Final(t) == IF op[t] = "r" THEN 1 ELSE 0

Goto(t, label) == pc' = [pc EXCEPT ![t] = label]

\* Closes s one after the other, then goes on at label.
CloseThen(t, s, label) ==
    /\ todo' = [todo EXCEPT ![t] = s] /\ after' = [after EXCEPT ![t] = label]
    /\ Goto(t, "close")

\* A call returns; its locals are gone.
Return(t) ==
    /\ Goto(t, "idle")
    /\ op' = [op EXCEPT ![t] = "none"] /\ pid' = [pid EXCEPT ![t] = 0]
    /\ p' = [p EXCEPT ![t] = <<>>] /\ q' = [q EXCEPT ![t] = <<>>]

-----------------------------------------------------------------------------
Init ==
    /\ fds = [fd \in Fds |-> IF fd \in BaseFds THEN Base ELSE Free]
    /\ children = {} /\ ignored = FALSE /\ alive = TRUE
    /\ pc = [t \in Threads |-> "idle"] /\ op = [t \in Threads |-> "none"]
    /\ p = [t \in Threads |-> <<>>] /\ q = [t \in Threads |-> <<>>]
    /\ todo = [t \in Threads |-> <<>>] /\ after = [t \in Threads |-> "idle"]
    /\ pid = [t \in Threads |-> 0] /\ calls = [t \in Threads |-> 0]

\* At a label, in a process that still runs.
At(t, label) == alive /\ pc[t] = label

Begin(t) ==
    /\ At(t, "idle") /\ calls[t] < MaxCalls
    /\ calls' = [calls EXCEPT ![t] = @ + 1]

\* popen: its pipe.
Popen(t, c) ==
    /\ c # "system" /\ Begin(t)
    /\ \/ /\ OpenPipe(t, "data") /\ Goto(t, "fdopen")
          /\ p' = [p EXCEPT ![t] = NextPair] /\ op' = [op EXCEPT ![t] = c]
       \/ UNCHANGED <<fds, op, p, pc>>
    /\ UNCHANGED <<children, ignored, alive, q, todo, after, pid>>

\* fdopen succeeds, or finds no memory and both ends are closed.
FdOpen(t) ==
    /\ At(t, "fdopen")
    /\ \/ /\ Goto(t, IF Other(t) = Final(t) THEN "move" ELSE "spawn")
          /\ UNCHANGED <<todo, after>>
       \/ CloseThen(t, p[t], "idle")
    /\ UNCHANGED <<fds, children, ignored, alive, op, p, q, pid, calls>>

\* The child's end already has the child's number: F_DUPFD_CLOEXEC moves it.
Move(t) ==
    /\ At(t, "move")
    /\ \/ /\ FreeFds # {}
          /\ LET tmp == Lowest(FreeFds)
             IN  /\ fds' = [fds EXCEPT ![tmp] = fds[Other(t)]]
                 /\ p' = [p EXCEPT ![t] = IF op[t] = "r" THEN <<@[1], tmp>> ELSE <<tmp, @[2]>>]
          /\ CloseThen(t, <<Other(t)>>, "spawn")
       \/ /\ CloseThen(t, <<Mine(t), Other(t)>>, "idle")
          /\ UNCHANGED <<fds, p>>
    /\ UNCHANGED <<children, ignored, alive, op, q, pid, calls>>

\* system: straight to posix_spawn, without file actions.
System(t) ==
    /\ Begin(t) /\ Goto(t, "spawn")
    /\ op' = [op EXCEPT ![t] = "system"]
    /\ UNCHANGED <<fds, children, ignored, alive, p, q, todo, after, pid>>

\* popen forgets its stream when the child's end cannot be moved or the spawn
\* fails.
UndoKeepsStream(t) ==
    IF op[t] = "system" THEN Return(t) /\ UNCHANGED <<todo, after>>
    ELSE CloseThen(t, <<Other(t)>>, "idle") /\ UNCHANGED <<op, p, q, pid>>

\* What a failed spawn leaves: popen closes its stream and the other end.
Undo(t) ==
    IF op[t] = "system" THEN Return(t) /\ UNCHANGED <<todo, after>>
    ELSE CloseThen(t, <<Mine(t), Other(t)>>, "idle") /\ UNCHANGED <<op, p, q, pid>>

\* posix_spawn_file_actions_adddup2, then __posix_spawnx up to its pipe2: either
\* may fail.
Spawn(t) ==
    /\ At(t, "spawn")
    /\ \/ /\ OpenPipe(t, "sync") /\ q' = [q EXCEPT ![t] = NextPair] /\ Goto(t, "clone")
          /\ UNCHANGED <<todo, after, op, p, pid>>
       \/ Undo(t) /\ UNCHANGED fds
    /\ UNCHANGED <<children, ignored, alive, calls>>

\* The constant enclave_clone answers with is not the one to expect.
CloneNoAnswer(t) ==
    /\ At(t, "clone")
    /\ pid' = [pid EXCEPT ![t] = -1]
    /\ CloseThen(t, <<q[t][2]>>, "sync")
    /\ UNCHANGED <<fds, children, ignored, alive, op, p, q, calls>>

\* posix_spawn reads before it closes its writing end.
CloneKeepsWriter(t) ==
    /\ At(t, "clone")
    /\ pid' = [pid EXCEPT ![t] = ClonePid] /\ Goto(t, "sync")
    /\ UNCHANGED <<fds, children, ignored, alive, op, p, q, todo, after, calls>>

\* __clone is enclave_clone: no process, a constant for its number; the parent
\* closes its copy of the writing end.
Clone(t) ==
    /\ At(t, "clone")
    /\ pid' = [pid EXCEPT ![t] = ClonePid]
    /\ CloseThen(t, <<q[t][2]>>, "sync")
    /\ UNCHANGED <<fds, children, ignored, alive, op, p, q, calls>>

\* posix_spawn closes its reading end on two paths.
SyncClosesTwice(t) ==
    /\ At(t, "sync")
    /\ \A fd \in Fds : fds[fd] # End(t, "sync", "w")
    /\ IF op[t] = "system" THEN CloseThen(t, <<q[t][1], q[t][1]>>, "wait")
       ELSE CloseThen(t, <<q[t][1], Other(t)>>, "open")
    /\ UNCHANGED <<fds, children, ignored, alive, op, p, q, pid, calls>>

\* read(args.p[0]) returns when the last writing end is closed: end of file,
\* ec = 0.
Sync(t) ==
    /\ At(t, "sync")
    /\ \A fd \in Fds : fds[fd] # End(t, "sync", "w")
    /\ IF op[t] = "system" THEN CloseThen(t, <<q[t][1]>>, "wait")
       ELSE CloseThen(t, <<q[t][1], Other(t)>>, "open")
    /\ UNCHANGED <<fds, children, ignored, alive, op, p, q, pid, calls>>

\* One close.
Close(t) ==
    /\ At(t, "close")
    /\ fds' = [fds EXCEPT ![Head(todo[t])] = Free]
    /\ todo' = [todo EXCEPT ![t] = Tail(@)]
    /\ IF Len(todo[t]) = 1 /\ after[t] = "idle" THEN Return(t)
       ELSE /\ Goto(t, IF Len(todo[t]) = 1 THEN after[t] ELSE "close")
            /\ UNCHANGED <<op, p, q, pid>>
    /\ after' = [after EXCEPT ![t] = IF Len(todo[t]) = 1 THEN "idle" ELSE @]
    /\ UNCHANGED <<children, ignored, alive, calls>>

\* waitpid in system() is a cancellation point: syscall_cp knows no wait4 and
\* executes the instruction, which real SGX does not permit; in simulation there
\* is no child to wait for and status keeps its first value.
Wait(t) ==
    /\ At(t, "wait")
    /\ alive' = ~Hardware
    /\ Return(t)
    /\ UNCHANGED <<fds, children, ignored, todo, after, calls>>

\* The program writes to a stream of popen: with no reader left the host sends
\* SIGPIPE, whose disposition in the host never changes.
Write(t) ==
    /\ At(t, "open") /\ op[t] = "w"
    /\ alive' = \E fd \in Fds : fds[fd] = End(t, "data", "r")
    /\ UNCHANGED <<fds, children, ignored, pc, op, p, q, todo, after, pid, calls>>

\* signal(SIGPIPE, SIG_IGN): the shim answers 0 for rt_sigaction.
IgnorePipe ==
    /\ alive /\ ignored' = TRUE
    /\ UNCHANGED <<fds, children, alive, pc, op, p, q, todo, after, pid, calls>>

\* pclose: fclose, then wait4, which finds no such child.
Pclose(t) ==
    /\ At(t, "open") /\ CloseThen(t, <<Mine(t)>>, "reap")
    /\ UNCHANGED <<fds, children, ignored, alive, op, p, q, pid, calls>>

Reap(t) ==
    /\ At(t, "reap") /\ Return(t)
    /\ children' = children \ {pid[t]}
    /\ UNCHANGED <<fds, ignored, alive, todo, after, calls>>

Step(t) ==
    \/ FdOpen(t) \/ Move(t) \/ Spawn(t) \/ Clone(t) \/ Sync(t)
    \/ Close(t) \/ Wait(t) \/ Reap(t)

Next ==
    \/ \E t \in Threads :
          \/ \E c \in Calls : Popen(t, c)
          \/ "system" \in Calls /\ System(t)
          \/ Write(t) \/ Pclose(t) \/ Step(t)
    \/ IgnorePipe

\* A thread inside a call goes on.
Spec == Init /\ [][Next]_vars /\ \A t \in Threads : WF_vars(Step(t))

-----------------------------------------------------------------------------
Owned(t) == {fd \in Fds : fds[fd].owner = t}

Labels == {"idle", "fdopen", "move", "spawn", "clone", "sync", "close", "open", "wait", "reap"}

Entries == {Free, Base} \cup [owner : Threads, kind : {"data", "sync"}, side : {"r", "w"}]

TypeOK ==
    /\ fds \in [Fds -> Entries]
    /\ children = {} /\ ignored \in BOOLEAN /\ alive \in BOOLEAN
    /\ pc \in [Threads -> Labels] /\ op \in [Threads -> {"none"} \cup Calls]
    /\ p \in [Threads -> {<<>>} \cup Fds \X Fds] /\ q \in [Threads -> {<<>>} \cup Fds \X Fds]
    /\ todo \in [Threads -> {<<>>} \cup {<<fd>> : fd \in Fds} \cup Fds \X Fds]
    /\ after \in [Threads -> {"idle", "spawn", "sync", "wait", "open", "reap"}]
    /\ pid \in [Threads -> {0, ClonePid}] /\ calls \in [Threads -> 0..MaxCalls]

\* Between calls a thread owns the descriptor of its stream and no other,
\* whichever step of popen, posix_spawn or system failed on the way.
DescriptorsAccounted ==
    \A t \in Threads :
        /\ pc[t] = "idle" => Owned(t) = {}
        /\ pc[t] = "open" => /\ Owned(t) = {Mine(t)}
                             /\ fds[Mine(t)] = End(t, "data", op[t])

\* A thread closes descriptors it owns only: never one twice, when another
\* thread may have been given the number in the meantime.
ClosesOwn ==
    [][\A fd \in Fds : (fds[fd] # Free /\ fds'[fd] = Free) =>
          \E t \in Threads : fds[fd].owner = t /\ todo'[t] # todo[t]]_vars

\* Every call returns unless the process ends: posix_spawn's read never waits
\* for a child that was not started.
CallsReturn ==
    \A t \in Threads : pc[t] \notin {"idle", "open"} ~> (pc[t] \in {"idle", "open"} \/ ~alive)

\* "Starts program prog in a separated process" (Lua 5.3 manual, io.popen).
PopenStarts == \A t \in Threads : pc[t] = "open" => pid[t] \in children

\* os.execute passes the command to a shell and reports how it ended (Lua 5.3
\* manual): in any case it returns.
ExecuteReturns == alive

\* "instals a handler to ignore sigpipe or it will crash us" (usocket.c): once
\* installed, it does not.
SigpipeIgnored == [][(ignored /\ alive) => alive']_vars
=============================================================================
