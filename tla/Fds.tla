-------------------------------- MODULE Fds --------------------------------
(***************************************************************************)
(* The descriptors of the processes over the two tables they point into,   *)
(* the open files of the VFS and the sockets.  alloc_process opens the     *)
(* console once for three descriptors; a system call makes the file or the *)
(* socket first and then looks for a descriptor, and takes it back when    *)
(* there is none.  Every call is one step: interrupts are off, and none of *)
(* these gives the CPU away between the table and the descriptor.          *)
(***************************************************************************)
EXTENDS Integers, FiniteSets

CONSTANTS
    FdProcs,        \* process structs
    FdNone,         \* -1, no descriptor or no process
    MAX_FILES,      \* VFS_MAX_OPEN
    MAX_SOCKS,      \* SOCK_MAX
    MAX_FD          \* VFS_MAX_FD

ASSUME FdsAssumption ==
    /\ MAX_FILES \in Nat \ {0} /\ MAX_SOCKS \in Nat \ {0} /\ MAX_FD \in Nat /\ MAX_FD >= 3
    /\ FdNone \notin [id : Nat, sock : BOOLEAN]
    /\ FdNone \notin [0..(MAX_FD - 1) -> {FdNone} \cup [id : Nat, sock : BOOLEAN]]

VARIABLES
    isOpen,     \* the indexes of g_files in use
    isSock,     \* the indexes of g_socks in use
    fds         \* process -> FdNone or its descriptors

fdsVars == <<isOpen, isSock, fds>>

FileIds == 1..MAX_FILES
SockIds == 1..MAX_SOCKS
Fds     == 0..(MAX_FD - 1)
Stdio   == 0..2

\* A descriptor holds an index and the flag PROC_FD_IS_SOCK looks at.
AFile(i) == [id |-> i, sock |-> FALSE]
ASock(i) == [id |-> i, sock |-> TRUE]

FdsInit ==
    /\ isOpen = {}
    /\ isSock = {}
    /\ fds = [p \in FdProcs |-> FdNone]

Least(S) == CHOOSE x \in S : \A y \in S : x <= y
FreeFds(p) == {i \in Fds : fds[p][i] = FdNone}

\* What alloc_process leaves in the descriptors of p: the console when it can be opened.
NewProcess(p) ==
    LET free == FileIds \ isOpen
    IN  /\ fds[p] = FdNone
        /\ \/ /\ free # {}
              /\ isOpen' = isOpen \cup {Least(free)}
              /\ fds' = [fds EXCEPT ![p] = [i \in Fds |-> IF i \in Stdio THEN AFile(Least(free)) ELSE FdNone]]
           \/ /\ fds' = [fds EXCEPT ![p] = [i \in Fds |-> FdNone]]
              /\ UNCHANGED isOpen
        /\ UNCHANGED isSock

\* do_open: the file goes again when there is no descriptor for it.
OpenFile(p) ==
    LET free == FileIds \ isOpen
    IN  /\ fds[p] # FdNone /\ free # {} /\ FreeFds(p) # {}
        /\ isOpen' = isOpen \cup {Least(free)}
        /\ fds' = [fds EXCEPT ![p][Least(FreeFds(p))] = AFile(Least(free))]
        /\ UNCHANGED isSock

\* SYS_SOCKET and do_accept, once there is a socket to give.
OpenSocket(p) ==
    LET free == SockIds \ isSock
    IN  /\ fds[p] # FdNone /\ free # {} /\ FreeFds(p) # {}
        /\ isSock' = isSock \cup {Least(free)}
        /\ fds' = [fds EXCEPT ![p][Least(FreeFds(p))] = ASock(Least(free))]
        /\ UNCHANGED isOpen

\* do_close leaves a file open that a standard descriptor names: three of them share the
\* console, which the end of the process closes.
ClosesAny(fd) == TRUE
ClosesFile(fd) == fd \notin Stdio

CloseFd(p, fd) ==
    /\ fds[p] # FdNone /\ fds[p][fd] # FdNone
    /\ IF fds[p][fd].sock
       THEN isSock' = isSock \ {fds[p][fd].id} /\ UNCHANGED isOpen
       ELSE /\ isOpen' = IF ClosesFile(fd) THEN isOpen \ {fds[p][fd].id} ELSE isOpen
            /\ UNCHANGED isSock
    /\ fds' = [fds EXCEPT ![p][fd] = FdNone]

\* process_release_fds, at exit, kill and when a zombie is taken back.
ReleaseFds(p) ==
    LET held == {fds[p][i] : i \in Fds} \ {FdNone}
    IN  /\ fds[p] # FdNone
        /\ isOpen' = isOpen \ {e.id : e \in {x \in held : ~x.sock}}
        /\ isSock' = isSock \ {e.id : e \in {x \in held : x.sock}}
        /\ fds' = [fds EXCEPT ![p] = FdNone]

FdsNext ==
    \E p \in FdProcs :
        \/ NewProcess(p)
        \/ OpenFile(p)
        \/ OpenSocket(p)
        \/ \E fd \in Fds : CloseFd(p, fd)
        \/ ReleaseFds(p)

FdsSpec == FdsInit /\ [][FdsNext]_fdsVars

\* A descriptor names a file or a socket that is open, and nobody else's: no descriptor of
\* another process and none of the same one names it too, but for the console that standard
\* input, output and error share.  Closing one of the three must not close it under the
\* other two, or the next process to open a file would get theirs (syscall.c:366-385,
\* process.c:176-191 and 390-395).
FdsSound ==
    \A p, q \in FdProcs : fds[p] # FdNone /\ fds[q] # FdNone =>
        \A i, j \in Fds : fds[p][i] # FdNone =>
            /\ fds[p][i].id \in (IF fds[p][i].sock THEN isSock ELSE isOpen)
            /\ fds[p][i] = fds[q][j] => p = q /\ (i = j \/ {i, j} \subseteq Stdio)

=============================================================================
