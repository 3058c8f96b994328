------------------------- MODULE HvacDescriptorsProofs -------------------------
(***************************************************************************)
(* Proofs about the descriptors of a process, for any files, any number of *)
(* descriptors and of opens.                                               *)
(***************************************************************************)
EXTENDS HvacDescriptors, TLAPS

\* Remote descriptors are given out in order: one is not open, and has no
\* entry, before its open.
FreshInv ==
    /\ \A f \in RemoteFds : f > opens => remote[f] = NoEntry
    /\ \A fd \in Fds : fd_redir_map[fd] # NoEntry => fd_redir_map[fd] <= opens

\* fclose leaves entries behind, not the lack of one; and POSIX has a file
\* behind every number that is open.
NumberInv ==
    \A fd \in Fds :
        /\ fd \in left => fd_map[fd] # NoEntry
        /\ local[fd] # NoEntry => posix[fd] \in File

\* The inductive invariant.
DescriptorInv ==
    TypeOK /\ FreshInv /\ NumberInv /\ MapsAgree /\ OneFamilyIsRight /\ OnlyFcloseLeaks

-----------------------------------------------------------------------------
\* The constants, as single facts.
LEMMA Constants ==
    /\ MaxFd \in Nat /\ MaxOpens \in Nat /\ Counts \subseteq Nat
    /\ Size \in [Paths -> Nat]
    /\ NoEntry \notin Paths /\ NoEntry \notin Int
    /\ NoEntry \notin File /\ NoEntry \notin LocalFile
BY DescriptorAssumption

\* No number and no remote descriptor is NoEntry, and no descriptor is -1.
LEMMA NoEntryIsNoNumber ==
    /\ Fds \subseteq Nat \ {NoEntry}
    /\ RemoteFds \subseteq Nat \ {NoEntry}
    /\ BadFd \in Int /\ BadFd # NoEntry /\ BadFd \notin RemoteFds
BY Constants DEF Fds, RemoteFds, BadFd

\* What the maps say of a tracked number: operator[] finds its entry, which is
\* -1 for a file that the server has refused.
LEMMA TrackedNumber ==
    ASSUME DescriptorInv, NEW fd \in Fds, fd_map[fd] # NoEntry
    PROVE  /\ Redirected(fd) = fd_redir_map[fd]
           /\ fd_redir_map[fd] # NoEntry
           /\ fd_redir_map[fd] = BadFd \/ IsOpen(fd_redir_map[fd])
           /\ IsOpen(fd_redir_map[fd]) =>
                  /\ fd_redir_map[fd] \in RemoteFds
                  /\ remote[fd_redir_map[fd]] \in File
                  /\ remote[fd_redir_map[fd]].path = fd_map[fd]
                  /\ \A g \in Fds \ {fd} : fd_redir_map[g] # fd_redir_map[fd]
           /\ Remotely(fd) => UNCHANGED fd_redir_map
<1>1. fd_redir_map[fd] # NoEntry /\ Redirected(fd) = fd_redir_map[fd]
  BY DEF DescriptorInv, MapsAgree, Redirected
<1>2. /\ fd_redir_map[fd] = BadFd \/ IsOpen(fd_redir_map[fd])
      /\ IsOpen(fd_redir_map[fd]) =>
             /\ fd_redir_map[fd] \in RemoteFds
             /\ remote[fd_redir_map[fd]] \in File
             /\ remote[fd_redir_map[fd]].path = fd_map[fd]
             /\ \A g \in Fds \ {fd} : fd_redir_map[g] # fd_redir_map[fd]
  BY NoEntryIsNoNumber DEF DescriptorInv, MapsAgree, TypeOK, IsOpen
<1>3. Remotely(fd) => UNCHANGED fd_redir_map
  BY <1>1 DEF DescriptorInv, TypeOK, Remotely
<1> QED BY <1>1, <1>2, <1>3

\* An entry of fd_redir_map is a number, -1 included.
LEMMA RedirectionIsNumber ==
    ASSUME TypeOK, NEW fd \in Fds, fd_redir_map[fd] # NoEntry
    PROVE  fd_redir_map[fd] \in Int
<1>1. fd_redir_map[fd] \in RemoteFds \cup {BadFd}
  BY DEF TypeOK
<1>2. RemoteFds \subseteq Int
  BY NoEntryIsNoNumber
<1> QED BY <1>1, <1>2, NoEntryIsNoNumber

\* A read leaves the position a natural number.
LEMMA AfterType ==
    ASSUME NEW file, file.path \in Paths, file.pos \in Nat, NEW n \in Nat
    PROVE  After(file, n) \in Nat
<1>1. Size[file.path] \in Nat
  BY Constants
<1> QED BY <1>1 DEF After, Smaller

\* Two views of one file at one position move alike.
LEMMA AfterSame ==
    ASSUME NEW file1, NEW file2, NEW n,
           file1.path = file2.path, file1.pos = file2.pos
    PROVE  After(file1, n) = After(file2, n)
BY DEF After

LEMMA DescriptorInit == Init => DescriptorInv
<1> SUFFICES ASSUME Init PROVE DescriptorInv
  OBVIOUS
<1> USE DEF Init
<1>1. TypeOK
  <2>1. 0 \in 0..MaxOpens
    BY Constants
  <2> QED BY <2>1 DEF TypeOK
<1>2. FreshInv /\ NumberInv /\ MapsAgree /\ OneFamilyIsRight
  BY DEF FreshInv, NumberInv, MapsAgree, OneFamilyIsRight
<1>3. OnlyFcloseLeaks
  BY DEF OnlyFcloseLeaks, Orphans
<1> QED BY <1>1, <1>2, <1>3 DEF DescriptorInv

-----------------------------------------------------------------------------
(***************************************************************************)
(* Moves.  A call of one family moves one of the two positions and the one *)
(* that POSIX has; the invariant is kept if the two end alike whenever     *)
(* they began alike.                                                       *)
(***************************************************************************)
\* A call on the local descriptor, which may be tracked.
LEMMA MoveLocalStep ==
    ASSUME DescriptorInv, NEW fd \in Fds, local[fd] # NoEntry,
           NEW pos \in Nat, NEW posixPos \in Nat,
           MoveLocal(fd, pos), PosixMoves(fd, posixPos), Keeps,
           LocalSource(fd) = posix[fd] => pos = posixPos
    PROVE  DescriptorInv'
<1> USE DEF DescriptorInv, MoveLocal, PosixMoves, Marks, Keeps
<1>1. local[fd] \in LocalFile /\ posix[fd] \in File
  BY DEF TypeOK, NumberInv
<1>2. /\ local'[fd] = [local[fd] EXCEPT !.pos = pos]
      /\ posix'[fd] = [posix[fd] EXCEPT !.pos = posixPos]
      /\ moved'[fd] = moved[fd] \cup {"local"}
  BY DEF TypeOK
<1>3. \A g \in Fds \ {fd} : local'[g] = local[g] /\ posix'[g] = posix[g] /\ moved'[g] = moved[g]
  BY DEF TypeOK
<1>4. /\ local'[fd] \in LocalFile
      /\ posix'[fd] \in File
      /\ local'[fd] # NoEntry
      /\ local'[fd].path = local[fd].path
  BY <1>1, <1>2, Constants DEF LocalFile, File
<1>5. TypeOK'
  BY <1>2, <1>3, <1>4 DEF TypeOK
<1>6. FreshInv'
  BY DEF FreshInv
<1>7. NumberInv'
  BY <1>3, <1>4 DEF NumberInv
<1>8. MapsAgree'
  BY <1>3, <1>4 DEF MapsAgree, IsOpen
<1>9. OneFamilyIsRight'
  <2> SUFFICES ASSUME NEW g \in Fds \ left, local'[g] # NoEntry
               PROVE  /\ moved'[g] \subseteq {"remote"} /\ Readable(g)' /\ g \notin failed' =>
                             ReadSource(g)' = posix'[g]
                      /\ moved'[g] \subseteq {"local"} => LocalSource(g)' = posix'[g]
    BY DEF OneFamilyIsRight
  <2>1. CASE g # fd
    <3>1. /\ ReadSource(g)' = ReadSource(g)
          /\ LocalSource(g)' = LocalSource(g)
          /\ Readable(g)' = Readable(g)
      BY <1>3, <2>1 DEF ReadSource, LocalSource, Readable, Redirected, IsOpen
    <3> QED BY <1>3, <2>1, <3>1 DEF OneFamilyIsRight
  <2>2. CASE g = fd
    <3>1. ~(moved'[g] \subseteq {"remote"})
      BY <1>2, <2>2
    <3>2. SUFFICES ASSUME moved'[g] \subseteq {"local"} PROVE LocalSource(fd)' = posix'[fd]
      BY <2>2, <3>1
    <3>3. LocalSource(fd) = posix[fd]
      BY <1>2, <2>2, <3>2 DEF OneFamilyIsRight
    <3> QED BY <1>1, <1>2, <3>3 DEF LocalSource, LocalFile, File
  <2> QED BY <2>1, <2>2
<1>10. OnlyFcloseLeaks'
  BY DEF OnlyFcloseLeaks, Orphans
<1> QED BY <1>5, <1>6, <1>7, <1>8, <1>9, <1>10

\* POSIX moves its position, or gives an error for a file that is only written.
PosixMay(fd, pos) == PosixMoves(fd, pos) \/ (~Readable(fd) /\ UNCHANGED posix)

\* What a call of the remote family does to the view POSIX has of its number.
LEMMA PosixStep ==
    ASSUME DescriptorInv, NEW fd \in Fds, local[fd] # NoEntry, NEW posixPos \in Nat,
           Remotely(fd), PosixMay(fd, posixPos)
    PROVE  /\ posix' \in [Fds -> File \cup {None}]
           /\ moved' \in [Fds -> SUBSET {"local", "remote"}]
           /\ posix'[fd] \in File
           /\ Readable(fd) => posix'[fd] = [posix[fd] EXCEPT !.pos = posixPos]
           /\ moved'[fd] = moved[fd] \cup {"remote"}
           /\ \A g \in Fds \ {fd} : posix'[g] = posix[g] /\ moved'[g] = moved[g]
           /\ UNCHANGED local
<1> USE DEF DescriptorInv, Remotely, Marks
<1>1. posix[fd] \in File
  BY DEF NumberInv
<1>2. [posix[fd] EXCEPT !.pos = posixPos] \in File
  BY <1>1 DEF File
<1>3. /\ moved' \in [Fds -> SUBSET {"local", "remote"}]
      /\ moved'[fd] = moved[fd] \cup {"remote"}
      /\ \A g \in Fds \ {fd} : moved'[g] = moved[g]
  BY DEF TypeOK
<1>4. CASE PosixMoves(fd, posixPos)
  BY <1>2, <1>3, <1>4 DEF TypeOK, PosixMoves
<1>5. CASE ~Readable(fd) /\ UNCHANGED posix
  BY <1>1, <1>3, <1>5 DEF TypeOK
<1> QED BY <1>4, <1>5 DEF PosixMay

\* A call on the remote descriptor of a tracked number.
LEMMA MoveRemoteStep ==
    ASSUME DescriptorInv, NEW fd \in Fds, local[fd] # NoEntry, fd_map[fd] # NoEntry,
           IsOpen(Redirected(fd)), NEW pos \in Nat, NEW posixPos \in Nat,
           Remotely(fd), MoveRemote(fd, pos), PosixMay(fd, posixPos), Keeps,
           remote[Redirected(fd)] = posix[fd] => pos = posixPos
    PROVE  DescriptorInv'
<1> USE DEF DescriptorInv, MoveRemote, Keeps
<1> DEFINE f == fd_redir_map[fd]
<1>0. /\ posix' \in [Fds -> File \cup {None}]
      /\ moved' \in [Fds -> SUBSET {"local", "remote"}]
      /\ posix'[fd] \in File
      /\ Readable(fd) => posix'[fd] = [posix[fd] EXCEPT !.pos = posixPos]
      /\ moved'[fd] = moved[fd] \cup {"remote"}
      /\ \A g \in Fds \ {fd} : posix'[g] = posix[g] /\ moved'[g] = moved[g]
      /\ UNCHANGED <<local, fd_redir_map>>
  BY PosixStep, TrackedNumber
<1>1. /\ f \in RemoteFds
      /\ f = Redirected(fd)
      /\ remote[f] \in File
      /\ posix[fd] \in File
      /\ \A g \in Fds \ {fd} : fd_redir_map[g] # f
  BY TrackedNumber DEF NumberInv
<1>2. remote'[f] = [remote[f] EXCEPT !.pos = pos]
  BY <1>1 DEF TypeOK
<1>3. \A h \in RemoteFds \ {f} : remote'[h] = remote[h]
  BY <1>1 DEF TypeOK
<1>4. /\ remote'[f] \in File
      /\ remote'[f] # NoEntry
      /\ remote[f] # NoEntry
      /\ remote'[f].path = remote[f].path
  BY <1>1, <1>2, Constants DEF File
<1>5. TypeOK'
  BY <1>0, <1>1, <1>2, <1>4 DEF TypeOK
<1>6. FreshInv'
  BY <1>0, <1>1, <1>3, <1>4 DEF FreshInv
<1>7. NumberInv'
  BY <1>0 DEF NumberInv
<1> HIDE DEF f
<1>8. MapsAgree'
  <2>1. \A h : IsOpen(h)' = IsOpen(h)
    BY <1>3, <1>4 DEF IsOpen
  <2>2. \A h : IsOpen(h) => remote'[h].path = remote[h].path
    BY <1>3, <1>4 DEF IsOpen
  <2> QED BY <1>0, <2>1, <2>2 DEF MapsAgree
<1>9. OneFamilyIsRight'
  <2> SUFFICES ASSUME NEW g \in Fds \ left, local'[g] # NoEntry
               PROVE  /\ moved'[g] \subseteq {"remote"} /\ Readable(g)' /\ g \notin failed' =>
                             ReadSource(g)' = posix'[g]
                      /\ moved'[g] \subseteq {"local"} => LocalSource(g)' = posix'[g]
    BY DEF OneFamilyIsRight
  <2>1. CASE g # fd
    <3>1. /\ Redirected(g)' = Redirected(g)
          /\ fd_map[g] # NoEntry => Redirected(g) # f
      BY <1>0, <1>1, <2>1 DEF Redirected, MapsAgree
    <3>2. fd_map[g] # NoEntry =>
              /\ IsOpen(Redirected(g))' = IsOpen(Redirected(g))
              /\ IsOpen(Redirected(g)) => remote'[Redirected(g)] = remote[Redirected(g)]
      BY <1>3, <3>1 DEF IsOpen
    <3>3. ReadSource(g)' = ReadSource(g)
      BY <1>0, <3>1, <3>2 DEF ReadSource
    <3> QED BY <1>0, <2>1, <3>3 DEF OneFamilyIsRight, LocalSource, Readable
  <2>2. CASE g = fd
    <3>1. ~(moved'[g] \subseteq {"local"})
      BY <1>0, <2>2
    <3>2. SUFFICES ASSUME moved'[g] \subseteq {"remote"}, Readable(g)', g \notin failed'
                   PROVE  ReadSource(fd)' = posix'[fd]
      BY <2>2, <3>1
    <3>3. remote[f] = posix[fd]
      BY <1>0, <1>1, <2>2, <3>2 DEF OneFamilyIsRight, ReadSource, Readable
    <3>4. ReadSource(fd)' = remote'[f]
      BY <1>0, <1>1, <1>4 DEF ReadSource, Redirected, IsOpen
    <3>5. Readable(fd) /\ pos = posixPos
      BY <1>0, <1>1, <2>2, <3>2, <3>3 DEF Readable
    <3> QED BY <1>0, <1>1, <1>2, <3>3, <3>4, <3>5 DEF File
  <2> QED BY <2>1, <2>2
<1>10. OnlyFcloseLeaks'
  BY <1>0, <1>1, <1>3, <1>4 DEF OnlyFcloseLeaks, Orphans
<1> QED BY <1>5, <1>6, <1>7, <1>8, <1>9, <1>10

\* A call that fails on the server: nobody is told, and reads of the number are
\* excused from then on.
LEMMA RemoteFailsStep ==
    ASSUME DescriptorInv, NEW fd \in Fds, local[fd] # NoEntry, fd_map[fd] # NoEntry,
           NEW posixPos \in Nat, Remotely(fd), RemoteFails(fd), PosixMay(fd, posixPos), Keeps
    PROVE  DescriptorInv'
<1> USE DEF DescriptorInv, RemoteFails, Keeps
<1>0. /\ posix' \in [Fds -> File \cup {None}]
      /\ moved' \in [Fds -> SUBSET {"local", "remote"}]
      /\ posix'[fd] \in File
      /\ moved'[fd] = moved[fd] \cup {"remote"}
      /\ \A g \in Fds \ {fd} : posix'[g] = posix[g] /\ moved'[g] = moved[g]
      /\ UNCHANGED <<local, remote, fd_redir_map>>
  BY PosixStep, TrackedNumber
<1>1. TypeOK'
  BY <1>0 DEF TypeOK
<1>2. FreshInv' /\ OnlyFcloseLeaks'
  BY <1>0 DEF FreshInv, OnlyFcloseLeaks, Orphans
<1>3. NumberInv'
  BY <1>0 DEF NumberInv
<1>4. MapsAgree'
  BY <1>0 DEF MapsAgree, IsOpen
<1>5. OneFamilyIsRight'
  <2>1. ASSUME NEW g \in Fds
        PROVE  /\ ReadSource(g)' = ReadSource(g)
               /\ LocalSource(g)' = LocalSource(g)
               /\ Readable(g)' = Readable(g)
    BY <1>0 DEF ReadSource, LocalSource, Redirected, IsOpen, Readable
  <2>2. fd \in failed' /\ ~(moved'[fd] \subseteq {"local"})
    BY <1>0
  <2> QED BY <1>0, <2>1, <2>2 DEF OneFamilyIsRight
<1> QED BY <1>1, <1>2, <1>3, <1>4, <1>5

-----------------------------------------------------------------------------
\* read: the remote position of a tracked number, or the local one.
LEMMA ReadStep ==
    ASSUME DescriptorInv, NEW fd \in Fds, NEW n \in Counts, read(fd, n)
    PROVE  DescriptorInv'
<1>0. n \in Nat
  BY Constants
<1>1. local[fd] \in LocalFile /\ local[fd] # NoEntry /\ posix[fd] \in File
  BY DEF DescriptorInv, TypeOK, NumberInv, read
<1>2. After(posix[fd], n) \in Nat
  BY <1>0, <1>1, AfterType DEF File
<1>3. PosixMay(fd, After(posix[fd], n)) /\ Keeps
  BY DEF read, PosixMay
<1>4. CASE fd_map[fd] = NoEntry
  <2>1. After(local[fd], n) \in Nat
    BY <1>0, <1>1, AfterType DEF LocalFile
  <2>2. LocalSource(fd) = posix[fd] => After(local[fd], n) = After(posix[fd], n)
    <3> SUFFICES ASSUME LocalSource(fd) = posix[fd]
                 PROVE  After(local[fd], n) = After(posix[fd], n)
      OBVIOUS
    <3>1. local[fd].path = posix[fd].path /\ local[fd].pos = posix[fd].pos
      BY DEF LocalSource
    <3> QED BY <3>1, AfterSame
  <2>3. MoveLocal(fd, After(local[fd], n)) /\ PosixMoves(fd, After(posix[fd], n))
    BY <1>4 DEF read
  <2> QED BY <1>1, <1>2, <1>3, <2>1, <2>2, <2>3, MoveLocalStep
<1>5. CASE fd_map[fd] # NoEntry
  <2>1. Remotely(fd)
    BY <1>5 DEF read
  <2>2. CASE IsOpen(Redirected(fd)) /\ MoveRemote(fd, After(remote[Redirected(fd)], n))
    <3>1. remote[Redirected(fd)] \in File
      BY <1>5, <2>2, TrackedNumber
    <3>2. After(remote[Redirected(fd)], n) \in Nat
      BY <1>0, <3>1, AfterType DEF File
    <3> QED BY <1>1, <1>2, <1>3, <1>5, <2>1, <2>2, <3>2, MoveRemoteStep
  <2>3. CASE RemoteFails(fd)
    BY <1>1, <1>2, <1>3, <1>5, <2>1, <2>3, RemoteFailsStep
  <2> QED BY <1>5, <2>2, <2>3 DEF read
<1> QED BY <1>4, <1>5

\* read64, readv and the reads of a stream: the local position.
LEMMA ReadLocalStep ==
    ASSUME DescriptorInv, NEW fd \in Fds, NEW n \in Counts, read_local(fd, n)
    PROVE  DescriptorInv'
<1>0. n \in Nat
  BY Constants
<1>1. local[fd] \in LocalFile /\ local[fd] # NoEntry /\ posix[fd] \in File
  BY DEF DescriptorInv, TypeOK, NumberInv, read_local, Readable
<1>2. After(posix[fd], n) \in Nat /\ After(local[fd], n) \in Nat
  BY <1>0, <1>1, AfterType DEF File, LocalFile
<1>3. LocalSource(fd) = posix[fd] => After(local[fd], n) = After(posix[fd], n)
  <2> SUFFICES ASSUME LocalSource(fd) = posix[fd]
               PROVE  After(local[fd], n) = After(posix[fd], n)
    OBVIOUS
  <2>1. local[fd].path = posix[fd].path /\ local[fd].pos = posix[fd].pos
    BY DEF LocalSource
  <2> QED BY <2>1, AfterSame
<1> QED BY <1>1, <1>2, <1>3, MoveLocalStep DEF read_local

\* write: the local position, of a tracked file as well.
LEMMA WriteStep ==
    ASSUME DescriptorInv, NEW fd \in Fds, NEW n \in Counts, write(fd, n)
    PROVE  DescriptorInv'
<1>0. n \in Nat
  BY Constants
<1>1. local[fd] \in LocalFile /\ local[fd] # NoEntry /\ posix[fd] \in File
  BY DEF DescriptorInv, TypeOK, NumberInv, write
<1>2. local[fd].pos \in Nat /\ posix[fd].pos \in Nat
  BY <1>1 DEF LocalFile, File
<1>3. local[fd].pos + n \in Nat /\ posix[fd].pos + n \in Nat
  BY <1>0, <1>2
<1>4. LocalSource(fd) = posix[fd] => local[fd].pos + n = posix[fd].pos + n
  BY DEF LocalSource
<1> QED BY <1>1, <1>3, <1>4, MoveLocalStep DEF write

\* lseek and lseek64: the same descriptor as read.
LEMMA LseekStep ==
    ASSUME DescriptorInv, NEW fd \in Fds, local[fd] # NoEntry,
           NEW pos \in 0..Size[local[fd].path], lseek(fd, pos)
    PROVE  DescriptorInv'
<1>1. pos \in Nat
  <2>1. local[fd].path \in Paths
    BY DEF DescriptorInv, TypeOK, LocalFile
  <2> QED BY <2>1, Constants
<1>2. CASE fd_map[fd] = NoEntry
  BY <1>1, <1>2, MoveLocalStep DEF lseek
<1>3. CASE fd_map[fd] # NoEntry
  <2>1. Remotely(fd) /\ PosixMay(fd, pos) /\ Keeps
    BY <1>3 DEF lseek, PosixMay
  <2>2. CASE IsOpen(Redirected(fd))
    BY <1>1, <1>3, <2>1, <2>2, MoveRemoteStep DEF lseek
  <2>3. CASE ~IsOpen(Redirected(fd))
    BY <1>1, <1>3, <2>1, <2>3, RemoteFailsStep DEF lseek
  <2> QED BY <2>2, <2>3
<1> QED BY <1>2, <1>3

-----------------------------------------------------------------------------
(***************************************************************************)
(* Opens.  The number is free.  If fclose has left an entry there, a       *)
(* tracked file overwrites it and its remote descriptor is lost; an        *)
(* untracked one inherits it, and the number stays in left.                *)
(***************************************************************************)
\* open, open64, fopen, fopen64, of a file that is tracked: the server has
\* opened it, or has said -1.
LEMMA TrackedOpenStep ==
    ASSUME DescriptorInv, NEW fd \in Fds, NEW path \in Paths, NEW flags \in Flags,
           NEW stream \in BOOLEAN, RealOpen(path, flags, stream, fd), Tracks(path, fd),
           NEW ret \in RemoteFds \cup {BadFd}, RemoteOpen(path, ret), Refused(fd, ret),
           fd_redir_map' = [fd_redir_map EXCEPT ![fd] = ret]
    PROVE  DescriptorInv'
<1> USE DEF DescriptorInv, RealOpen, Tracks
<1> DEFINE file == [path |-> path, pos |-> 0]
           opened == [path |-> path, pos |-> 0, stream |-> stream, flags |-> flags]
<1>1. opens \in Nat /\ opens' = opens + 1 /\ opens' \in 0..MaxOpens
  BY Constants DEF TypeOK
<1>2. /\ local[fd] = NoEntry
      /\ fd \notin left => fd_map[fd] = NoEntry /\ fd_redir_map[fd] = NoEntry
  BY DEF Lowest, FreeFds, MapsAgree
<1>3. file \in File /\ file # NoEntry /\ opened \in LocalFile /\ opened # NoEntry
  <2>1. file \in File
    BY DEF File
  <2>2. opened \in LocalFile
    BY DEF LocalFile
  <2> QED BY <2>1, <2>2, Constants
<1>4. ret \in RemoteFds =>
          /\ ret = opens + 1
          /\ remote[ret] = NoEntry
          /\ \A g \in Fds : fd_redir_map[g] # ret
          /\ remote'[ret] = file
  <2> SUFFICES ASSUME ret \in RemoteFds
               PROVE  /\ ret = opens + 1
                      /\ remote[ret] = NoEntry
                      /\ \A g \in Fds : fd_redir_map[g] # ret
                      /\ remote'[ret] = file
    OBVIOUS
  <2>1. ret = opens + 1 /\ ret \in Nat /\ ret > opens
    BY <1>1, NoEntryIsNoNumber DEF RemoteOpen
  <2>2. remote[ret] = NoEntry /\ \A g \in Fds : fd_redir_map[g] # ret
    BY <1>1, <2>1, NoEntryIsNoNumber DEF FreshInv
  <2>3. remote'[ret] = file
    BY <2>1, NoEntryIsNoNumber DEF RemoteOpen, TypeOK
  <2> QED BY <2>1, <2>2, <2>3
<1>5. /\ \A h \in RemoteFds \ {ret} : remote'[h] = remote[h]
      /\ ret \notin RemoteFds => ret = BadFd /\ fd \in failed'
      /\ ret # NoEntry
      /\ ret \in Int /\ ret <= opens + 1
  BY <1>1, <1>4, NoEntryIsNoNumber DEF RemoteOpen, Refused, TypeOK, BadFd
<1>6. remote' \in [RemoteFds -> File \cup {NoEntry}]
  BY <1>3 DEF RemoteOpen, TypeOK
<1>7. /\ local'[fd] = opened
      /\ posix'[fd] = file
      /\ moved'[fd] = {}
      /\ fd_map'[fd] = path
      /\ fd_redir_map'[fd] = ret
      /\ path # NoEntry
  BY Constants DEF TypeOK
<1>8. \A g \in Fds \ {fd} :
          /\ local'[g] = local[g] /\ posix'[g] = posix[g] /\ moved'[g] = moved[g]
          /\ fd_map'[g] = fd_map[g] /\ fd_redir_map'[g] = fd_redir_map[g]
          /\ g \in failed' <=> g \in failed
          /\ g \in left' <=> g \in left
  BY DEF TypeOK, Refused
\* What was open stays so, and no other number is redirected to ret if it is.
<1>9. ASSUME NEW h
      PROVE  /\ IsOpen(h) => h # ret /\ IsOpen(h)' /\ remote'[h] = remote[h]
             /\ h # ret /\ IsOpen(h)' => IsOpen(h)
  BY <1>4, <1>5 DEF IsOpen
<1>10. TypeOK'
  <2>1. /\ local' \in [Fds -> LocalFile \cup {NoEntry}]
        /\ posix' \in [Fds -> File \cup {None}]
        /\ moved' \in [Fds -> SUBSET {"local", "remote"}]
    BY <1>3 DEF TypeOK
  <2>2. /\ fd_map' \in [Fds -> Paths \cup {NoEntry}]
        /\ fd_redir_map' \in [Fds -> RemoteFds \cup {BadFd, NoEntry}]
        /\ left' \subseteq Fds
        /\ failed' \subseteq Fds
    BY DEF TypeOK, Refused
  <2>3. lost' \subseteq RemoteFds
    <3>1. fd \in left => fd_redir_map[fd] \in RemoteFds \cup {BadFd}
      BY TrackedNumber DEF NumberInv, IsOpen
    <3> QED BY <3>1 DEF TypeOK
  <2> QED BY <1>1, <1>6, <2>1, <2>2, <2>3 DEF TypeOK
<1> HIDE DEF file, opened
<1>11. FreshInv'
  <2>1. ASSUME NEW h \in RemoteFds, h > opens' PROVE remote'[h] = NoEntry
    <3>1. h \in Nat /\ h > opens /\ h # ret
      BY <1>1, <1>4, <2>1, NoEntryIsNoNumber
    <3> QED BY <1>5, <3>1 DEF FreshInv
  <2>2. ASSUME NEW g \in Fds, fd_redir_map'[g] # NoEntry PROVE fd_redir_map'[g] <= opens'
    <3>1. CASE g = fd
      BY <1>1, <1>5, <1>7, <3>1
    <3>2. CASE g # fd
      <4>1. fd_redir_map[g] # NoEntry
        BY <1>8, <2>2, <3>2
      <4>2. fd_redir_map[g] \in Int /\ fd_redir_map[g] <= opens
        BY <4>1, RedirectionIsNumber DEF FreshInv
      <4> QED BY <1>1, <1>8, <3>2, <4>2
    <3> QED BY <3>1, <3>2
  <2> QED BY <2>1, <2>2 DEF FreshInv
<1>12. NumberInv'
  BY <1>3, <1>7, <1>8 DEF NumberInv
<1>13. MapsAgree'
  <2> SUFFICES ASSUME NEW g \in Fds
               PROVE  /\ (fd_map'[g] = NoEntry) = (fd_redir_map'[g] = NoEntry)
                      /\ fd_map'[g] # NoEntry =>
                            /\ \/ fd_redir_map'[g] = BadFd /\ g \in failed'
                               \/ /\ IsOpen(fd_redir_map[g])'
                                  /\ remote'[fd_redir_map'[g]].path = fd_map'[g]
                                  /\ \A h \in Fds \ {g} : fd_redir_map'[h] # fd_redir_map'[g]
                            /\ g \in left' \/ (local'[g] # NoEntry /\ local'[g].path = fd_map'[g])
    BY DEF MapsAgree, IsOpen
  <2>1. CASE g = fd
    <3>1. local'[g] # NoEntry /\ local'[g].path = fd_map'[g]
      BY <1>3, <1>7, <2>1 DEF opened
    <3>2. CASE ret \in RemoteFds
      <4>1. \A h \in Fds \ {fd} : fd_redir_map'[h] # ret
        BY <1>4, <1>8, <3>2
      <4>2. IsOpen(ret)' /\ remote'[ret].path = path
        BY <1>3, <1>4, <3>2 DEF IsOpen, file
      <4> QED BY <1>5, <1>7, <2>1, <3>1, <4>1, <4>2 DEF IsOpen
    <3>3. CASE ret \notin RemoteFds
      BY <1>5, <1>7, <2>1, <3>1, <3>3
    <3> QED BY <3>2, <3>3
  <2>2. CASE g # fd
    <3>1. (fd_map'[g] = NoEntry) = (fd_redir_map'[g] = NoEntry)
      BY <1>8, <2>2 DEF MapsAgree
    <3>2. SUFFICES ASSUME fd_map[g] # NoEntry
                   PROVE  /\ \/ fd_redir_map[g] = BadFd /\ g \in failed
                             \/ /\ IsOpen(fd_redir_map[g])'
                                /\ remote'[fd_redir_map[g]].path = fd_map[g]
                                /\ \A h \in Fds \ {g} : fd_redir_map'[h] # fd_redir_map[g]
                          /\ g \in left \/ (local[g] # NoEntry /\ local[g].path = fd_map[g])
      BY <1>8, <2>2, <3>1 DEF IsOpen
    <3>3. CASE IsOpen(fd_redir_map[g])
      <4>1. /\ fd_redir_map[g] # ret
            /\ IsOpen(fd_redir_map[g])'
            /\ remote'[fd_redir_map[g]] = remote[fd_redir_map[g]]
        BY <1>8, <1>9, <2>2, <3>3 DEF IsOpen
      <4>2. /\ remote[fd_redir_map[g]].path = fd_map[g]
            /\ \A h \in Fds \ {g} : fd_redir_map[h] # fd_redir_map[g]
        BY <3>2, <3>3, TrackedNumber
      <4>3. \A h \in Fds \ {g} : fd_redir_map'[h] # fd_redir_map[g]
        BY <1>7, <1>8, <4>1, <4>2
      <4> QED BY <3>2, <4>1, <4>2, <4>3 DEF MapsAgree
    <3>4. CASE ~IsOpen(fd_redir_map[g])
      BY <3>2, <3>4 DEF MapsAgree
    <3> QED BY <3>3, <3>4
  <2> QED BY <2>1, <2>2
<1>14. OneFamilyIsRight'
  <2> SUFFICES ASSUME NEW g \in Fds \ left', local'[g] # NoEntry
               PROVE  /\ moved'[g] \subseteq {"remote"} /\ Readable(g)' /\ g \notin failed' =>
                             ReadSource(g)' = posix'[g]
                      /\ moved'[g] \subseteq {"local"} => LocalSource(g)' = posix'[g]
    BY DEF OneFamilyIsRight
  <2>1. CASE g = fd
    <3>1. LocalSource(g)' = posix'[g]
      BY <1>7, <2>1 DEF LocalSource, opened, file
    <3>2. fd \notin failed' => ret \in RemoteFds
      BY <1>5
    <3>3. ret \in RemoteFds => ReadSource(fd)' = file
      BY <1>3, <1>4, <1>5, <1>7 DEF ReadSource, Redirected, IsOpen
    <3> QED BY <1>7, <2>1, <3>1, <3>2, <3>3
  <2>2. CASE g # fd
    <3>1. /\ Redirected(g)' = Redirected(g)
          /\ fd_map[g] # NoEntry => Redirected(g) = fd_redir_map[g]
      BY <1>8, <2>2, TrackedNumber DEF Redirected
    <3>2. fd_map[g] # NoEntry =>
              /\ IsOpen(Redirected(g))' = IsOpen(Redirected(g))
              /\ IsOpen(Redirected(g)) => remote'[Redirected(g)] = remote[Redirected(g)]
      BY <1>4, <1>5, <3>1 DEF IsOpen
    <3>3. /\ ReadSource(g)' = ReadSource(g)
          /\ LocalSource(g)' = LocalSource(g)
          /\ Readable(g)' = Readable(g)
      BY <1>8, <2>2, <3>1, <3>2 DEF ReadSource, LocalSource, Readable
    <3> QED BY <1>8, <2>2, <3>3 DEF OneFamilyIsRight
  <2> QED BY <2>1, <2>2
<1>15. OnlyFcloseLeaks'
  <2>1. ret \notin Orphans' /\ ret \notin lost'
    <3>1. ret \notin Orphans' /\ ret \notin Orphans
      BY <1>4, <1>7, NoEntryIsNoNumber DEF Orphans
    <3>2. ret \notin lost
      BY <3>1 DEF OnlyFcloseLeaks
    <3>3. ret # BadFd => ret # fd_redir_map[fd]
      BY <1>4
    <3> QED BY <3>1, <3>2, <3>3
  <2>2. ASSUME NEW h \in RemoteFds \ {ret}
        PROVE  h \in Orphans' <=> h \in Orphans \/ (fd \in left /\ h = fd_redir_map[fd])
    <3>1. remote'[h] = remote[h]
      BY <1>5
    <3>2. fd \in left /\ h = fd_redir_map[fd] =>
              remote[h] # NoEntry /\ \A g \in Fds \ {fd} : fd_redir_map[g] # h
      BY TrackedNumber, NoEntryIsNoNumber DEF NumberInv, IsOpen
    <3>3. fd \notin left => fd_redir_map[fd] # h
      BY <1>2, NoEntryIsNoNumber
    <3> QED BY <1>7, <1>8, <3>1, <3>2, <3>3 DEF Orphans
  <2>3. fd \in left => fd_redir_map[fd] \in RemoteFds \cup {BadFd}
    BY TrackedNumber DEF NumberInv, IsOpen
  <2>4. \A h : h \in lost' <=>
            h \in lost \/ (fd \in left /\ h = fd_redir_map[fd] /\ h # BadFd)
    OBVIOUS
  <2>5. \A h : h \in Orphans' <=> h \in lost'
    <3> TAKE h
    <3>1. CASE h \in RemoteFds \ {ret}
      BY <2>2, <2>4, <3>1, NoEntryIsNoNumber DEF OnlyFcloseLeaks
    <3>2. CASE h \notin RemoteFds \ {ret}
      BY <2>1, <1>10, <3>2 DEF Orphans, TypeOK
    <3> QED BY <3>1, <3>2
  <2>6. Orphans' = lost'
    BY <2>5
  <2> QED BY <2>6 DEF OnlyFcloseLeaks
<1> QED BY <1>10, <1>11, <1>12, <1>13, <1>14, <1>15

\* The same calls, of a file that is left to libc.
LEMMA UntrackedOpenStep ==
    ASSUME DescriptorInv, NEW fd \in Fds, NEW path \in Paths, NEW flags \in Flags,
           NEW stream \in BOOLEAN, RealOpen(path, flags, stream, fd),
           UNCHANGED <<fd_map, fd_redir_map, remote, failed, left, lost>>
    PROVE  DescriptorInv'
<1> USE DEF DescriptorInv, RealOpen
<1> DEFINE file == [path |-> path, pos |-> 0]
           opened == [path |-> path, pos |-> 0, stream |-> stream, flags |-> flags]
<1>1. opens \in Nat /\ opens' = opens + 1 /\ opens' \in 0..MaxOpens
  BY Constants DEF TypeOK
<1>2. local[fd] = NoEntry /\ (fd \notin left => fd_map[fd] = NoEntry)
  BY DEF Lowest, FreeFds, MapsAgree
<1>3. file \in File /\ opened \in LocalFile
  BY DEF File, LocalFile
<1>4. local'[fd] = opened /\ posix'[fd] = file /\ moved'[fd] = {}
  BY DEF TypeOK
<1>5. \A g \in Fds \ {fd} :
          local'[g] = local[g] /\ posix'[g] = posix[g] /\ moved'[g] = moved[g]
  BY DEF TypeOK
<1>6. TypeOK'
  BY <1>1, <1>3 DEF TypeOK
<1>7. FreshInv'
  <2>1. ASSUME NEW h \in RemoteFds, h > opens' PROVE remote'[h] = NoEntry
    <3>1. h \in Nat
      BY NoEntryIsNoNumber
    <3>2. h > opens
      BY <1>1, <2>1, <3>1
    <3> QED BY <3>2 DEF FreshInv
  <2>2. ASSUME NEW g \in Fds, fd_redir_map'[g] # NoEntry PROVE fd_redir_map'[g] <= opens'
    <3>1. fd_redir_map[g] \in Int /\ fd_redir_map[g] <= opens
      BY <2>2, RedirectionIsNumber DEF FreshInv
    <3> QED BY <1>1, <3>1
  <2> QED BY <2>1, <2>2 DEF FreshInv
<1>8. NumberInv'
  BY <1>3, <1>4, <1>5 DEF NumberInv
<1>9. MapsAgree'
  BY <1>2, <1>5 DEF MapsAgree, IsOpen
<1>10. OneFamilyIsRight'
  <2>1. ASSUME NEW g \in Fds \ {fd}
        PROVE  /\ ReadSource(g)' = ReadSource(g)
               /\ LocalSource(g)' = LocalSource(g)
               /\ Readable(g)' = Readable(g)
    BY <1>5 DEF ReadSource, LocalSource, Redirected, IsOpen, Readable
  <2>2. LocalSource(fd)' = posix'[fd]
    BY <1>4 DEF LocalSource
  <2>3. fd \notin left => ReadSource(fd)' = posix'[fd]
    BY <1>2, <1>4 DEF ReadSource
  <2> QED BY <1>5, <2>1, <2>2, <2>3 DEF OneFamilyIsRight
<1>11. OnlyFcloseLeaks'
  BY DEF OnlyFcloseLeaks, Orphans
<1> QED BY <1>6, <1>7, <1>8, <1>9, <1>10, <1>11

\* open and open64, with the flags of the caller, and fopen and fopen64, whose
\* files are always tracked as O_RDONLY.
LEMMA OpenStep ==
    ASSUME DescriptorInv, NEW fd \in Fds, NEW path \in Paths, NEW flags \in Flags,
           open(path, flags, fd) \/ fopen(path, flags, fd)
    PROVE  DescriptorInv'
<1> PICK stream \in BOOLEAN, how \in Flags :
        RealOpen(path, flags, stream, fd) /\ hvac_track_file(path, how, fd)
  BY DEF open, fopen, Flags
<1>1. CASE IsTracked(path, how)
  BY <1>1, TrackedOpenStep DEF hvac_track_file
<1>2. CASE ~IsTracked(path, how)
  BY <1>2, UntrackedOpenStep DEF hvac_track_file
<1> QED BY <1>1, <1>2

-----------------------------------------------------------------------------
(***************************************************************************)
(* Closes.                                                                 *)
(***************************************************************************)
\* close: a number with an entry gives its remote descriptor back, also when
\* the entry is that of an fclosed stream.
LEMMA CloseStep ==
    ASSUME DescriptorInv, NEW fd \in Fds, close(fd)
    PROVE  DescriptorInv'
<1> USE DEF DescriptorInv, close, Forget
<1>1. local'[fd] = NoEntry /\ posix'[fd] = None /\ moved'[fd] = {}
  BY DEF TypeOK
<1>2. \A g \in Fds \ {fd} :
          local'[g] = local[g] /\ posix'[g] = posix[g] /\ moved'[g] = moved[g]
  BY DEF TypeOK
<1>3. /\ local' \in [Fds -> LocalFile \cup {NoEntry}]
      /\ posix' \in [Fds -> File \cup {None}]
      /\ moved' \in [Fds -> SUBSET {"local", "remote"}]
      /\ UNCHANGED <<opens, lost>>
  BY DEF TypeOK
<1>4. CASE fd_map[fd] = NoEntry
  <2>0. UNCHANGED <<remote, fd_map, fd_redir_map, failed, left, opens, lost>>
    BY <1>4 DEF hvac_remove_fd
  <2>1. TypeOK'
    BY <1>3, <2>0 DEF TypeOK
  <2>2. FreshInv' /\ OnlyFcloseLeaks'
    BY <2>0 DEF FreshInv, OnlyFcloseLeaks, Orphans
  <2>3. NumberInv' /\ MapsAgree'
    BY <1>1, <1>2, <1>4, <2>0 DEF NumberInv, MapsAgree, IsOpen
  <2>4. OneFamilyIsRight'
    <3>1. ASSUME NEW g \in Fds \ {fd}
          PROVE  /\ ReadSource(g)' = ReadSource(g)
                 /\ LocalSource(g)' = LocalSource(g)
                 /\ Readable(g)' = Readable(g)
      BY <1>2, <2>0 DEF ReadSource, LocalSource, Redirected, IsOpen, Readable
    <3> QED BY <1>1, <1>2, <2>0, <3>1 DEF OneFamilyIsRight
  <2> QED BY <2>1, <2>2, <2>3, <2>4
<1>5. CASE fd_map[fd] # NoEntry
  <2> DEFINE f == fd_redir_map[fd]
  <2>1. /\ f = Redirected(fd) /\ f # NoEntry
        /\ f = BadFd \/ IsOpen(f)
        /\ IsOpen(f) => f \in RemoteFds /\ \A g \in Fds \ {fd} : fd_redir_map[g] # f
    BY <1>5, TrackedNumber
  <2>2. /\ remote' = IF IsOpen(f) THEN [remote EXCEPT ![f] = NoEntry] ELSE remote
        /\ Untracked(fd)
    BY <1>5, <2>1 DEF hvac_remove_fd
  <2>3. /\ remote' \in [RemoteFds -> File \cup {NoEntry}]
        /\ f \in RemoteFds => remote'[f] = NoEntry
        /\ \A h \in RemoteFds \ {f} : remote'[h] = remote[h]
    BY <2>1, <2>2, NoEntryIsNoNumber DEF TypeOK
  <2>4. /\ fd_map'[fd] = NoEntry /\ fd_redir_map'[fd] = NoEntry
        /\ \A g \in Fds \ {fd} : fd_map'[g] = fd_map[g] /\ fd_redir_map'[g] = fd_redir_map[g]
        /\ left' = left \ {fd}
        /\ failed' = failed \ {fd}
    BY <2>2 DEF TypeOK, Untracked
  <2>5. TypeOK'
    <3>1. /\ fd_map' \in [Fds -> Paths \cup {NoEntry}]
          /\ fd_redir_map' \in [Fds -> RemoteFds \cup {BadFd, NoEntry}]
      BY <2>2 DEF TypeOK, Untracked
    <3> QED BY <1>3, <2>3, <2>4, <3>1 DEF TypeOK
  <2> HIDE DEF f
  <2>6. FreshInv'
    BY <1>3, <2>3, <2>4 DEF FreshInv
  <2>7. NumberInv'
    BY <1>1, <1>2, <2>4 DEF NumberInv
  <2>8. ASSUME NEW g \in Fds \ {fd}
        PROVE  fd_map[g] # NoEntry /\ IsOpen(fd_redir_map[g]) =>
                   /\ fd_redir_map[g] \in RemoteFds \ {f}
                   /\ IsOpen(fd_redir_map[g])'
                   /\ remote'[fd_redir_map[g]] = remote[fd_redir_map[g]]
    <3> SUFFICES ASSUME fd_map[g] # NoEntry, IsOpen(fd_redir_map[g])
                 PROVE  /\ fd_redir_map[g] \in RemoteFds \ {f}
                        /\ IsOpen(fd_redir_map[g])'
                        /\ remote'[fd_redir_map[g]] = remote[fd_redir_map[g]]
      OBVIOUS
    <3>1. fd_redir_map[g] \in RemoteFds \ {f}
      BY TrackedNumber DEF f
    <3> QED BY <2>3, <2>4, <3>1 DEF IsOpen
  <2>9. MapsAgree'
    <3> SUFFICES ASSUME NEW g \in Fds
                 PROVE  /\ (fd_map'[g] = NoEntry) = (fd_redir_map'[g] = NoEntry)
                        /\ fd_map'[g] # NoEntry =>
                              /\ \/ fd_redir_map'[g] = BadFd /\ g \in failed'
                                 \/ /\ IsOpen(fd_redir_map[g])'
                                    /\ remote'[fd_redir_map'[g]].path = fd_map'[g]
                                    /\ \A h \in Fds \ {g} : fd_redir_map'[h] # fd_redir_map'[g]
                              /\ \/ g \in left'
                                 \/ local'[g] # NoEntry /\ local'[g].path = fd_map'[g]
      BY DEF MapsAgree, IsOpen
    <3>1. CASE g = fd
      BY <2>4, <3>1
    <3>2. CASE g # fd
      <4>1. (fd_map'[g] = NoEntry) = (fd_redir_map'[g] = NoEntry)
        BY <2>4, <3>2 DEF MapsAgree
      <4>2. fd_map[g] # NoEntry =>
                g \in left' \/ (local'[g] # NoEntry /\ local'[g].path = fd_map'[g])
        BY <1>2, <2>4, <3>2 DEF MapsAgree
      <4>3. CASE fd_map[g] # NoEntry /\ IsOpen(fd_redir_map[g])
        <5>1. /\ remote[fd_redir_map[g]].path = fd_map[g]
              /\ \A h \in Fds \ {g} : fd_redir_map[h] # fd_redir_map[g]
              /\ fd_redir_map[g] # NoEntry
          BY <4>3, TrackedNumber
        <5>2. \A h \in Fds \ {g} : fd_redir_map'[h] # fd_redir_map'[g]
          BY <2>4, <3>2, <5>1
        <5>3. IsOpen(fd_redir_map[g])' /\ remote'[fd_redir_map'[g]] = remote[fd_redir_map[g]]
          BY <2>4, <2>8, <3>2, <4>3 DEF IsOpen
        <5> QED BY <2>4, <3>2, <4>1, <4>2, <4>3, <5>1, <5>2, <5>3
      <4>4. CASE fd_map[g] # NoEntry /\ ~IsOpen(fd_redir_map[g])
        <5>1. fd_redir_map[g] = BadFd /\ g \in failed
          BY <4>4 DEF MapsAgree
        <5> QED BY <2>4, <3>2, <4>1, <4>2, <4>4, <5>1
      <4>5. CASE fd_map[g] = NoEntry
        BY <2>4, <3>2, <4>1, <4>5
      <4> QED BY <4>3, <4>4, <4>5
    <3> QED BY <3>1, <3>2
  <2>10. OneFamilyIsRight'
    <3>1. ASSUME NEW g \in Fds \ {fd}
          PROVE  /\ ReadSource(g)' = ReadSource(g)
                 /\ LocalSource(g)' = LocalSource(g)
                 /\ Readable(g)' = Readable(g)
      <4>1. LocalSource(g)' = LocalSource(g) /\ Readable(g)' = Readable(g)
        BY <1>2 DEF LocalSource, Readable
      <4>2. CASE fd_map[g] = NoEntry
        BY <1>2, <2>4, <4>1, <4>2 DEF ReadSource
      <4>3. CASE fd_map[g] # NoEntry
        <5>1. Redirected(g) = fd_redir_map[g] /\ Redirected(g)' = fd_redir_map[g]
          BY <2>4, <4>3, TrackedNumber DEF Redirected
        <5>2. IsOpen(Redirected(g))' = IsOpen(Redirected(g))
          <6>1. CASE IsOpen(fd_redir_map[g])
            BY <2>4, <2>8, <4>3, <5>1, <6>1 DEF IsOpen
          <6>2. CASE ~IsOpen(fd_redir_map[g])
            BY <2>3, <5>1, <6>2 DEF IsOpen
          <6> QED BY <6>1, <6>2
        <5>3. IsOpen(fd_redir_map[g]) => remote'[fd_redir_map[g]] = remote[fd_redir_map[g]]
          BY <2>8, <4>3
        <5> QED BY <2>4, <4>1, <4>3, <5>1, <5>2, <5>3 DEF ReadSource
      <4> QED BY <4>2, <4>3
    <3> QED BY <1>1, <1>2, <2>4, <3>1 DEF OneFamilyIsRight
  <2>11. OnlyFcloseLeaks'
    <3>1. f \notin Orphans /\ f \notin Orphans'
      BY <2>3 DEF Orphans, f
    <3>2. ASSUME NEW h \in RemoteFds \ {f} PROVE h \in Orphans' <=> h \in Orphans
      <4>1. fd_redir_map[fd] # h /\ fd_redir_map'[fd] # h
        BY <2>4, NoEntryIsNoNumber DEF f
      <4> QED BY <2>3, <2>4, <4>1 DEF Orphans
    <3>3. Orphans \subseteq RemoteFds /\ Orphans' \subseteq RemoteFds
      BY DEF Orphans
    <3>4. \A h : h \in Orphans' <=> h \in Orphans
      BY <3>1, <3>2, <3>3
    <3>5. Orphans' = Orphans
      BY <3>4
    <3> QED BY <1>3, <3>5 DEF OnlyFcloseLeaks
  <2> QED BY <2>5, <2>6, <2>7, <2>9, <2>10, <2>11
<1> QED BY <1>4, <1>5

\* fclose: no wrapper sees it, the entry stays and the number is in left.
LEMMA FcloseStep ==
    ASSUME DescriptorInv, NEW fd \in Fds, fclose(fd)
    PROVE  DescriptorInv'
<1> USE DEF DescriptorInv, fclose, Forget
<1>1. local'[fd] = NoEntry /\ posix'[fd] = None /\ moved'[fd] = {}
  BY DEF TypeOK
<1>2. \A g \in Fds \ {fd} :
          local'[g] = local[g] /\ posix'[g] = posix[g] /\ moved'[g] = moved[g]
  BY DEF TypeOK
<1>3. TypeOK'
  BY DEF TypeOK
<1>4. FreshInv' /\ OnlyFcloseLeaks'
  BY DEF FreshInv, OnlyFcloseLeaks, Orphans
<1>5. NumberInv' /\ MapsAgree'
  BY <1>1, <1>2 DEF NumberInv, MapsAgree, IsOpen
<1>6. OneFamilyIsRight'
  <2>1. ASSUME NEW g \in Fds \ {fd}
        PROVE  /\ ReadSource(g)' = ReadSource(g)
               /\ LocalSource(g)' = LocalSource(g)
               /\ Readable(g)' = Readable(g)
    BY <1>2 DEF ReadSource, LocalSource, Redirected, IsOpen, Readable
  <2> QED BY <1>1, <1>2, <2>1 DEF OneFamilyIsRight
<1> QED BY <1>3, <1>4, <1>5, <1>6

-----------------------------------------------------------------------------
\* DescriptorInv is an invariant: the first state, and one lemma per call.
LEMMA DescriptorInvariant == Spec => []DescriptorInv
<1>1. DescriptorInv /\ [Next]_vars => DescriptorInv'
  <2> SUFFICES ASSUME DescriptorInv, [Next]_vars PROVE DescriptorInv'
    OBVIOUS
  <2>1. CASE Next
    BY <2>1, OpenStep, CloseStep, FcloseStep, ReadStep, ReadLocalStep, WriteStep, LseekStep
    DEF Next
  <2>2. CASE UNCHANGED vars
    BY <2>2 DEF vars, DescriptorInv, TypeOK, FreshInv, NumberInv, MapsAgree, IsOpen,
                OneFamilyIsRight, ReadSource, LocalSource, Redirected, Readable,
                OnlyFcloseLeaks, Orphans
  <2> QED BY <2>1, <2>2
<1> QED BY <1>1, DescriptorInit, PTL DEF Spec

\* The two maps, the local and the remote open files keep their types over
\* all calls of the wrappers.
THEOREM TypeCorrect == Spec => []TypeOK
<1>1. DescriptorInv => TypeOK
  BY DEF DescriptorInv
<1> QED BY <1>1, DescriptorInvariant, PTL

\* fd_map and fd_redir_map have the same numbers, each with an open remote
\* descriptor of its own file that no other number has, or with -1 because the
\* server refused it, over every reuse of numbers; only fclose leaves entries
\* without an open file.
THEOREM TrackedNumbersAgree == Spec => []MapsAgree
<1>1. DescriptorInv => MapsAgree
  BY DEF DescriptorInv
<1> QED BY <1>1, DescriptorInvariant, PTL

\* An application that reads a descriptor with one family of calls gets what
\* POSIX promises, for all files, sizes and sequences of opens, closes, reads,
\* writes and seeks, on numbers that no fclosed stream has left behind and, for
\* read and lseek, on which no call has failed on the server.
THEOREM OneFamilyReadsLikePosix == Spec => []OneFamilyIsRight
<1>1. DescriptorInv => OneFamilyIsRight
  BY DEF DescriptorInv
<1> QED BY <1>1, DescriptorInvariant, PTL

\* The remote descriptors that no entry names any more are exactly those of
\* fclosed streams whose number was tracked again: close never leaks one.
THEOREM LeaksComeFromFclose == Spec => []OnlyFcloseLeaks
<1>1. DescriptorInv => OnlyFcloseLeaks
  BY DEF DescriptorInv
<1> QED BY <1>1, DescriptorInvariant, PTL
=============================================================================
