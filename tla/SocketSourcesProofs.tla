------------------------- MODULE SocketSourcesProofs -------------------------
(***************************************************************************)
(* The loop is never deaf and its write sources trap in one way only, for  *)
(* any set of descriptor numbers, any number of sockets and any sockets    *)
(* without an inode.  First what each operation on a pair of sources does, *)
(* then one step per action.                                               *)
(***************************************************************************)
EXTENDS SocketSources, TLAPS

USE SourcesAssumption

-----------------------------------------------------------------------------
(* Operations on a pair of sources.                                         *)

\* Resuming a suspended write source, and suspending an active one.
LEMMA ResumeSuspended ==
    ASSUME NEW p, PairOK(p), p.suspensions = 1
    PROVE  /\ ResumeWrite(p) \in Pairs
           /\ ResumeWrite(p) = [p EXCEPT !.suspensions = 0]
BY DEF PairOK, ResumeWrite, Pairs

LEMMA SuspendActive ==
    ASSUME NEW p, PairOK(p), p.suspensions = 0
    PROVE  /\ SuspendWrite(p) \in Pairs
           /\ SuspendWrite(p) = [p EXCEPT !.suspensions = 1]
BY DEF PairOK, SuspendWrite, Pairs

\* Releasing a pair whose write source is not suspended leaves an empty pair.
LEMMA ReleaseEmpty ==
    ASSUME NEW p \in Pairs, p.suspensions = 0, p.fault = "none"
    PROVE  /\ PairOK(Release(p))
           /\ Release(p).write = 0
           /\ Release(p).ino = 0
BY DEF PairOK, Release, Pairs

\* cancelSources leaves an empty pair, having resumed what had to be resumed.
LEMMA CancelSourcesEmpty ==
    ASSUME NEW p, PairOK(p)
    PROVE  /\ PairOK(CancelSources(p))
           /\ CancelSources(p).write = 0
           /\ CancelSources(p).ino = 0
<1>1. CASE p.write # 0 /\ p.flag = 1
  <2> DEFINE r == ResumeWrite(p)
  <2>1. p.suspensions = 1
    BY <1>1 DEF PairOK
  <2>2. r \in Pairs /\ r.suspensions = 0 /\ r.fault = "none"
    BY <2>1, ResumeSuspended DEF PairOK, Pairs
  <2>3. CancelSources(p) = Release([r EXCEPT !.flag = 0])
    BY <1>1 DEF CancelSources
  <2> HIDE DEF r
  <2>4. [r EXCEPT !.flag = 0] \in Pairs
    BY <2>2 DEF Pairs
  <2>5. [r EXCEPT !.flag = 0].suspensions = 0 /\ [r EXCEPT !.flag = 0].fault = "none"
    BY <2>2 DEF Pairs
  <2> QED BY <2>3, <2>4, <2>5, ReleaseEmpty
<1>2. CASE ~(p.write # 0 /\ p.flag = 1)
  <2>1. p \in Pairs /\ p.suspensions = 0 /\ p.fault = "none"
    BY <1>2 DEF PairOK, Pairs
  <2>2. CancelSources(p) = Release(p)
    BY <1>2 DEF CancelSources
  <2> QED BY <2>1, <2>2, ReleaseEmpty
<1> QED BY <1>1, <1>2

\* setupSources makes a pair for the given socket, its write source suspended.
LEMMA SetupSourcesFresh ==
    ASSUME NEW p, PairOK(p), NEW s \in Sockets, s.id # 0
    PROVE  /\ PairOK(SetupSources(p, s))
           /\ SetupSources(p, s).read = s.id
           /\ SetupSources(p, s).write = s.id
           /\ SetupSources(p, s).ino \in {0, s.id}
<1>1. CancelSources(p).fault = "none"
  BY CancelSourcesEmpty DEF PairOK
<1>2. SocketIno(s) \in {0, s.id} /\ SocketIno(s) \in 0 .. MaxSockets
  BY DEF SocketIno, Sockets
<1> QED BY <1>1, <1>2 DEF SetupSources, PairOK, Pairs, Sockets

\* cancelRpcExportsSources leaves an empty pair too.
LEMMA CancelRpcExportsSourcesEmpty ==
    ASSUME NEW p, PairOK(p)
    PROVE  /\ PairOK(CancelRpcExportsSources(p))
           /\ CancelRpcExportsSources(p).write = 0
           /\ CancelRpcExportsSources(p).ino = 0
<1> DEFINE q == IF p.write # 0 /\ p.flag = 1 THEN ResumeWrite(p) ELSE p
<1>1. q \in Pairs /\ q.suspensions = 0 /\ q.fault = "none"
  <2>1. CASE p.write # 0 /\ p.flag = 1
    <3>1. p.suspensions = 1
      BY <2>1 DEF PairOK
    <3> QED BY <2>1, <3>1, ResumeSuspended DEF PairOK, Pairs
  <2>2. CASE ~(p.write # 0 /\ p.flag = 1)
    BY <2>2 DEF PairOK, Pairs
  <2> QED BY <2>1, <2>2
<1>2. CancelRpcExportsSources(p) = [Release(q) EXCEPT !.flag = 1]
  BY DEF CancelRpcExportsSources
<1> HIDE DEF q
<1> DEFINE r == Release(q)
<1>3. PairOK(r) /\ r.write = 0 /\ r.ino = 0
  BY <1>1, ReleaseEmpty
<1> HIDE DEF r
<1>4. CancelRpcExportsSources(p) = [r EXCEPT !.flag = 1]
  BY <1>2 DEF r
<1> QED BY <1>3, <1>4 DEF PairOK, Pairs

\* setupRpcExportsSources makes a pair with an active write source.
LEMMA SetupRpcExportsSourcesFresh ==
    ASSUME NEW p, PairOK(p), NEW s \in Sockets, s.id # 0
    PROVE  /\ PairOK(SetupRpcExportsSources(p, s))
           /\ SetupRpcExportsSources(p, s).read = s.id
           /\ SetupRpcExportsSources(p, s).write = s.id
           /\ SetupRpcExportsSources(p, s).suspensions = 0
           /\ SetupRpcExportsSources(p, s).ino = 0
<1>1. CancelRpcExportsSources(p).fault = "none"
  BY CancelRpcExportsSourcesEmpty DEF PairOK
<1> QED BY <1>1 DEF SetupRpcExportsSources, PairOK, Pairs, Sockets

\* updateWriteSource brings the write source in line with libnfs's interest and
\* leaves everything else alone.
LEMMA UpdateWriteSourceServes ==
    ASSUME NEW p, PairOK(p), NEW wants \in BOOLEAN
    PROVE  /\ PairOK(UpdateWriteSource(p, wants))
           /\ UpdateWriteSource(p, wants).read = p.read
           /\ UpdateWriteSource(p, wants).write = p.write
           /\ UpdateWriteSource(p, wants).ino = p.ino
           /\ p.write # 0 => (UpdateWriteSource(p, wants).suspensions = 0 <=> wants)
<1>1. CASE p.write # 0 /\ wants /\ p.flag = 1
  <2> DEFINE r == ResumeWrite(p)
  <2>1. p.suspensions = 1
    BY <1>1 DEF PairOK
  <2>2. /\ r \in Pairs /\ r.suspensions = 0 /\ r.fault = "none"
        /\ r.read = p.read /\ r.write = p.write /\ r.ino = p.ino
    BY <2>1, ResumeSuspended DEF PairOK, Pairs
  <2>3. UpdateWriteSource(p, wants) = [r EXCEPT !.flag = 0]
    BY <1>1 DEF UpdateWriteSource
  <2> HIDE DEF r
  <2> QED BY <1>1, <2>2, <2>3 DEF PairOK, Pairs
<1>2. CASE p.write # 0 /\ ~wants /\ p.flag = 0
  <2> DEFINE r == SuspendWrite(p)
  <2>1. p.suspensions = 0
    BY <1>2 DEF PairOK
  <2>2. /\ r \in Pairs /\ r.suspensions = 1 /\ r.fault = "none"
        /\ r.read = p.read /\ r.write = p.write /\ r.ino = p.ino
    BY <2>1, SuspendActive DEF PairOK, Pairs
  <2>3. UpdateWriteSource(p, wants) = [r EXCEPT !.flag = 1]
    BY <1>2 DEF UpdateWriteSource, Pairs
  <2> HIDE DEF r
  <2> QED BY <1>2, <2>2, <2>3 DEF PairOK, Pairs
<1>3. CASE p.write = 0 \/ (wants /\ p.flag # 1) \/ (~wants /\ p.flag # 0)
  <2>1. UpdateWriteSource(p, wants) = p
    BY <1>3 DEF UpdateWriteSource
  <2> QED BY <1>3, <2>1 DEF PairOK, Pairs
<1> QED BY <1>1, <1>2, <1>3

-----------------------------------------------------------------------------
(* A pair and its socket after libnfs was serviced.                         *)

\* What servicing can make of a socket: it stays, or is closed, or is replaced
\* by one that was never seen before.
LEMMA ServicedSocket ==
    ASSUME TypeOK, NEW s \in Sockets, NEW other, s.id <= opened,
           s.id = 0 => s.fd = -1, s.id # 0 => s.fd \in Fds,
           NEW t \in Serviced(s, other), Opens(t)
    PROVE  /\ t \in Sockets
           /\ opened' \in 0 .. MaxSockets /\ opened <= opened' /\ t.id <= opened'
           /\ t.id = 0 => t.fd = -1
           /\ t.id # 0 => t.fd \in Fds
           /\ t = s \/ t.id = 0 \/ t.id = opened + 1
<1>1. CASE t = s
  BY <1>1 DEF Opens, Sockets, TypeOK
<1>2. CASE t = NoSocket
  BY <1>2 DEF Opens, Sockets, TypeOK, NoSocket
<1>3. CASE opened < MaxSockets /\ \E f \in Fds : t = [id |-> opened + 1, fd |-> f]
  BY <1>3 DEF Opens, Sockets, TypeOK
<1> QED BY <1>1, <1>2, <1>3 DEF Serviced

\* The interest libnfs reports is a Boolean.
LEMMA InterestBoolean ==
    ASSUME NEW s, NEW t, NEW w \in Interests(s, t)
    PROVE  w \in BOOLEAN
BY DEF Interests

\* Without a socket any well-formed pair will do.
LEMMA NoSocketPair ==
    ASSUME NEW q, PairOK(q), NEW t \in Sockets, t.id = 0, t.fd = -1,
           NEW w, NEW n \in Nat, q.ino <= n
    PROVE  PairInv(q, t, w, n)
BY DEF PairInv, SocketInv

\* A pair made for the socket serves it.
LEMMA FreshPair ==
    ASSUME NEW p, PairOK(p), NEW t \in Sockets, t.id # 0, t.fd \in Fds,
           NEW w \in BOOLEAN, NEW n \in Nat, t.id <= n
    PROVE  PairInv(UpdateWriteSource(SetupSources(p, t), w), t, w, n)
<1> DEFINE q == SetupSources(p, t)
<1>1. PairOK(q) /\ q.read = t.id /\ q.write = t.id /\ q.ino \in {0, t.id}
  BY SetupSourcesFresh
<1> HIDE DEF q
<1> DEFINE r == UpdateWriteSource(q, w)
<1>2. /\ PairOK(r) /\ r.read = t.id /\ r.write = t.id /\ r.ino = q.ino
      /\ r.suspensions = 0 <=> w
  BY <1>1, UpdateWriteSourceServes
<1> HIDE DEF r
<1>3. r.ino <= n
  BY <1>1, <1>2 DEF Sockets
<1>4. PairInv(r, t, w, n)
  BY <1>2, <1>3 DEF PairInv, SocketInv
<1> QED BY <1>4 DEF r, q

\* A pair that serves its socket does so after updateWriteSource too.
LEMMA KeptPair ==
    ASSUME NEW p, NEW s \in Sockets, NEW w, NEW n \in Nat, PairInv(p, s, w, n),
           NEW v \in BOOLEAN, NEW m \in Nat, n <= m
    PROVE  PairInv(UpdateWriteSource(p, v), s, v, m)
<1> DEFINE r == UpdateWriteSource(p, v)
<1>1. PairOK(p)
  BY DEF PairInv, SocketInv
<1>2. /\ PairOK(r) /\ r.read = p.read /\ r.write = p.write /\ r.ino = p.ino
      /\ p.write # 0 => (r.suspensions = 0 <=> v)
  BY <1>1, UpdateWriteSourceServes
<1> HIDE DEF r
<1>3. r.ino <= m /\ s.id <= m
  BY <1>1, <1>2 DEF PairInv, SocketInv, PairOK, Pairs, Sockets
<1>4. PairInv(r, s, v, m)
  BY <1>2, <1>3 DEF PairInv, SocketInv
<1> QED BY <1>4 DEF r

\* The heart of the argument: handleIOEvent's test finds every replaced socket.
\* A new socket that passed for the old one would have to show the recorded
\* inode, but that belongs to an earlier socket.
LEMMA ReplacedSocketNoticed ==
    ASSUME NEW p, NEW s \in Sockets, NEW w, NEW n \in Nat, PairInv(p, s, w, n),
           NEW t \in Sockets, t.id = n + 1, t.fd \in Fds
    PROVE  Changed(p, t)
<1>1. p.ino <= n /\ p.ino \in Nat
  BY DEF PairInv, SocketInv, PairOK, Pairs
<1>2. t.fd >= 0
  <2>1. t.fd \in Nat
    OBVIOUS
  <2> QED BY <2>1
<1>3. SocketIno(t) \in {0, n + 1}
  BY DEF SocketIno
<1>4. p.ino = 0 \/ SocketIno(t) # p.ino
  BY <1>1, <1>3
<1> QED BY <1>2, <1>4 DEF Changed

\* handleIOEvent leaves a pair that serves whatever socket libnfs now has.
LEMMA ServicedPair ==
    ASSUME NEW p, NEW s \in Sockets, NEW w, NEW n \in Nat, PairInv(p, s, w, n),
           NEW t \in Sockets, t = s \/ t.id = 0 \/ t.id = n + 1,
           t.id = 0 => t.fd = -1, t.id # 0 => t.fd \in Fds,
           NEW v \in BOOLEAN, NEW m \in Nat, n <= m, t.id <= m
    PROVE  PairInv(UpdateWriteSource(IF Changed(p, t) THEN SetupSources(p, t) ELSE p, v),
                   t, v, m)
<1>1. PairOK(p)
  BY DEF PairInv, SocketInv
<1>2. CASE t.id = 0
  <2>1. ~Changed(p, t)
    BY <1>2 DEF Changed
  <2> DEFINE r == UpdateWriteSource(p, v)
  <2>2. PairOK(r) /\ r.ino = p.ino
    BY <1>1, UpdateWriteSourceServes
  <2>3. r.ino <= m
    BY <1>1, <2>2 DEF PairInv, SocketInv, PairOK, Pairs
  <2> HIDE DEF r
  <2>4. PairInv(r, t, v, m)
    BY <1>2, <2>2, <2>3, NoSocketPair
  <2> QED BY <2>1, <2>4 DEF r
<1>3. CASE t.id # 0 /\ Changed(p, t)
  BY <1>1, <1>3, FreshPair
<1>4. CASE t.id # 0 /\ ~Changed(p, t)
  <2>1. t = s
    BY <1>4, ReplacedSocketNoticed
  <2> QED BY <1>4, <2>1, KeptPair
<1> QED BY <1>2, <1>3, <1>4

\* The export query's pair, made anew after every service.
LEMMA ServicedExportsPair ==
    ASSUME NEW p, PairOK(p), NEW t \in Sockets,
           t.id = 0 => t.fd = -1, t.id # 0 => t.fd \in Fds,
           NEW v \in BOOLEAN, NEW m \in Nat, t.id <= m, p.ino <= m
    PROVE  QueryInv(UpdateWriteSource(IF t.fd >= 0 THEN SetupRpcExportsSources(p, t) ELSE p, v),
                    t, v, TRUE, m)
<1> DEFINE q == IF t.fd >= 0 THEN SetupRpcExportsSources(p, t) ELSE p
<1>1. /\ PairOK(q) /\ q.ino <= m
      /\ t.id # 0 => q.read = t.id /\ q.write = t.id
  <2>1. CASE t.id = 0
    <3>1. ~(t.fd >= 0)
      BY <2>1
    <3> QED BY <2>1, <3>1
  <2>2. CASE t.id # 0
    <3>1. t.fd \in Nat
      BY <2>2
    <3>2. t.fd >= 0
      BY <3>1
    <3>3. q = SetupRpcExportsSources(p, t)
      BY <3>2
    <3> HIDE DEF q
    <3>4. PairOK(q) /\ q.read = t.id /\ q.write = t.id /\ q.ino = 0
      BY <2>2, <3>3, SetupRpcExportsSourcesFresh
    <3> QED BY <3>4
  <2> QED BY <2>1, <2>2
<1> HIDE DEF q
<1> DEFINE r == UpdateWriteSource(q, v)
<1>2. /\ PairOK(r) /\ r.read = q.read /\ r.write = q.write /\ r.ino = q.ino
      /\ q.write # 0 => (r.suspensions = 0 <=> v)
  BY <1>1, UpdateWriteSourceServes
<1> HIDE DEF r
<1>3. QueryInv(r, t, v, TRUE, m)
  BY <1>1, <1>2 DEF QueryInv, PairInv, SocketInv, Sockets
<1> QED BY <1>3 DEF q, r

-----------------------------------------------------------------------------
(* The actions.                                                             *)

\* A pair nothing happens to keeps its invariant when more sockets are opened.
LEMMA UntouchedPair ==
    ASSUME NEW p, NEW s \in Sockets, NEW w, NEW n \in Nat, PairInv(p, s, w, n),
           NEW m \in Nat, n <= m
    PROVE  PairInv(p, s, w, m)
<1>1. p.ino \in Nat /\ s.id \in Nat
  BY DEF PairInv, SocketInv, PairOK, Pairs, Sockets
<1> QED BY <1>1 DEF PairInv, SocketInv

\* The same for an export query.
LEMMA UntouchedQuery ==
    ASSUME NEW p, NEW s \in Sockets, NEW w, NEW g, NEW n \in Nat, QueryInv(p, s, w, g, n),
           NEW m \in Nat, n <= m
    PROVE  QueryInv(p, s, w, g, m)
BY UntouchedPair DEF QueryInv

\* A torn down pair.
LEMMA TornDownPair ==
    ASSUME NEW q, PairOK(q), q.ino = 0, NEW w, NEW n \in Nat
    PROVE  PairInv(q, NoSocket, w, n)
<1>1. NoSocket \in Sockets /\ NoSocket.id = 0 /\ NoSocket.fd = -1
  BY DEF NoSocket, Sockets
<1>2. q.ino <= n
  OBVIOUS
<1> QED BY <1>1, <1>2, NoSocketPair

\* What the invariant of a pair says by itself.
LEMMA PairInvOK ==
    ASSUME NEW p, NEW s, NEW w, NEW n, PairInv(p, s, w, n)
    PROVE  /\ PairOK(p) /\ p \in Pairs /\ p.ino <= n /\ s.id <= n
           /\ s.id = 0 => s.fd = -1
           /\ s.id # 0 => s.fd \in Fds
BY DEF PairInv, SocketInv, PairOK

\* What holds of a pair and its socket whether or not the pair serves it.
LEMMA SocketInvOK ==
    ASSUME NEW p, NEW s, NEW n, SocketInv(p, s, n)
    PROVE  /\ PairOK(p) /\ p \in Pairs /\ p.ino <= n /\ s.id <= n
           /\ s.id = 0 => s.fd = -1
           /\ s.id # 0 => s.fd \in Fds
BY DEF SocketInv, PairOK

\* A pair that serves its socket satisfies the weaker invariant.
LEMMA PairInvSocketInv ==
    ASSUME NEW p, NEW s, NEW w, NEW n, PairInv(p, s, w, n)
    PROVE  SocketInv(p, s, n)
BY DEF PairInv

\* The weaker invariant when more sockets are opened.
LEMMA UntouchedSocket ==
    ASSUME NEW p, NEW s \in Sockets, NEW n \in Nat, SocketInv(p, s, n),
           NEW m \in Nat, n <= m
    PROVE  SocketInv(p, s, m)
<1>1. p.ino \in Nat /\ s.id \in Nat
  BY DEF SocketInv, PairOK, Pairs, Sockets
<1> QED BY <1>1 DEF SocketInv

\* A source only fires for the socket in use: the pair that hears of it serves
\* it, up to the interest in writing.
LEMMA FiringPair ==
    ASSUME NEW p, NEW s \in Sockets, NEW n, SocketInv(p, s, n), Fires(p, s)
    PROVE  PairInv(p, s, p.suspensions = 0, n)
<1>1. p.read = s.id /\ p.write = s.id
  BY DEF Fires, SocketInv, PairOK
<1> QED BY <1>1 DEF PairInv

\* The initial state satisfies the invariant.
LEMMA InvInit == Init => Inv
<1> SUFFICES ASSUME Init PROVE Inv
  OBVIOUS
<1>1. NewSources \in Pairs
  BY DEF NewSources, Pairs
<1>2. PairOK(NewSources) /\ NewSources.ino = 0
  BY <1>1 DEF NewSources, PairOK
<1>3. /\ sources = NewSources /\ exSources = NewSources /\ opened \in Nat
      /\ socket = NoSocket /\ exSocket = NoSocket
  BY DEF Init
<1>4. /\ PairInv(sources, socket, wantsWrite, opened)
      /\ PairInv(exSources, exSocket, exWantsWrite, opened)
  BY <1>2, <1>3, TornDownPair
<1>10. QueryInv(exSources, exSocket, exWantsWrite, exportsCtx, opened)
  BY <1>3, <1>4 DEF QueryInv, NewSources
<1>5. NoSocket \in Sockets
  BY DEF NoSocket, Sockets
<1>6. opened \in 0 .. MaxSockets /\ unseen \in {0, 1}
  BY DEF Init
<1>7. context \in BOOLEAN /\ wantsWrite \in BOOLEAN
  BY DEF Init
<1>8. exportsCtx \in BOOLEAN /\ exWantsWrite \in BOOLEAN
  BY DEF Init
<1>9. SocketInv(sources, socket, opened)
  BY <1>4, PairInvSocketInv
<1>11. context /\ freed = FALSE
  BY DEF Init
<1> QED BY <1>1, <1>3, <1>4, <1>5, <1>6, <1>7, <1>8, <1>9, <1>10, <1>11 DEF Inv, TypeOK

\* While there is a context the loop is alive, and so is its export query.
LEMMA ContextAlive ==
    ASSUME Inv, context
    PROVE  ~freed /\ QueryInv(exSources, exSocket, exWantsWrite, exportsCtx, opened)
BY DEF Inv

\* Mount preserves the invariant.
LEMMA MountStep == Inv /\ Mount => Inv'
<1> SUFFICES ASSUME Inv, Mount PROVE Inv'
  OBVIOUS
<1>1. PICK t \in Serviced(socket, exSocket) : \E w \in Interests(socket, t) :
          /\ socket' = t
          /\ wantsWrite' = w
          /\ sources' = IF t.fd >= 0 THEN UpdateWriteSource(SetupSources(sources, t), w)
                        ELSE sources
          /\ Opens(t)
  BY DEF Mount
<1>2. /\ wantsWrite' \in BOOLEAN
      /\ sources' = IF t.fd >= 0 THEN UpdateWriteSource(SetupSources(sources, t), wantsWrite')
                    ELSE sources
      /\ socket' = t /\ Opens(t)
  BY <1>1, InterestBoolean
<1>3. /\ TypeOK /\ opened \in Nat /\ socket \in Sockets
      /\ SocketInv(sources, socket, opened)
      /\ ~freed /\ QueryInv(exSources, exSocket, exWantsWrite, exportsCtx, opened)
      /\ exSocket \in Sockets
  BY ContextAlive DEF Inv, TypeOK, Mount
<1>4. /\ PairOK(sources) /\ sources.ino <= opened /\ socket.id <= opened
      /\ socket.id = 0 => socket.fd = -1
      /\ socket.id # 0 => socket.fd \in Fds
  BY <1>3, SocketInvOK
<1>5. /\ t \in Sockets
      /\ opened' \in 0 .. MaxSockets /\ opened <= opened' /\ t.id <= opened'
      /\ t.id = 0 => t.fd = -1
      /\ t.id # 0 => t.fd \in Fds
  BY <1>2, <1>3, <1>4, ServicedSocket
<1>6. opened' \in Nat
  BY <1>5
<1>7. PairInv(sources', t, wantsWrite', opened')
  <2>1. CASE t.id = 0
    <3>1. sources' = sources
      BY <1>2, <1>5, <2>1
    <3>2. sources.ino <= opened'
      BY <1>3, <1>4, <1>5, <1>6 DEF PairOK, Pairs
    <3> QED BY <1>4, <1>5, <1>6, <2>1, <3>1, <3>2, NoSocketPair
  <2>2. CASE t.id # 0
    <3>1. t.fd \in Nat
      BY <1>5, <2>2
    <3>2. sources' = UpdateWriteSource(SetupSources(sources, t), wantsWrite')
      BY <1>2, <3>1
    <3> QED BY <1>2, <1>4, <1>5, <1>6, <2>2, <3>2, FreshPair
  <2> QED BY <2>1, <2>2
<1>8. QueryInv(exSources, exSocket, exWantsWrite, exportsCtx, opened')
  BY <1>3, <1>5, <1>6, UntouchedQuery
<1>9. sources' \in Pairs /\ SocketInv(sources', t, opened')
  BY <1>7, PairInvOK, PairInvSocketInv
<1> QED BY <1>2, <1>3, <1>5, <1>7, <1>8, <1>9 DEF Inv, TypeOK, Mount, exportsVars

\* Handing a request to libnfs keeps what holds of the NFS context's pair.
LEMMA IssuedPair ==
    ASSUME Inv, Issue, opened' = opened
    PROVE  /\ wantsWrite' \in BOOLEAN /\ sources' \in Pairs /\ socket' = socket
           /\ unseen' = unseen
           /\ SocketInv(sources', socket', opened')
           /\ unseen' = 0 => PairInv(sources', socket', wantsWrite', opened')
<1>1. /\ opened \in Nat /\ socket \in Sockets /\ SocketInv(sources, socket, opened)
      /\ wantsWrite \in BOOLEAN
  BY DEF Inv, TypeOK
<1>2. /\ wantsWrite' \in BOOLEAN /\ sources' = UpdateWriteSource(sources, wantsWrite')
      /\ socket' = socket /\ unseen' = unseen
  BY <1>1 DEF Issue
<1>3. PairOK(sources') /\ sources'.ino = sources.ino
  BY <1>1, <1>2, SocketInvOK, UpdateWriteSourceServes
<1>4. SocketInv(sources', socket', opened')
  BY <1>1, <1>2, <1>3 DEF SocketInv
<1>5. unseen' = 0 => PairInv(sources', socket', wantsWrite', opened')
  <2> SUFFICES ASSUME unseen = 0 PROVE PairInv(sources', socket', wantsWrite', opened')
    BY <1>2
  <2>1. PairInv(sources, socket, wantsWrite, opened)
    BY DEF Inv
  <2> QED BY <1>1, <1>2, <2>1, KeptPair
<1> QED BY <1>2, <1>4, <1>5, SocketInvOK

\* IssueRequest preserves the invariant.
LEMMA IssueRequestStep == Inv /\ IssueRequest => Inv'
<1> SUFFICES ASSUME Inv, IssueRequest PROVE Inv'
  OBVIOUS
<1>1. /\ context /\ Issue /\ opened' = opened
      /\ ~freed /\ QueryInv(exSources, exSocket, exWantsWrite, exportsCtx, opened)
  BY ContextAlive DEF IssueRequest, Issue
<1> QED BY <1>1, IssuedPair DEF Inv, TypeOK, IssueRequest, exportsVars

\* HandleIOEvent preserves the invariant.
LEMMA HandleIOEventStep == Inv /\ HandleIOEvent => Inv'
<1> SUFFICES ASSUME Inv, HandleIOEvent PROVE Inv'
  OBVIOUS
<1>1. PICK t \in Serviced(socket, exSocket) : \E w \in Interests(socket, t) :
          /\ socket' = t
          /\ wantsWrite' = w
          /\ sources' = UpdateWriteSource(
                            IF Changed(sources, t) THEN SetupSources(sources, t) ELSE sources,
                            w)
          /\ Opens(t)
  BY DEF HandleIOEvent
<1>2. /\ wantsWrite' \in BOOLEAN
      /\ sources' = UpdateWriteSource(
                        IF Changed(sources, t) THEN SetupSources(sources, t) ELSE sources,
                        wantsWrite')
      /\ socket' = t /\ Opens(t)
  BY <1>1, InterestBoolean
<1>3. /\ TypeOK /\ opened \in Nat /\ socket \in Sockets
      /\ SocketInv(sources, socket, opened) /\ Fires(sources, socket)
      /\ ~freed /\ QueryInv(exSources, exSocket, exWantsWrite, exportsCtx, opened)
      /\ exSocket \in Sockets
  BY ContextAlive DEF Inv, TypeOK, HandleIOEvent
<1>4. /\ socket.id <= opened
      /\ socket.id = 0 => socket.fd = -1
      /\ socket.id # 0 => socket.fd \in Fds
  BY <1>3, SocketInvOK
<1>5. /\ t \in Sockets
      /\ opened' \in 0 .. MaxSockets /\ opened <= opened' /\ t.id <= opened'
      /\ t.id = 0 => t.fd = -1
      /\ t.id # 0 => t.fd \in Fds
      /\ t = socket \/ t.id = 0 \/ t.id = opened + 1
  BY <1>2, <1>3, <1>4, ServicedSocket
<1>6. opened' \in Nat
  BY <1>5
<1>7. PairInv(sources', t, wantsWrite', opened')
  <2>1. PairInv(sources, socket, sources.suspensions = 0, opened)
    BY <1>3, FiringPair
  <2> QED BY <1>2, <1>3, <1>5, <1>6, <2>1, ServicedPair
<1>8. QueryInv(exSources, exSocket, exWantsWrite, exportsCtx, opened')
  BY <1>3, <1>5, <1>6, UntouchedQuery
<1>9. sources' \in Pairs /\ SocketInv(sources', t, opened')
  BY <1>7, PairInvOK, PairInvSocketInv
<1> QED BY <1>2, <1>3, <1>5, <1>7, <1>8, <1>9 DEF Inv, TypeOK, HandleIOEvent, exportsVars

\* CloseFileFireAndForget preserves the invariant: the sources stay well formed,
\* and if they no longer serve the socket this is on record.
LEMMA CloseFileFireAndForgetStep == Inv /\ CloseFileFireAndForget => Inv'
<1> SUFFICES ASSUME Inv, CloseFileFireAndForget PROVE Inv'
  OBVIOUS
<1>1. PICK t \in Serviced(socket, exSocket) : \E w \in Interests(socket, t) :
          /\ socket' = t
          /\ wantsWrite' = w
          /\ sources' \in {sources} \cup {UpdateWriteSource(sources, v) : v \in BOOLEAN}
          /\ unseen' = IF t = socket /\ w = wantsWrite /\ sources' = sources THEN unseen
                       ELSE 1
          /\ Opens(t)
  BY DEF CloseFileFireAndForget
<1>2. /\ wantsWrite' \in BOOLEAN
      /\ sources' = sources \/ \E v \in BOOLEAN : sources' = UpdateWriteSource(sources, v)
      /\ unseen' = IF t = socket /\ wantsWrite' = wantsWrite /\ sources' = sources
                   THEN unseen ELSE 1
      /\ socket' = t /\ Opens(t)
  BY <1>1, InterestBoolean
<1>3. /\ TypeOK /\ opened \in Nat /\ socket \in Sockets /\ unseen \in {0, 1}
      /\ SocketInv(sources, socket, opened) /\ context
      /\ ~freed /\ QueryInv(exSources, exSocket, exWantsWrite, exportsCtx, opened)
      /\ exSocket \in Sockets
  BY ContextAlive DEF Inv, TypeOK, CloseFileFireAndForget
<1>4. /\ PairOK(sources) /\ sources.ino <= opened /\ socket.id <= opened
      /\ socket.id = 0 => socket.fd = -1
      /\ socket.id # 0 => socket.fd \in Fds
  BY <1>3, SocketInvOK
<1>5. /\ t \in Sockets
      /\ opened' \in 0 .. MaxSockets /\ opened <= opened' /\ t.id <= opened'
      /\ t.id = 0 => t.fd = -1
      /\ t.id # 0 => t.fd \in Fds
  BY <1>2, <1>3, <1>4, ServicedSocket
<1>6. opened' \in Nat /\ unseen' \in {0, 1}
  BY <1>2, <1>3, <1>5
<1>7. PairOK(sources') /\ sources'.ino = sources.ino
  BY <1>2, <1>4, UpdateWriteSourceServes
<1>8. SocketInv(sources', t, opened')
  <2>1. sources'.ino <= opened'
    BY <1>3, <1>4, <1>5, <1>6, <1>7 DEF PairOK, Pairs
  <2> QED BY <1>5, <1>7, <2>1 DEF SocketInv
<1>9. unseen' = 0 => PairInv(sources', t, wantsWrite', opened')
  <2> SUFFICES ASSUME unseen' = 0 PROVE PairInv(sources', t, wantsWrite', opened')
    OBVIOUS
  <2>1. t = socket /\ wantsWrite' = wantsWrite /\ sources' = sources /\ unseen = 0
    BY <1>2
  <2>2. PairInv(sources, socket, wantsWrite, opened)
    BY <2>1 DEF Inv
  <2> QED BY <1>3, <1>5, <1>6, <2>1, <2>2, UntouchedPair
<1>10. QueryInv(exSources, exSocket, exWantsWrite, exportsCtx, opened')
  BY <1>3, <1>5, <1>6, UntouchedQuery
<1>11. sources' \in Pairs
  BY <1>7 DEF PairOK
<1> QED BY <1>2, <1>3, <1>5, <1>6, <1>8, <1>9, <1>10, <1>11
        DEF Inv, TypeOK, CloseFileFireAndForget, exportsVars

\* ShutdownWithError preserves the invariant.
LEMMA ShutdownWithErrorStep == Inv /\ ShutdownWithError => Inv'
<1> SUFFICES ASSUME Inv, ShutdownWithError PROVE Inv'
  OBVIOUS
<1>1. /\ PairOK(sources) /\ opened \in Nat
      /\ ~freed /\ QueryInv(exSources, exSocket, exWantsWrite, exportsCtx, opened)
  BY ContextAlive, SocketInvOK DEF Inv, TypeOK, ShutdownWithError
<1>2. /\ PairInv(CancelSources(sources), NoSocket, FALSE, opened)
      /\ CancelSources(sources).write = 0
  BY <1>1, CancelSourcesEmpty, TornDownPair
<1>3. PairInv(sources', socket', wantsWrite', opened') /\ sources'.write = 0
  BY <1>2 DEF ShutdownWithError
<1>4. SocketInv(sources', socket', opened') /\ sources' \in Pairs /\ NoSocket \in Sockets
  BY <1>3, PairInvOK, PairInvSocketInv DEF NoSocket, Sockets
<1> QED BY <1>1, <1>3, <1>4 DEF Inv, TypeOK, ShutdownWithError, exportsVars

\* GetExports preserves the invariant.
LEMMA GetExportsStep == Inv /\ GetExports => Inv'
<1> SUFFICES ASSUME Inv, GetExports PROVE Inv'
  OBVIOUS
<1>1. PICK t \in Serviced(NoSocket, socket) :
          /\ exSocket' = t
          /\ exWantsWrite' = TRUE
          /\ exSources' = IF t.fd >= 0 THEN SetupRpcExportsSources(exSources, t) ELSE exSources
          /\ Opens(t)
  BY DEF GetExports
<1>2. /\ TypeOK /\ opened \in Nat /\ context /\ ~exportsCtx
      /\ ~freed /\ QueryInv(exSources, exSocket, exWantsWrite, exportsCtx, opened)
  BY ContextAlive DEF Inv, TypeOK, GetExports
<1>3. /\ NoSocket \in Sockets /\ NoSocket.id <= opened /\ NoSocket.id = 0
      /\ NoSocket.fd = -1
  BY <1>2 DEF NoSocket, Sockets
<1>4. /\ t \in Sockets
      /\ opened' \in 0 .. MaxSockets /\ opened <= opened' /\ t.id <= opened'
      /\ t.id = 0 => t.fd = -1
      /\ t.id # 0 => t.fd \in Fds
  BY <1>1, <1>2, <1>3, ServicedSocket
<1>5. opened' \in Nat
  BY <1>4
<1>6. PairOK(exSources) /\ exSources.ino <= opened /\ exSources.write = 0
  BY <1>2, PairInvOK DEF QueryInv
<1>7. QueryInv(exSources', t, TRUE, TRUE, opened')
  <2>1. CASE t.id = 0
    <3>1. exSources' = exSources
      BY <1>1, <1>4, <2>1
    <3>2. exSources.ino <= opened'
      BY <1>2, <1>4, <1>5, <1>6 DEF PairOK, Pairs
    <3> QED BY <1>4, <1>5, <1>6, <2>1, <3>1, <3>2, NoSocketPair DEF QueryInv
  <2>2. CASE t.id # 0
    <3>1. t.fd \in Nat
      BY <1>4, <2>2
    <3>2. exSources' = SetupRpcExportsSources(exSources, t)
      BY <1>1, <3>1
    <3>3. /\ PairOK(exSources') /\ exSources'.read = t.id /\ exSources'.write = t.id
          /\ exSources'.suspensions = 0 /\ exSources'.ino = 0
      BY <1>4, <1>6, <2>2, <3>2, SetupRpcExportsSourcesFresh
    <3> QED BY <1>4, <1>5, <2>2, <3>3 DEF QueryInv, PairInv, SocketInv
  <2> QED BY <2>1, <2>2
<1>8. /\ SocketInv(sources, socket, opened')
      /\ unseen = 0 => PairInv(sources, socket, wantsWrite, opened')
  <2>1. socket \in Sockets /\ SocketInv(sources, socket, opened)
    BY DEF Inv, TypeOK
  <2>2. SocketInv(sources, socket, opened')
    BY <1>2, <1>3, <1>4, <1>5, <1>6, <2>1, UntouchedSocket
  <2>3. ASSUME unseen = 0 PROVE PairInv(sources, socket, wantsWrite, opened')
    <3>1. PairInv(sources, socket, wantsWrite, opened)
      BY <2>3 DEF Inv
    <3> QED BY <1>2, <1>3, <1>4, <1>5, <1>6, <2>1, <3>1, UntouchedPair
  <2> QED BY <2>2, <2>3
<1>9. exSources' \in Pairs
  BY <1>7, PairInvOK DEF QueryInv
<1> QED BY <1>1, <1>2, <1>4, <1>7, <1>8, <1>9 DEF Inv, TypeOK, GetExports, mainVars

\* HandleRpcExportsEvent preserves the invariant.
LEMMA HandleRpcExportsEventStep == Inv /\ HandleRpcExportsEvent => Inv'
<1> SUFFICES ASSUME Inv, HandleRpcExportsEvent PROVE Inv'
  OBVIOUS
<1>1. PICK t \in Serviced(exSocket, socket) : \E w \in Interests(exSocket, t) :
          /\ exSocket' = t
          /\ exWantsWrite' = w
          /\ exSources' = UpdateWriteSource(
                              IF t.fd >= 0 THEN SetupRpcExportsSources(exSources, t)
                              ELSE exSources,
                              w)
          /\ Opens(t)
  BY DEF HandleRpcExportsEvent
<1>2. /\ exWantsWrite' \in BOOLEAN
      /\ exSources' = UpdateWriteSource(
                          IF t.fd >= 0 THEN SetupRpcExportsSources(exSources, t)
                          ELSE exSources,
                          exWantsWrite')
      /\ exSocket' = t /\ Opens(t)
  BY <1>1, InterestBoolean
<1>3. /\ TypeOK /\ opened \in Nat /\ exSocket \in Sockets /\ ~freed /\ exportsCtx
      /\ QueryInv(exSources, exSocket, exWantsWrite, exportsCtx, opened)
  <2>1. ~freed /\ exportsCtx
    BY DEF HandleRpcExportsEvent
  <2>2. QueryInv(exSources, exSocket, exWantsWrite, exportsCtx, opened)
    BY <2>1 DEF Inv
  <2>3. TypeOK /\ opened \in Nat /\ exSocket \in Sockets
    BY DEF Inv, TypeOK
  <2> QED BY <2>1, <2>2, <2>3
<1>4. /\ PairOK(exSources) /\ exSources.ino <= opened /\ exSocket.id <= opened
      /\ exSocket.id = 0 => exSocket.fd = -1
      /\ exSocket.id # 0 => exSocket.fd \in Fds
  BY <1>3, PairInvOK DEF QueryInv
<1>5. /\ t \in Sockets
      /\ opened' \in 0 .. MaxSockets /\ opened <= opened' /\ t.id <= opened'
      /\ t.id = 0 => t.fd = -1
      /\ t.id # 0 => t.fd \in Fds
  BY <1>2, <1>3, <1>4, ServicedSocket
<1>6. opened' \in Nat /\ exSources.ino <= opened'
  BY <1>3, <1>4, <1>5 DEF PairOK, Pairs
<1>7. QueryInv(exSources', t, exWantsWrite', TRUE, opened')
  BY <1>2, <1>4, <1>5, <1>6, ServicedExportsPair
<1>8. /\ SocketInv(sources, socket, opened')
      /\ unseen = 0 => PairInv(sources, socket, wantsWrite, opened')
  <2>1. socket \in Sockets /\ SocketInv(sources, socket, opened)
    BY DEF Inv, TypeOK
  <2>2. SocketInv(sources, socket, opened')
    BY <1>2, <1>3, <1>4, <1>5, <1>6, <2>1, UntouchedSocket
  <2>3. ASSUME unseen = 0 PROVE PairInv(sources, socket, wantsWrite, opened')
    <3>1. PairInv(sources, socket, wantsWrite, opened)
      BY <2>3 DEF Inv
    <3> QED BY <1>2, <1>3, <1>4, <1>5, <1>6, <2>1, <3>1, UntouchedPair
  <2> QED BY <2>2, <2>3
<1>9. exSources' \in Pairs
  BY <1>7, PairInvOK DEF QueryInv
<1> QED BY <1>2, <1>3, <1>5, <1>7, <1>8, <1>9 DEF Inv, TypeOK, HandleRpcExportsEvent, mainVars

\* A query torn down.
LEMMA TornDownQuery ==
    ASSUME NEW p, PairOK(p), NEW n \in Nat
    PROVE  QueryInv(CancelRpcExportsSources(p), NoSocket, FALSE, FALSE, n)
BY CancelRpcExportsSourcesEmpty, TornDownPair DEF QueryInv

\* CleanupRpcExports preserves the invariant.
LEMMA CleanupRpcExportsStep == Inv /\ CleanupRpcExports => Inv'
<1> SUFFICES ASSUME Inv, CleanupRpcExports PROVE Inv'
  OBVIOUS
<1>1. PairOK(exSources) /\ opened \in Nat /\ ~freed
  BY PairInvOK DEF Inv, TypeOK, CleanupRpcExports, QueryInv
<1>2. QueryInv(exSources', exSocket', exWantsWrite', exportsCtx', opened')
  BY <1>1, TornDownQuery DEF CleanupRpcExports
<1>3. exSources' \in Pairs /\ NoSocket \in Sockets
  BY <1>2, PairInvOK DEF NoSocket, Sockets, QueryInv
<1>4. /\ wantsWrite' \in BOOLEAN /\ sources' \in Pairs /\ socket' = socket
      /\ unseen' = unseen
      /\ SocketInv(sources', socket', opened')
      /\ unseen' = 0 => PairInv(sources', socket', wantsWrite', opened')
      /\ ~context' => sources'.write = 0
  <2>1. CASE Issue
    BY <2>1, IssuedPair DEF CleanupRpcExports, Issue
  <2>2. CASE UNCHANGED mainVars
    BY <2>2 DEF CleanupRpcExports, mainVars, Inv, TypeOK
  <2> QED BY <2>1, <2>2 DEF CleanupRpcExports
<1> QED BY <1>1, <1>2, <1>3, <1>4 DEF Inv, TypeOK, CleanupRpcExports

\* What performShutdown leaves behind its guard.
LEMMA TornDown ==
    ASSUME Inv, TearDown, freed' \in BOOLEAN
    PROVE  /\ ~freed /\ context' = FALSE /\ sources'.write = 0
           /\ PairInv(sources', socket', wantsWrite', opened')
           /\ QueryInv(exSources', exSocket', exWantsWrite', exportsCtx', opened')
           /\ SocketInv(sources', socket', opened')
           /\ TypeOK'
<1>1. PairOK(sources) /\ PairOK(exSources) /\ opened \in Nat /\ ~freed
  BY PairInvOK, SocketInvOK, ContextAlive DEF Inv, TypeOK, TearDown, QueryInv
<1>2. /\ PairInv(CancelSources(sources), NoSocket, FALSE, opened)
      /\ CancelSources(sources).write = 0
      /\ QueryInv(CancelRpcExportsSources(exSources), NoSocket, FALSE, FALSE, opened)
  BY <1>1, CancelSourcesEmpty, TornDownQuery, TornDownPair
<1>3. /\ PairInv(sources', socket', wantsWrite', opened') /\ sources'.write = 0
      /\ QueryInv(exSources', exSocket', exWantsWrite', exportsCtx', opened')
  BY <1>2 DEF TearDown
<1>4. /\ SocketInv(sources', socket', opened') /\ sources' \in Pairs
      /\ exSources' \in Pairs /\ NoSocket \in Sockets
  BY <1>3, PairInvOK, PairInvSocketInv DEF NoSocket, Sockets, QueryInv
<1> QED BY <1>1, <1>3, <1>4 DEF Inv, TypeOK, TearDown

\* PerformShutdown preserves the invariant.
LEMMA PerformShutdownStep == Inv /\ PerformShutdown => Inv'
<1> SUFFICES ASSUME Inv, PerformShutdown PROVE Inv'
  OBVIOUS
<1>1. TearDown /\ freed' = freed /\ freed \in BOOLEAN
  BY DEF PerformShutdown, Inv, TypeOK
<1> QED BY <1>1, TornDown DEF Inv

\* Releasing what is there keeps the type, and traps exactly a suspended write
\* source.
LEMMA ReleasedPair ==
    ASSUME NEW p, PairOK(p)
    PROVE  /\ Release(p) \in Pairs /\ Release(p).ino = 0 /\ Release(p).write = 0
           /\ Release(p).read = 0 /\ Release(p).suspensions = 0
           /\ Release(p).fault = "trap" => p.write # 0 /\ p.suspensions # 0
           /\ p.write = 0 => Release(p).fault = "none"
BY DEF PairOK, Release, Pairs

\* Deinit preserves the invariant: a trap needs a suspended export write source,
\* and that a query which waits for its reply.
LEMMA DeinitStep == Inv /\ Deinit => Inv'
<1> SUFFICES ASSUME Inv, Deinit PROVE Inv'
  OBVIOUS
<1>1. ~freed /\ freed' = TRUE
  BY DEF Deinit
<1>2. CASE TearDown
  <2>1. /\ context' = FALSE /\ sources'.write = 0 /\ TypeOK'
        /\ PairInv(sources', socket', wantsWrite', opened')
        /\ QueryInv(exSources', exSocket', exWantsWrite', exportsCtx', opened')
        /\ SocketInv(sources', socket', opened')
    BY <1>1, <1>2, TornDown
  <2>2. sources'.fault = "none" /\ exSources'.fault = "none"
    BY <2>1 DEF QueryInv, PairInv, SocketInv, PairOK
  <2> QED BY <1>1, <2>1, <2>2 DEF Inv, SuspensionsBalance
<1>3. CASE /\ ~context
           /\ sources' = Release(sources)
           /\ exSources' = Release(exSources)
           /\ UNCHANGED <<context, socket, wantsWrite, unseen, exportsCtx, exSocket,
                          exWantsWrite, opened>>
  <2>1. /\ SocketInv(sources, socket, opened) /\ sources.write = 0 /\ TypeOK
        /\ unseen = 0 => PairInv(sources, socket, wantsWrite, opened)
        /\ QueryInv(exSources, exSocket, exWantsWrite, exportsCtx, opened)
    BY <1>1, <1>3 DEF Inv
  <2>2. /\ sources' \in Pairs /\ sources'.ino = 0 /\ sources'.write = 0
        /\ sources'.read = 0 /\ sources'.suspensions = 0 /\ sources'.fault = "none"
    BY <1>3, <2>1, ReleasedPair DEF SocketInv
  <2>3. PairOK(sources')
    BY <2>2 DEF PairOK
  <2>4. SocketInv(sources', socket', opened')
    BY <1>3, <2>1, <2>2, <2>3 DEF SocketInv, TypeOK
  <2>5. unseen' = 0 => PairInv(sources', socket', wantsWrite', opened')
    <3> SUFFICES ASSUME unseen' = 0
                 PROVE  PairInv(sources', socket', wantsWrite', opened')
      OBVIOUS
    <3>1. socket.id = 0
      BY <1>3, <2>1 DEF PairInv
    <3> QED BY <1>3, <2>4, <3>1 DEF PairInv
  <2>6. exSources' \in Pairs
    BY <1>3, <2>1, ReleasedPair DEF QueryInv, PairInv, SocketInv
  <2>7. exSources'.fault = "trap" => exportsCtx /\ ~exWantsWrite
    BY <1>3, <2>1, ReleasedPair DEF QueryInv, PairInv, SocketInv
  <2>8. SuspensionsBalance'
    <3>1. exportsCtx' = exportsCtx /\ exWantsWrite' = exWantsWrite
      BY <1>3
    <3> QED BY <1>1, <2>2, <2>7, <3>1 DEF SuspensionsBalance
  <2>9. TypeOK'
    BY <1>1, <1>3, <2>1, <2>2, <2>6 DEF TypeOK
  <2> QED BY <1>1, <1>3, <2>2, <2>4, <2>5, <2>8, <2>9 DEF Inv
<1> QED BY <1>2, <1>3 DEF Deinit

\* Every step preserves the invariant.
LEMMA InvStep == Inv /\ [Next]_vars => Inv'
<1> SUFFICES ASSUME Inv, [Next]_vars PROVE Inv'
  OBVIOUS
<1>1. CASE UNCHANGED vars
  BY <1>1 DEF vars, Inv, TypeOK, SuspensionsBalance
<1>2. CASE Next
  BY <1>2, MountStep, IssueRequestStep, HandleIOEventStep,
     CloseFileFireAndForgetStep, ShutdownWithErrorStep,
     GetExportsStep, HandleRpcExportsEventStep, CleanupRpcExportsStep,
     PerformShutdownStep, DeinitStep DEF Next
<1> QED BY <1>1, <1>2

-----------------------------------------------------------------------------
(* What follows for every behaviour.                                        *)

\* The flags of the write sources agree with libdispatch, and recorded inodes
\* are those of sockets opened earlier.
THEOREM SourcesInvariant == Spec => []Inv
<1> QED BY InvInit, InvStep, PTL DEF Spec

\* Type correctness; no write source is suspended twice over.
THEOREM SourcesTypeCorrect == Spec => []TypeOK
<1>1. Inv => TypeOK
  BY DEF Inv
<1> QED BY <1>1, SourcesInvariant, PTL

\* cancelSources, setupSources and updateWriteSource do not make libdispatch trap,
\* in whatever order events and calls run them, and neither does the release of
\* the NFS context's sources; the one trap left is that of deinit releasing the
\* suspended write source of an export query which shutdownWithError left behind.
THEOREM SuspensionsBalanced == Spec => []SuspensionsBalance
<1>1. Inv => SuspensionsBalance
  BY DEF Inv, QueryInv, PairInv, SocketInv, PairOK, SuspensionsBalance
<1> QED BY <1>1, SourcesInvariant, PTL

\* handleIOEvent's comparison of numbers and inodes never misses a replaced
\* socket: the loop goes on hearing from the one libnfs uses, unless it was
\* replaced during nfs_close.
THEOREM LoopNeverDeaf == Spec => []WatchesSocket
<1>1. Inv => WatchesSocket
  BY DEF Inv, QueryInv, PairInv, WatchesSocket
<1> QED BY <1>1, SourcesInvariant, PTL

\* The write source is active exactly while libnfs has something to send.
THEOREM WriteSourceServes == Spec => []WriteInterestServed
<1>1. Inv => WriteInterestServed
  BY DEF Inv, QueryInv, PairInv, WriteInterestServed
<1> QED BY <1>1, SourcesInvariant, PTL
=============================================================================
