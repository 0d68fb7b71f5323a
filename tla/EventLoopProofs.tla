--------------------------- MODULE EventLoopProofs ---------------------------
(***************************************************************************)
(* The event loop's safety for any number of calls, any depth bounds and   *)
(* any capacity of the pending queue.  Every operator on the loop's record *)
(* is shown to keep the record well typed and Consistent, and not to       *)
(* detach a call other than the one it says; the actions then follow by    *)
(* composition, in the order in which the code nests.                      *)
(***************************************************************************)
EXTENDS EventLoop, PipelineControllerProofs, FiniteSetTheorems

\* The calls are finitely many, and the groups of calls are disjoint.
LEMMA OpsFacts ==
    /\ IsFiniteSet(Ops)
    /\ NfsOps \cap ExportOps = {}
    /\ SubmitOps \subseteq NfsOps /\ BulkOps \subseteq NfsOps
    /\ HandleOps \subseteq NfsOps /\ MountOps \subseteq NfsOps
    /\ NfsOps \subseteq Ops /\ ExportOps \subseteq Ops
    /\ SubmitOps \subseteq Ops
  BY LoopAssumption DEF Ops, NfsOps

\* Every call has a category.
LEMMA CategoryType ==
    ASSUME NEW o
    PROVE  Category(o) \in Categories
  BY DEF Category, Categories

\* A set of calls has a cardinality, by category too.
LEMMA CountType ==
    ASSUME NEW S \in SUBSET Ops, NEW c
    PROVE  Cardinality(S) \in Nat /\ Cardinality(InCategory(S, c)) \in Nat
  <1>1. IsFiniteSet(S) /\ IsFiniteSet(InCategory(S, c))
    BY OpsFacts, FS_Subset DEF InCategory
  <1> QED
    BY <1>1, FS_CardinalityType

\* Disjoint sets of calls are counted separately.
LEMMA DisjointCounts ==
    ASSUME NEW S \in SUBSET Ops, NEW T \in SUBSET Ops, S \cap T = {}, NEW c
    PROVE  Cardinality(InCategory(S \cup T, c)) =
               Cardinality(InCategory(S, c)) + Cardinality(InCategory(T, c))
  <1> DEFINE X == InCategory(S, c)
             Y == InCategory(T, c)
  <1>1. IsFiniteSet(X) /\ IsFiniteSet(Y)
    BY OpsFacts, FS_Subset DEF InCategory
  <1>2. InCategory(S \cup T, c) = X \cup Y /\ X \cap Y = {}
    BY DEF InCategory
  <1> HIDE DEF X, Y
  <1>3. Cardinality(X \cup Y) = Cardinality(X) + Cardinality(Y) - Cardinality(X \cap Y)
    BY <1>1, FS_Union
  <1>4. Cardinality(X) \in Nat /\ Cardinality(Y) \in Nat /\ Cardinality(X \cap Y) = 0
    BY <1>1, <1>2, FS_CardinalityType, FS_EmptySet
  <1>5. Cardinality(X \cup Y) = Cardinality(X) + Cardinality(Y)
    BY <1>3, <1>4
  <1>6. Cardinality(InCategory(S \cup T, c)) = Cardinality(X) + Cardinality(Y)
    BY <1>2, <1>5
  <1> QED
    BY <1>6 DEF X, Y

-----------------------------------------------------------------------------
(* What each operator on the record leaves in each field.                   *)

\* The parts of the record that calls are traced by.
SameCalls(s, t) ==
    /\ t.active = s.active /\ t.resumed = s.resumed /\ t.reply = s.reply
    /\ t.retained = s.retained /\ t.pending = s.pending /\ t.rpc = s.rpc

\* continuation.resume changes the replies of S only.
LEMMA ContinuationResumeFields ==
    ASSUME NEW s \in LoopType, NEW S \in SUBSET Ops, NEW r \in Results
    PROVE  LET t == ContinuationResume(s, S, r)
           IN  /\ t \in LoopType
               /\ t.active = s.active /\ t.resumed = s.resumed
               /\ t.retained = s.retained /\ t.pending = s.pending
               /\ t.inFlight = s.inFlight /\ t.controller = s.controller
               /\ t.rpc = s.rpc
               /\ \A o \in Ops : t.reply[o] = IF o \notin S THEN s.reply[o]
                                              ELSE IF s.reply[o] = "waiting" THEN r
                                              ELSE "trap"
  BY DEF ContinuationResume, LoopType

\* CallbackData.resume changes the replies of S that were not resumed before.
LEMMA ResumeFields ==
    ASSUME NEW s \in LoopType, NEW S \in SUBSET Ops, NEW r \in Results
    PROVE  LET t == Resume(s, S, r)
           IN  /\ t \in LoopType
               /\ t.active = s.active /\ t.resumed = s.resumed \cup S
               /\ t.retained = s.retained /\ t.pending = s.pending
               /\ t.inFlight = s.inFlight /\ t.controller = s.controller
               /\ t.rpc = s.rpc
               /\ \A o \in Ops : t.reply[o] = IF o \notin S \ s.resumed THEN s.reply[o]
                                              ELSE IF s.reply[o] = "waiting" THEN r
                                              ELSE "trap"
  <1> DEFINE u == ContinuationResume(s, S \ s.resumed, r)
  <1>1. S \ s.resumed \in SUBSET Ops
    OBVIOUS
  <1>2. u \in LoopType
    BY <1>1, ContinuationResumeFields
  <1>3. /\ u.active = s.active /\ u.resumed = s.resumed
        /\ u.retained = s.retained /\ u.pending = s.pending
        /\ u.inFlight = s.inFlight /\ u.controller = s.controller
        /\ u.rpc = s.rpc
        /\ \A o \in Ops : u.reply[o] = IF o \notin S \ s.resumed THEN s.reply[o]
                                       ELSE IF s.reply[o] = "waiting" THEN r
                                       ELSE "trap"
    BY <1>1, ContinuationResumeFields
  <1>4. Resume(s, S, r) = [u EXCEPT !.resumed = @ \cup S]
    BY DEF Resume
  <1> HIDE DEF u
  <1> DEFINE t == Resume(s, S, r)
  <1>5. t \in LoopType
    BY <1>2, <1>4 DEF LoopType
  <1>6. t.active = u.active /\ t.resumed = u.resumed \cup S /\ t.reply = u.reply
    BY <1>2, <1>4 DEF LoopType
  <1>7. /\ t.retained = u.retained /\ t.pending = u.pending /\ t.rpc = u.rpc
        /\ t.inFlight = u.inFlight /\ t.controller = u.controller
    BY <1>2, <1>4 DEF LoopType
  <1> HIDE DEF t
  <1>8. /\ t.active = s.active /\ t.resumed = s.resumed \cup S
        /\ t.retained = s.retained /\ t.pending = s.pending
        /\ t.inFlight = s.inFlight /\ t.controller = s.controller
        /\ t.rpc = s.rpc
    BY <1>3, <1>6, <1>7
  <1>9. \A o \in Ops : t.reply[o] = IF o \notin S \ s.resumed THEN s.reply[o]
                                   ELSE IF s.reply[o] = "waiting" THEN r
                                   ELSE "trap"
    BY <1>3, <1>6
  <1> QED
    BY <1>5, <1>8, <1>9 DEF t

\* A slot more or less changes the in-flight counts only.
LEMMA AddInFlightFields ==
    ASSUME NEW s \in LoopType, NEW c \in Categories, NEW n \in Nat
    PROVE  LET t == AddInFlight(s, c, n)
           IN  t \in LoopType /\ SameCalls(s, t)
  <1>1. s.inFlight \in [Categories -> Nat]
    BY DEF LoopType
  <1>2. Override(s.inFlight, c, s.inFlight[c] + n) \in [Categories -> Nat]
    BY <1>1 DEF Override
  <1> QED
    BY <1>2 DEF AddInFlight, LoopType, SameCalls

\* Neither does recording a completion touch anything but counts and depths.
LEMMA RecordCompletionFields ==
    ASSUME NEW s \in LoopType, NEW c \in Categories, NEW success
    PROVE  LET t == RecordCompletion(s, c, success)
           IN  t \in LoopType /\ SameCalls(s, t)
  <1>1. /\ s.inFlight \in [Categories -> Nat]
        /\ s.controller \in [Categories -> Controller]
    BY DEF LoopType
  <1>2. AtLeast(0, s.inFlight[c] - 1) \in Nat
    BY <1>1 DEF AtLeast
  <1>3. Record(s.controller[c], success) \in Controller
    BY <1>1, RecordType
  <1>4. Override(s.inFlight, c, AtLeast(0, s.inFlight[c] - 1)) \in [Categories -> Nat]
    BY <1>1, <1>2 DEF Override
  <1>5. Override(s.controller, c, Record(s.controller[c], success))
            \in [Categories -> Controller]
    BY <1>1, <1>3 DEF Override
  <1> QED
    BY <1>4, <1>5 DEF RecordCompletion, LoopType, SameCalls

\* Nor does recording several failures.
LEMMA RecordFailedFields ==
    ASSUME NEW s \in LoopType, NEW S \in SUBSET Ops
    PROVE  LET t == RecordFailed(s, S)
           IN  t \in LoopType /\ SameCalls(s, t)
  <1>1. /\ s.inFlight \in [Categories -> Nat]
        /\ s.controller \in [Categories -> Controller]
    BY DEF LoopType
  <1>2. \A c \in Categories :
            AtLeast(0, s.inFlight[c] - Cardinality(InCategory(S, c))) \in Nat
    <2> TAKE c \in Categories
    <2>1. Cardinality(InCategory(S, c)) \in Nat
      BY CountType
    <2>2. s.inFlight[c] \in Nat
      BY <1>1
    <2> QED
      BY <2>1, <2>2 DEF AtLeast
  <1>3. \A c \in Categories :
            RecordRepeatedly(s.controller[c], FALSE, Cardinality(InCategory(S, c))) \in Controller
    BY <1>1, CountType, RepeatedType
  <1>4. [c \in Categories |-> AtLeast(0, s.inFlight[c] - Cardinality(InCategory(S, c)))]
            \in [Categories -> Nat]
    BY <1>2
  <1>5. [c \in Categories |-> RecordRepeatedly(s.controller[c], FALSE, Cardinality(InCategory(S, c)))]
            \in [Categories -> Controller]
    BY <1>3
  <1> QED
    BY <1>4, <1>5 DEF RecordFailed, LoopType, SameCalls

-----------------------------------------------------------------------------
(* What one handler after the other preserves.                              *)

\* A record on which every handler can safely go on.
Good(s) ==
    /\ s \in LoopType
    /\ Consistent(s)
    /\ Len(s.pending) <= MaxPendingOperations

\* What handlers that start no call may do to the calls there are.
Follows(s, t) ==
    /\ t.active \subseteq s.active
    /\ \A o \in Ops : \/ t.reply[o] = s.reply[o]
                      \/ s.reply[o] = "waiting" /\ t.reply[o] \in Results
    /\ Waiting(s) \cup s.resumed \subseteq Waiting(t) \cup t.resumed
    /\ Len(t.pending) <= Len(s.pending)
    /\ PendingSet(t) \subseteq PendingSet(s)
    /\ Sent(t) \subseteq Sent(s) \cup PendingSet(s)
    /\ \A o \in Ops : s.rpc[o] \in {"done", "dropped"} => t.rpc[o] = s.rpc[o]

\* The result r may be returned to the calls in S as things stand.
MayTell(s, S, r) ==
    /\ r \notin {"ENOBUFS", "EBUSY", "EBADF"}
    /\ r = "ok" => \A o \in S : s.rpc[o] = "done"
    /\ r # "ETIMEDOUT" => S \cap ((Sent(s) \cap NfsOps) \cup PendingSet(s)) = {}

\* The queue's length is a number and its operations are submitted ones.
LEMMA PendingFacts ==
    ASSUME NEW s \in LoopType
    PROVE  /\ Len(s.pending) \in Nat
           /\ PendingSet(s) \subseteq SubmitOps
           /\ \A i \in 1 .. Len(s.pending) : s.pending[i] \in SubmitOps
           /\ Len(s.pending) = 0 => PendingSet(s) = {} /\ s.pending = <<>>
           /\ s.pending = <<>> => PendingSet(s) = {}
  <1>1. s.pending \in Seq(SubmitOps)
    BY DEF LoopType
  <1> QED
    BY <1>1 DEF PendingSet, Taken

\* Handlers may follow one another.
LEMMA FollowsTransitive ==
    ASSUME NEW r \in LoopType, NEW s \in LoopType, NEW t \in LoopType,
           Follows(r, s), Follows(s, t)
    PROVE  Follows(r, t)
  <1>1. "waiting" \notin Results
    BY DEF Results
  <1>2. Len(r.pending) \in Nat /\ Len(s.pending) \in Nat /\ Len(t.pending) \in Nat
    BY PendingFacts
  <1>3. Len(t.pending) <= Len(r.pending)
    BY <1>2 DEF Follows
  <1>4. \A o \in Ops : \/ t.reply[o] = r.reply[o]
                       \/ r.reply[o] = "waiting" /\ t.reply[o] \in Results
    <2> TAKE o \in Ops
    <2>1. s.reply[o] = r.reply[o] \/ (r.reply[o] = "waiting" /\ s.reply[o] \in Results)
      BY DEF Follows
    <2>2. t.reply[o] = s.reply[o] \/ (s.reply[o] = "waiting" /\ t.reply[o] \in Results)
      BY DEF Follows
    <2> QED
      BY <1>1, <2>1, <2>2
  <1>5. \A o \in Ops : r.rpc[o] \in {"done", "dropped"} => t.rpc[o] = r.rpc[o]
    BY DEF Follows
  <1> QED
    BY <1>3, <1>4, <1>5 DEF Follows

\* Counts and depths do not matter to the calls.
LEMMA SameCallsGood ==
    ASSUME NEW s, Good(s), NEW t \in LoopType, SameCalls(s, t)
    PROVE  Good(t) /\ Follows(s, t) /\ Detached(t) = Detached(s)
  <1>1. s \in LoopType
    BY DEF Good
  <1>2. /\ Waiting(t) = Waiting(s) /\ Idle(t) = Idle(s) /\ Sent(t) = Sent(s)
        /\ PendingSet(t) = PendingSet(s)
    BY DEF SameCalls, Waiting, Idle, Sent, PendingSet, Taken
  <1>3. Consistent(t)
    <2>1. \A o \in Ops : Told(t, o)
      BY <1>2 DEF Good, Consistent, SameCalls, Told
    <2> QED
      BY <1>2, <2>1 DEF Good, Consistent, SameCalls
  <1>4. Follows(s, t)
    BY <1>1, <1>2, PendingFacts DEF Follows, SameCalls
  <1> QED
    BY <1>2, <1>3, <1>4 DEF Good, SameCalls, Detached

\* Taking calls out of the registry detaches them and nothing else.
LEMMA DetachGood ==
    ASSUME NEW s, Good(s), NEW S
    PROVE  LET t == [s EXCEPT !.active = @ \ S]
           IN  /\ Good(t) /\ Follows(s, t)
               /\ t.active = s.active \ S /\ t.rpc = s.rpc /\ t.reply = s.reply
               /\ Detached(t) \subseteq Detached(s) \cup (S \cap s.active)
  <1> DEFINE t == [s EXCEPT !.active = @ \ S]
  <1>1. s \in LoopType
    BY DEF Good
  <1>2. /\ t \in LoopType
        /\ t.active = s.active \ S /\ t.resumed = s.resumed /\ t.reply = s.reply
        /\ t.retained = s.retained /\ t.pending = s.pending /\ t.rpc = s.rpc
    BY <1>1 DEF LoopType
  <1> HIDE DEF t
  <1>3. /\ Waiting(t) = Waiting(s) /\ Idle(t) = Idle(s) /\ Sent(t) = Sent(s)
        /\ PendingSet(t) = PendingSet(s)
    BY <1>2 DEF Waiting, Idle, Sent, PendingSet, Taken
  <1>4. Consistent(t)
    <2>1. \A o \in Ops : Told(t, o)
      BY <1>2, <1>3 DEF Good, Consistent, Told
    <2> QED
      BY <1>2, <1>3, <2>1 DEF Good, Consistent
  <1>5. Follows(s, t)
    BY <1>1, <1>2, <1>3, PendingFacts DEF Follows
  <1>6. Good(t) /\ Detached(t) \subseteq Detached(s) \cup (S \cap s.active)
    BY <1>2, <1>3, <1>4 DEF Good, Detached
  <1> QED
    BY <1>2, <1>5, <1>6 DEF t

\* Resuming detached or resumed calls: the detached ones are no longer waiting.
LEMMA ResumeGood ==
    ASSUME NEW s, Good(s), NEW S \in SUBSET Ops, NEW r \in Results,
           S \cap s.active = {}, S \subseteq Waiting(s) \cup s.resumed, MayTell(s, S, r)
    PROVE  LET t == Resume(s, S, r)
           IN  /\ Good(t) /\ Follows(s, t)
               /\ t.active = s.active /\ t.rpc = s.rpc /\ t.pending = s.pending
               /\ Detached(t) = Detached(s) \ S
  <1> DEFINE t == Resume(s, S, r)
  <1>1. s \in LoopType
    BY DEF Good
  <1>2. /\ t \in LoopType
        /\ t.active = s.active /\ t.resumed = s.resumed \cup S
        /\ t.retained = s.retained /\ t.pending = s.pending
        /\ t.rpc = s.rpc
        /\ \A o \in Ops : t.reply[o] = IF o \notin S \ s.resumed THEN s.reply[o]
                                       ELSE IF s.reply[o] = "waiting" THEN r
                                       ELSE "trap"
    <2>1. t \in LoopType
      BY <1>1, ResumeFields
    <2>2. t.active = s.active
      BY <1>1, ResumeFields
    <2>4. t.pending = s.pending /\ t.rpc = s.rpc
      BY <1>1 DEF Resume, ContinuationResume, LoopType
    <2>5. t.resumed = s.resumed \cup S
      BY <1>1, ResumeFields
    <2>6. t.retained = s.retained
      BY <1>1, ResumeFields
    <2>3. \A o \in Ops : t.reply[o] = IF o \notin S \ s.resumed THEN s.reply[o]
                                     ELSE IF s.reply[o] = "waiting" THEN r
                                     ELSE "trap"
      BY <1>1, ResumeFields
    <2> HIDE DEF t
    <2> QED
      BY <2>1, <2>2, <2>3, <2>4, <2>5, <2>6
  <1> HIDE DEF t
  <1>3. r \notin {"idle", "waiting", "trap"}
    BY DEF Results
  <1>4. \A o \in S \ s.resumed : s.reply[o] = "waiting"
    BY DEF Waiting
  <1>5. \A o \in Ops : t.reply[o] = IF o \in S \ s.resumed THEN r ELSE s.reply[o]
    BY <1>2, <1>4
  <1>6. Waiting(s) \cap s.resumed = {} /\ s.resumed \subseteq Ops
    BY <1>1 DEF Good, Consistent, LoopType
  <1>7. /\ Waiting(t) = Waiting(s) \ S /\ Idle(t) = Idle(s)
    BY <1>3, <1>4, <1>5, <1>6 DEF Waiting, Idle
  <1>8. Sent(t) = Sent(s) /\ PendingSet(t) = PendingSet(s)
    BY <1>2 DEF Sent, PendingSet, Taken
  <1>9. \A o \in Ops : t.reply[o] # "trap"
    BY <1>3, <1>5 DEF Good, Consistent
  <1>10. Idle(t) \cap t.resumed = {}
    BY <1>2, <1>4, <1>7 DEF Good, Consistent, Idle, Waiting
  <1>14. \A o \in Ops : Told(t, o)
    <2> TAKE o \in Ops
    <2>1. Told(s, o)
      BY DEF Good, Consistent
    <2>2. CASE o \in S \ s.resumed
      BY <1>2, <1>5, <1>8, <2>2 DEF MayTell, Told
    <2>3. CASE o \notin S \ s.resumed
      BY <1>2, <1>5, <1>8, <2>1, <2>3 DEF Told
    <2> QED
      BY <2>2, <2>3
  <1>11. Consistent(t)
    BY <1>2, <1>7, <1>8, <1>9, <1>10, <1>14 DEF Good, Consistent
  <1>12. Follows(s, t)
    BY <1>1, <1>2, <1>4, <1>5, <1>7, <1>8, PendingFacts DEF Follows
  <1>13. Good(t) /\ Detached(t) = Detached(s) \ S
    BY <1>2, <1>7, <1>11 DEF Good, Detached
  <1> QED
    BY <1>2, <1>12, <1>13 DEF t

-----------------------------------------------------------------------------
(* Issuing pending operations, and completing a call.                       *)

\* What is left of the queue when its first k operations are taken.
LEMMA QueueTail ==
    ASSUME NEW p \in Seq(SubmitOps), NEW k \in 0 .. Len(p),
           \A i, j \in 1 .. Len(p) : i # j => p[i] # p[j]
    PROVE  LET q == SubSeq(p, k + 1, Len(p))
           IN  /\ q \in Seq(SubmitOps)
               /\ Len(q) = Len(p) - k
               /\ \A i, j \in 1 .. Len(q) : i # j => q[i] # q[j]
               /\ Taken(q, Len(q)) \subseteq Taken(p, Len(p)) \ Taken(p, k)
               /\ Taken(p, k) \subseteq Taken(p, Len(p))
  <1> DEFINE q == SubSeq(p, k + 1, Len(p))
  <1>1. /\ q \in Seq(SubmitOps)
        /\ Len(q) = Len(p) - k
        /\ Len(p) \in Nat
        /\ \A i \in 1 .. Len(p) - k : q[i] = p[i + k]
    OBVIOUS
  <1> HIDE DEF q
  <1>2. \A i, j \in 1 .. Len(q) : i # j => q[i] # q[j]
    <2> SUFFICES ASSUME NEW i \in 1 .. Len(q), NEW j \in 1 .. Len(q), i # j
                 PROVE  q[i] # q[j]
      OBVIOUS
    <2>1. i + k \in 1 .. Len(p) /\ j + k \in 1 .. Len(p) /\ i + k # j + k
      BY <1>1
    <2>2. q[i] = p[i + k] /\ q[j] = p[j + k]
      BY <1>1
    <2> QED
      BY <2>1, <2>2
  <1>3. ASSUME NEW x \in Taken(q, Len(q))
        PROVE  x \in Taken(p, Len(p)) \ Taken(p, k)
    <2>1. PICK i \in 1 .. Len(q) : x = q[i]
      BY DEF Taken
    <2>2. i + k \in 1 .. Len(p) /\ x = p[i + k]
      BY <1>1, <2>1
    <2>3. ASSUME NEW j \in 1 .. k
          PROVE  p[j] # x
      <3>1. j \in 1 .. Len(p) /\ j # i + k
        BY <1>1, <2>1
      <3> QED
        BY <2>2, <3>1
    <2> QED
      BY <2>2, <2>3 DEF Taken
  <1>4. Taken(p, k) \subseteq Taken(p, Len(p))
    BY <1>1 DEF Taken
  <1> QED
    BY <1>1, <1>2, <1>3, <1>4 DEF q

\* A pass over the queue leaves every call in good order and detaches none.
LEMMA IssuePassGood ==
    ASSUME NEW s, Good(s), NEW b \in Passes(s)
    PROVE  LET t == IssuePass(s, b)
           IN  Good(t) /\ Follows(s, t) /\ Detached(t) \subseteq Detached(s)
  <1> DEFINE p == s.pending
             F == b.failed
             q == SubSeq(p, b.taken + 1, Len(p))
             issued == Taken(p, b.taken) \ F
             R == [o \in Ops |-> IF o \in issued THEN "sent" ELSE s.rpc[o]]
             a == AddInFlight(s, "metadata", Cardinality(issued))
             v == [a EXCEPT !.pending = q, !.rpc = R, !.retained = @ \ F, !.active = @ \ F]
  <1>1. s \in LoopType /\ Consistent(s) /\ Len(p) <= MaxPendingOperations
    BY DEF Good
  <1>2. /\ p \in Seq(SubmitOps) /\ s.rpc \in [Ops -> {"none", "sent", "done", "dropped"}]
        /\ s.retained \subseteq Ops /\ s.active \subseteq Ops
    BY <1>1 DEF LoopType
  <1>3. b.taken \in 0 .. Len(p) /\ F \subseteq Taken(p, b.taken)
    BY DEF Passes
  <1>4. \A i, j \in 1 .. Len(p) : i # j => p[i] # p[j]
    BY <1>1 DEF Consistent
  <1>5. /\ q \in Seq(SubmitOps)
        /\ Len(q) = Len(p) - b.taken
        /\ \A i, j \in 1 .. Len(q) : i # j => q[i] # q[j]
        /\ Taken(q, Len(q)) \subseteq PendingSet(s) \ Taken(p, b.taken)
        /\ Taken(p, b.taken) \subseteq PendingSet(s)
    BY <1>2, <1>3, <1>4, QueueTail DEF PendingSet
  <1>6. Len(p) \in Nat /\ Len(q) <= Len(p) /\ Len(q) <= MaxPendingOperations
    BY <1>1, <1>2, <1>3, <1>5, LoopAssumption
  <1>7. PendingSet(s) \subseteq Ops
    BY <1>1, PendingFacts, OpsFacts
  <1>8. issued \in SUBSET Ops /\ F \in SUBSET Ops
    BY <1>3, <1>5, <1>7
  <1>9. a \in LoopType /\ SameCalls(s, a)
    <2>1. Cardinality(issued) \in Nat
      BY <1>8, CountType
    <2>2. "metadata" \in Categories
      BY DEF Categories
    <2> QED
      BY <1>1, <2>1, <2>2, AddInFlightFields
  <1>10. R \in [Ops -> {"none", "sent", "done", "dropped"}]
    BY <1>2
  <1> HIDE DEF a, R, q
  <1>11. v \in LoopType
    BY <1>5, <1>9, <1>10 DEF LoopType
  <1>12. v.pending = q /\ v.rpc = R /\ v.reply = s.reply
    BY <1>9 DEF LoopType, SameCalls
  <1>13. v.retained = s.retained \ F
    BY <1>9 DEF LoopType, SameCalls
  <1>14. v.active = s.active \ F
    BY <1>9 DEF LoopType, SameCalls
  <1>15. v.resumed = s.resumed
    BY <1>9 DEF LoopType, SameCalls
  <1> HIDE DEF v
  <1>16. Waiting(v) = Waiting(s) /\ Idle(v) = Idle(s)
    BY <1>12 DEF Waiting, Idle
  <1>17. Sent(v) = Sent(s) \cup issued
    BY <1>8, <1>12 DEF Sent, R
  <1>18. PendingSet(v) \subseteq PendingSet(s) \ Taken(p, b.taken)
    BY <1>5, <1>12 DEF PendingSet
  <1>19. \A o \in PendingSet(s) : s.rpc[o] = "none"
    BY <1>1 DEF Consistent
  <1>20. /\ issued \subseteq PendingSet(s) /\ F \subseteq PendingSet(s)
         /\ issued \cap F = {} /\ Sent(s) \cap PendingSet(s) = {}
    BY <1>3, <1>5, <1>19 DEF Sent
  <1> HIDE DEF p, F, issued
  <1>21. Sent(v) \cup PendingSet(v) \subseteq v.retained
    BY <1>1, <1>3, <1>13, <1>17, <1>18, <1>20 DEF Consistent
  <1>22. \A o \in PendingSet(v) \cup Idle(v) : v.rpc[o] = "none"
    <2>1. Idle(s) \cap PendingSet(s) = {}
      <3>1. PendingSet(s) \subseteq Waiting(s) \cup s.resumed /\ Idle(s) \cap s.resumed = {}
        BY <1>1 DEF Consistent
      <3>2. Waiting(s) \cap Idle(s) = {}
        BY DEF Waiting, Idle
      <3> QED
        BY <3>1, <3>2
    <2>2. (PendingSet(v) \cup Idle(v)) \cap issued = {}
      BY <1>16, <1>18, <1>20, <2>1 DEF issued
    <2>3. \A o \in PendingSet(v) \cup Idle(v) : s.rpc[o] = "none" /\ o \in Ops
      BY <1>1, <1>7, <1>16, <1>18 DEF Consistent, Idle
    <2> QED
      BY <1>12, <2>2, <2>3 DEF R
  <1>23. Consistent(v)
    <2>1. v.active \subseteq Waiting(v) /\ Waiting(v) \cap v.resumed = {}
      BY <1>1, <1>14, <1>15, <1>16 DEF Consistent
    <2>2. Idle(v) \cap v.resumed = {} /\ \A o \in Ops : v.reply[o] # "trap"
      BY <1>1, <1>12, <1>15, <1>16 DEF Consistent
    <2>3. Sent(v) \cup PendingSet(v) \subseteq Waiting(v) \cup v.resumed
      BY <1>1, <1>15, <1>16, <1>17, <1>18, <1>20 DEF Consistent
    <2>4. \A i, j \in 1 .. Len(v.pending) : i # j => v.pending[i] # v.pending[j]
      BY <1>5, <1>12
    <2>5. ASSUME NEW o \in Ops
          PROVE  Told(v, o)
      <3>1. Told(s, o) /\ v.reply[o] = s.reply[o]
        BY <1>1, <1>12 DEF Consistent
      <3>2. o \in (Sent(v) \cap NfsOps) \cup PendingSet(v) =>
                o \in (Sent(s) \cap NfsOps) \cup PendingSet(s)
        BY <1>17, <1>18, <1>20
      <3>3. s.rpc[o] = "done" => v.rpc[o] = "done"
        BY <1>12, <1>19, <1>20 DEF R
      <3>4. s.reply[o] \in {"ENOBUFS", "EBUSY", "EBADF"} => v.rpc[o] = "none"
        BY <1>12, <1>20, <3>1 DEF R, Told
      <3> QED
        BY <3>1, <3>2, <3>3, <3>4 DEF Told
    <2> QED
      BY <1>21, <1>22, <2>1, <2>2, <2>3, <2>4, <2>5 DEF Consistent
  <1>24. Good(v)
    BY <1>6, <1>11, <1>12, <1>23 DEF Good
  <1>25. Follows(s, v)
    <2>1. \A o \in Ops : s.rpc[o] \in {"done", "dropped"} => v.rpc[o] = s.rpc[o]
      BY <1>12, <1>19, <1>20 DEF R
    <2>2. Len(v.pending) <= Len(s.pending)
      BY <1>6, <1>12 DEF p
    <2> QED
      BY <1>12, <1>14, <1>15, <1>16, <1>17, <1>18, <1>20, <2>1, <2>2 DEF Follows
  <1>26. Detached(v) \subseteq Detached(s) \cup F
    BY <1>14, <1>16 DEF Detached
  <1>27. F \cap v.active = {} /\ F \subseteq Waiting(v) \cup v.resumed
    BY <1>1, <1>14, <1>15, <1>16, <1>20 DEF Consistent
  <1>28. "error" \in Results /\ MayTell(v, F, "error")
    BY <1>3, <1>17, <1>18, <1>20 DEF Results, MayTell
  <1> DEFINE t == Resume(v, F, "error")
  <1>29. Good(t) /\ Follows(v, t) /\ Detached(t) = Detached(v) \ F
    BY <1>8, <1>24, <1>27, <1>28, ResumeGood
  <1>30. t = IssuePass(s, b)
    BY DEF IssuePass, v, a, q, R, issued, F, p
  <1> HIDE DEF t
  <1>31. Follows(s, t)
    BY <1>1, <1>11, <1>25, <1>29, FollowsTransitive DEF Good
  <1> QED
    BY <1>26, <1>29, <1>30, <1>31

\* issuePendingOperations as a whole.
LEMMA IssuePendingGood ==
    ASSUME NEW s, Good(s), NEW hasContext, NEW t \in IssuePendingOperations(s, hasContext)
    PROVE  /\ Good(t) /\ Follows(s, t) /\ Detached(t) \subseteq Detached(s)
  <1>1. CASE t = s
    <2>1. SameCalls(s, t) /\ t \in LoopType
      BY <1>1 DEF SameCalls, Good
    <2> QED
      BY <2>1, SameCallsGood
  <1>2. CASE \E b \in Passes(s) : t = IssuePass(s, b)
    BY <1>2, IssuePassGood
  <1> QED
    BY <1>1, <1>2 DEF IssuePendingOperations

\* libnfs gives up requests it had: the CallbackData of those in S is released.
LEMMA RetireGood ==
    ASSUME NEW s, Good(s), NEW t \in LoopType, NEW S \in SUBSET Sent(s),
           t.active = s.active, t.resumed = s.resumed, t.reply = s.reply,
           t.pending = s.pending, t.retained = s.retained \ S,
           \A o \in Ops : \/ t.rpc[o] = s.rpc[o] /\ o \notin S
                          \/ o \in Sent(s) /\ t.rpc[o] \in {"done", "dropped"}
    PROVE  /\ Good(t) /\ Follows(s, t) /\ Detached(t) = Detached(s)
  <1>1. s \in LoopType /\ Consistent(s) /\ Len(s.pending) <= MaxPendingOperations
    BY DEF Good
  <1>2. Waiting(t) = Waiting(s) /\ Idle(t) = Idle(s) /\ PendingSet(t) = PendingSet(s)
    BY DEF Waiting, Idle, PendingSet, Taken
  <1>3. Sent(t) \subseteq Sent(s) \ S
    BY DEF Sent
  <1>4. (PendingSet(s) \cup Idle(s)) \cap Sent(s) = {}
    BY <1>1 DEF Consistent, Sent
  <1>5. PendingSet(s) \cup Idle(s) \subseteq Ops
    BY <1>1, PendingFacts, OpsFacts DEF Idle
  <1>6. \A o \in PendingSet(t) \cup Idle(t) : t.rpc[o] = "none"
    BY <1>1, <1>2, <1>4, <1>5 DEF Consistent
  <1>7. Sent(t) \cup PendingSet(t) \subseteq t.retained
    BY <1>1, <1>2, <1>3, <1>4 DEF Consistent
  <1>11. \A o \in Ops : Told(t, o)
    <2> TAKE o \in Ops
    <2>1. Told(s, o)
      BY <1>1 DEF Consistent
    <2> QED
      BY <1>2, <1>3, <2>1 DEF Told, Sent
  <1>8. Consistent(t)
    BY <1>1, <1>2, <1>3, <1>6, <1>7, <1>11 DEF Consistent
  <1>9. \A o \in Ops : s.rpc[o] \in {"done", "dropped"} => t.rpc[o] = s.rpc[o]
    BY DEF Sent
  <1>10. Follows(s, t)
    BY <1>1, <1>2, <1>3, <1>9, PendingFacts DEF Follows
  <1> QED
    BY <1>1, <1>2, <1>8, <1>10 DEF Good, Detached

\* handleCallbackCompletion detaches the completed call.
LEMMA CompletionGood ==
    ASSUME NEW s, Good(s), NEW o \in Ops, NEW success, NEW hasContext,
           NEW t \in HandleCallbackCompletion(s, o, success, hasContext)
    PROVE  /\ Good(t) /\ Follows(s, t) /\ o \notin t.active
           /\ Detached(t) \subseteq Detached(s) \cup ({o} \cap s.active)
  <1> DEFINE d == [s EXCEPT !.active = @ \ {o}]
             u == RecordCompletion(d, Category(o), success)
  <1>1. Good(d) /\ Follows(s, d) /\ o \notin d.active
    <2>1. Good(d) /\ Follows(s, d)
      BY DetachGood
    <2>2. d.active = s.active \ {o}
      BY DetachGood
    <2> QED
      BY <2>1, <2>2
  <1>2. Detached(d) \subseteq Detached(s) \cup ({o} \cap s.active)
    BY DetachGood
  <1>3. t \in IssuePendingOperations(u, hasContext)
    BY DEF HandleCallbackCompletion
  <1> HIDE DEF d
  <1>4. u \in LoopType /\ SameCalls(d, u)
    BY <1>1, CategoryType, RecordCompletionFields DEF Good
  <1> HIDE DEF u
  <1>5. Good(u) /\ Follows(d, u) /\ Detached(u) = Detached(d)
    BY <1>1, <1>4, SameCallsGood
  <1>6. Good(t) /\ Follows(u, t) /\ Detached(t) \subseteq Detached(u)
    BY <1>3, <1>5, IssuePendingGood
  <1>7. Follows(s, u)
    BY <1>1, <1>5, FollowsTransitive DEF Good
  <1>8. Follows(s, t)
    BY <1>5, <1>6, <1>7, FollowsTransitive DEF Good
  <1>9. o \notin t.active
    BY <1>1, <1>5, <1>6 DEF Follows
  <1> QED
    BY <1>2, <1>5, <1>6, <1>8, <1>9

\* A callback of libnfs for a request it had completes the call, whether its
\* caller still waits or has been told of a timeout.
LEMMA NfsCallbackGood ==
    ASSUME NEW s, Good(s), NEW o \in Sent(s), NEW success,
           NEW r \in {"ok", "error", "cancelled"},
           NEW hasContext, NEW t \in NfsCallback(s, o, success, r, hasContext)
    PROVE  /\ Good(t) /\ Follows(s, t) /\ Detached(t) \subseteq Detached(s)
           /\ o \notin t.active /\ t.rpc[o] = "done"
  <1> DEFINE d == [s EXCEPT !.rpc = Override(s.rpc, o, "done"), !.retained = @ \ {o}]
  <1>1. s \in LoopType /\ o \in Ops
    BY DEF Good, Sent
  <1>2. s.rpc \in [Ops -> {"none", "sent", "done", "dropped"}]
    BY <1>1 DEF LoopType
  <1>3. Override(s.rpc, o, "done") \in [Ops -> {"none", "sent", "done", "dropped"}]
    BY <1>2 DEF Override
  <1>4. d \in LoopType
    BY <1>1, <1>3 DEF LoopType
  <1>5. d.active = s.active /\ d.reply = s.reply /\ d.pending = s.pending
    BY <1>1 DEF LoopType
  <1>6. d.resumed = s.resumed
    BY <1>1 DEF LoopType
  <1>7. d.retained = s.retained \ {o}
    BY <1>1 DEF LoopType
  <1>8. \A x \in Ops : d.rpc[x] = IF x = o THEN "done" ELSE s.rpc[x]
    BY <1>1, <1>2 DEF LoopType, Override
  <1>9. PICK u \in HandleCallbackCompletion(d, o, success, hasContext) :
            t = Resume(u, {o}, r)
    BY DEF NfsCallback
  <1> HIDE DEF d
  <1>10. \A x \in Ops : \/ d.rpc[x] = s.rpc[x] /\ x \notin {o}
                        \/ x \in Sent(s) /\ d.rpc[x] \in {"done", "dropped"}
    BY <1>8
  <1>11. {o} \in SUBSET Sent(s)
    OBVIOUS
  <1>12. Good(d) /\ Follows(s, d) /\ Detached(d) = Detached(s)
    BY <1>4, <1>5, <1>6, <1>7, <1>10, <1>11, RetireGood
  <1>13. /\ Good(u) /\ Follows(d, u) /\ o \notin u.active
         /\ Detached(u) \subseteq Detached(d) \cup ({o} \cap d.active)
    BY <1>1, <1>9, <1>12, CompletionGood
  <1>14. Follows(s, u)
    BY <1>12, <1>13, FollowsTransitive DEF Good
  <1>15. o \in Waiting(u) \cup u.resumed
    <2>1. o \in Waiting(s) \cup s.resumed
      BY DEF Good, Consistent
    <2> QED
      BY <1>14, <2>1 DEF Follows
  <1>16. u.rpc[o] = "done"
    BY <1>1, <1>8, <1>13 DEF Follows
  <1>17. {o} \cap u.active = {} /\ {o} \subseteq Waiting(u) \cup u.resumed /\ {o} \in SUBSET Ops
    BY <1>1, <1>13, <1>15
  <1>21. r \in Results /\ MayTell(u, {o}, r)
    <2>1. o \notin Sent(u) \cup PendingSet(u)
      BY <1>13, <1>16 DEF Sent, Good, Consistent
    <2> QED
      BY <1>16, <2>1 DEF Results, MayTell
  <1>18. Good(t) /\ Follows(u, t) /\ Detached(t) = Detached(u) \ {o}
    BY <1>9, <1>13, <1>17, <1>21, ResumeGood
  <1>19. t.active = u.active /\ t.rpc = u.rpc
    <2>3. u \in LoopType
      BY <1>13 DEF Good
    <2>1. t.active = u.active
      BY <1>9, <2>3 DEF Resume, ContinuationResume, LoopType
    <2>2. t.rpc = u.rpc
      BY <1>9, <2>3 DEF Resume, ContinuationResume, LoopType
    <2> QED
      BY <2>1, <2>2
  <1>20. Follows(s, t)
    BY <1>13, <1>14, <1>18, FollowsTransitive DEF Good
  <1> QED
    BY <1>12, <1>13, <1>16, <1>18, <1>19, <1>20

\* The same for an answer, whatever it says.
LEMMA AnswerGood ==
    ASSUME NEW s, Good(s), NEW o \in Sent(s), NEW hasContext,
           NEW t \in Answer(s, o, hasContext)
    PROVE  /\ Good(t) /\ Follows(s, t) /\ Detached(t) \subseteq Detached(s)
           /\ o \notin t.active /\ t.rpc[o] = "done"
  <1>1. "ok" \in {"ok", "error", "cancelled"} /\ "error" \in {"ok", "error", "cancelled"}
    OBVIOUS
  <1>4. ASSUME NEW success, NEW r \in {"ok", "error", "cancelled"}, t \in NfsCallback(s, o, success, r, hasContext)
        PROVE  /\ Good(t) /\ Follows(s, t) /\ Detached(t) \subseteq Detached(s)
               /\ o \notin t.active /\ t.rpc[o] = "done"
    BY <1>4, NfsCallbackGood
  <1>2. CASE t \in NfsCallback(s, o, TRUE, "ok", hasContext)
    BY <1>1, <1>2, <1>4, Zenon
  <1>3. CASE t \in NfsCallback(s, o, FALSE, "error", hasContext)
    BY <1>1, <1>3, <1>4
  <1> QED
    BY <1>2, <1>3 DEF Answer

-----------------------------------------------------------------------------
(* Teardown.                                                                *)

\* The callbacks that run while a context is destroyed, after the registry has
\* been cleared, leave the calls in good order.
LEMMA CancelledGood ==
    ASSUME NEW s, Good(s), s.active = {},
           NEW S \in SUBSET Sent(s), NEW D \in SUBSET Sent(s), S \cap D = {}
    PROVE  LET t == Cancelled(s, S, D)
           IN  /\ Good(t) /\ Follows(s, t) /\ Detached(t) = Detached(s) \ S
               /\ Sent(t) = Sent(s) \ (S \cup D)
  <1> DEFINE R == [o \in Ops |-> IF o \in S THEN "done"
                                 ELSE IF o \in D THEN "dropped" ELSE s.rpc[o]]
             v == [s EXCEPT !.rpc = R, !.retained = @ \ S]
             u == RecordFailed(v, S)
             t == Resume(u, S, "cancelled")
  <1>1. s \in LoopType /\ S \in SUBSET Ops
    BY DEF Good, Sent
  <1>2. s.rpc \in [Ops -> {"none", "sent", "done", "dropped"}]
    BY <1>1 DEF LoopType
  <1>3. R \in [Ops -> {"none", "sent", "done", "dropped"}]
    BY <1>2
  <1>4. /\ \A o \in Ops : \/ R[o] = s.rpc[o] /\ o \notin S
                          \/ o \in Sent(s) /\ R[o] \in {"done", "dropped"}
        /\ {o \in Ops : R[o] = "sent"} = Sent(s) \ (S \cup D)
    BY DEF Sent
  <1> HIDE DEF R
  <1>5. v \in LoopType
    BY <1>1, <1>3 DEF LoopType
  <1>6. v.active = s.active /\ v.reply = s.reply /\ v.pending = s.pending /\ v.rpc = R
    BY <1>1 DEF LoopType
  <1>7. v.resumed = s.resumed
    BY <1>1 DEF LoopType
  <1>8. v.retained = s.retained \ S
    BY <1>1 DEF LoopType
  <1> HIDE DEF v
  <1>9. Good(v) /\ Follows(s, v) /\ Detached(v) = Detached(s)
    BY <1>4, <1>5, <1>6, <1>7, <1>8, RetireGood
  <1>10. u \in LoopType /\ SameCalls(v, u)
    BY <1>1, <1>5, RecordFailedFields
  <1> HIDE DEF u
  <1>11. Good(u) /\ Follows(v, u) /\ Detached(u) = Detached(v)
    BY <1>9, <1>10, SameCallsGood
  <1>12. Follows(s, u)
    BY <1>1, <1>5, <1>9, <1>10, <1>11, FollowsTransitive
  <1>13. S \cap u.active = {} /\ S \subseteq Waiting(u) \cup u.resumed
    <2>1. S \subseteq Waiting(s) \cup s.resumed
      BY DEF Good, Consistent
    <2> QED
      BY <1>12, <2>1 DEF Follows
  <1>14. "cancelled" \in Results /\ MayTell(u, S, "cancelled")
    <2>1. Sent(u) = Sent(s) \ (S \cup D)
      BY <1>4, <1>6, <1>10 DEF Sent, SameCalls
    <2>2. PendingSet(u) \cap S = {}
      <3>1. PendingSet(s) \cap Sent(s) = {}
        BY DEF Good, Consistent, Sent
      <3> QED
        BY <1>12, <3>1 DEF Follows
    <2> QED
      BY <2>1, <2>2 DEF Results, MayTell
  <1>15. Good(t) /\ Follows(u, t) /\ Detached(t) = Detached(u) \ S
    BY <1>1, <1>11, <1>13, <1>14, ResumeGood
  <1>16. t.rpc = u.rpc
    BY <1>1, <1>11, <1>13, <1>14, ResumeGood
  <1>17. t = Cancelled(s, S, D)
    BY DEF Cancelled, R, u, v
  <1> HIDE DEF t
  <1>18. Follows(s, t)
    BY <1>1, <1>10, <1>12, <1>15, FollowsTransitive DEF Good
  <1>19. Sent(t) = Sent(s) \ (S \cup D)
    BY <1>4, <1>6, <1>10, <1>16 DEF Sent, SameCalls
  <1> QED
    BY <1>9, <1>11, <1>15, <1>17, <1>18, <1>19

\* After nfs_destroy_context libnfs owes no callback on that context.
LEMMA DestroyContextGood ==
    ASSUME NEW s, Good(s), s.active = {}, NEW t \in DestroyContext(s)
    PROVE  /\ Good(t) /\ Follows(s, t) /\ Detached(t) \subseteq Detached(s)
           /\ Sent(t) \cap NfsOps = {}
  <1> DEFINE sent == Sent(s) \cap NfsOps
  <1>1. PICK D \in SUBSET (sent \cap MountOps) : t = Cancelled(s, sent \ D, D)
    BY DEF DestroyContext
  <1>2. /\ sent \ D \in SUBSET Sent(s) /\ D \in SUBSET Sent(s)
        /\ (sent \ D) \cap D = {} /\ (sent \ D) \cup D = sent
    OBVIOUS
  <1> HIDE DEF sent
  <1>3. Good(t) /\ Follows(s, t) /\ Detached(t) = Detached(s) \ (sent \ D)
    BY <1>1, <1>2, CancelledGood
  <1>4. Sent(t) = Sent(s) \ ((sent \ D) \cup D)
    BY <1>1, <1>2, CancelledGood
  <1> QED
    BY <1>2, <1>3, <1>4 DEF sent

\* The end of performShutdown and shutdownWithError: every caller has its
\* result, nothing is queued, libnfs owes nothing.
LEMMA TearDownGood ==
    ASSUME NEW s, Good(s), Detached(s) = {}, NEW t \in TearDown(s, s.active)
    PROVE  /\ Good(t) /\ Follows(s, t) /\ Detached(t) = {}
           /\ t.active = {} /\ t.pending = <<>> /\ Sent(t) \cap NfsOps = {}
  <1> DEFINE c == [s EXCEPT !.active = {}, !.pending = <<>>]
  <1>1. s \in LoopType /\ Consistent(s) /\ Len(s.pending) <= MaxPendingOperations
    BY DEF Good
  <1>2. c \in LoopType
    <2>1. <<>> \in Seq(SubmitOps) /\ {} \in SUBSET Ops
      OBVIOUS
    <2> QED
      BY <1>1, <2>1 DEF LoopType
  <1>3. c.active = {} /\ c.pending = <<>> /\ c.reply = s.reply /\ c.rpc = s.rpc
    BY <1>1 DEF LoopType
  <1>4. c.resumed = s.resumed /\ c.retained = s.retained
    <2>1. c.resumed = s.resumed
      BY <1>1 DEF LoopType
    <2>2. c.retained = s.retained
      BY <1>1 DEF LoopType
    <2> QED
      BY <2>1, <2>2
  <1>5. PICK u \in DestroyContext(c) : t = Resume(u, s.active, "ENOTCONN")
    BY DEF TearDown
  <1> HIDE DEF c
  <1>6. Waiting(c) = Waiting(s) /\ Idle(c) = Idle(s) /\ Sent(c) = Sent(s)
    BY <1>3 DEF Waiting, Idle, Sent
  <1>7. PendingSet(c) = {} /\ Len(c.pending) = 0
    BY <1>2, <1>3, PendingFacts
  <1>8. Consistent(c)
    <2>1. \A o \in Ops : Told(c, o)
      BY <1>1, <1>3, <1>6, <1>7 DEF Consistent, Told
    <2> QED
      BY <1>1, <1>3, <1>4, <1>6, <1>7, <2>1 DEF Consistent
  <1>9. Good(c)
    BY <1>2, <1>7, <1>8, LoopAssumption DEF Good
  <1>10. Follows(s, c)
    BY <1>1, <1>3, <1>4, <1>6, <1>7, PendingFacts DEF Follows
  <1>11. Detached(c) \subseteq s.active
    BY <1>3, <1>6 DEF Detached
  <1>12. /\ Good(u) /\ Follows(c, u) /\ Detached(u) \subseteq Detached(c)
         /\ Sent(u) \cap NfsOps = {}
    BY <1>3, <1>5, <1>9, DestroyContextGood
  <1>13. u.active = {} /\ u.pending = <<>>
    <2>1. Len(u.pending) = 0
      BY <1>7, <1>12, PendingFacts DEF Follows, Good
    <2> QED
      BY <1>3, <1>12, <2>1, PendingFacts DEF Follows, Good
  <1>14. Follows(s, u)
    BY <1>1, <1>2, <1>10, <1>12, FollowsTransitive DEF Good
  <1>15. s.active \subseteq Waiting(u) \cup u.resumed
    BY <1>1, <1>14 DEF Follows, Consistent
  <1>16. s.active \in SUBSET Ops /\ "ENOTCONN" \in Results /\ s.active \cap u.active = {}
    BY <1>1, <1>13 DEF LoopType, Results
  <1>22. MayTell(u, s.active, "ENOTCONN")
    <2>1. u \in LoopType
      BY <1>12 DEF Good
    <2>2. PendingSet(u) = {}
      BY <1>13, <2>1, PendingFacts
    <2> QED
      BY <1>12, <2>2 DEF MayTell
  <1>17. Good(t) /\ Follows(u, t) /\ Detached(t) = Detached(u) \ s.active
    BY <1>5, <1>12, <1>15, <1>16, <1>22, ResumeGood
  <1>18. t.rpc = u.rpc /\ t.pending = u.pending
    <2>1. t.rpc = u.rpc
      BY <1>5, <1>12, <1>15, <1>16, <1>22, ResumeGood
    <2>2. t.pending = u.pending
      <3>1. Len(t.pending) = 0
        BY <1>12, <1>13, <1>17, PendingFacts DEF Follows, Good
      <3> QED
        BY <1>13, <1>17, <3>1, PendingFacts DEF Good
    <2> QED
      BY <2>1, <2>2
  <1>19. Follows(s, t)
    BY <1>1, <1>12, <1>14, <1>17, FollowsTransitive DEF Good
  <1>20. t.active = {}
    BY <1>13, <1>17 DEF Follows
  <1>21. Sent(t) = Sent(u)
    BY <1>18 DEF Sent
  <1> QED
    BY <1>11, <1>12, <1>13, <1>17, <1>18, <1>19, <1>20, <1>21

\* cleanupRpcExports, for the query that owns the RPC context.
LEMMA CleanupRpcExportsGood ==
    ASSUME NEW s, Good(s), NEW e \in ExportOps, NEW hasContext,
           NEW t \in CleanupRpcExports(s, e, hasContext)
    PROVE  /\ Good(t) /\ Follows(s, t) /\ Detached(t) \subseteq Detached(s)
           /\ e \notin Sent(t)
  <1>1. s \in LoopType /\ e \in Ops
    BY OpsFacts DEF Good
  <1>2. CASE t = s /\ s.rpc[e] # "sent"
    <2>1. SameCalls(s, t) /\ t \in LoopType
      BY <1>1, <1>2 DEF SameCalls
    <2> QED
      BY <1>2, <2>1, SameCallsGood DEF Sent
  <1>3. CASE t \in NfsCallback(s, e, FALSE, "cancelled", hasContext) /\ s.rpc[e] = "sent"
    <2>1. ASSUME NEW success, NEW r \in {"ok", "error", "cancelled"},
                 t \in NfsCallback(s, e, success, r, hasContext)
          PROVE  /\ Good(t) /\ Follows(s, t) /\ Detached(t) \subseteq Detached(s)
                 /\ t.rpc[e] = "done"
      <3>1. e \in Sent(s)
        BY <1>1, <1>3 DEF Sent
      <3> QED
        BY <2>1, <3>1, NfsCallbackGood
    <2>2. "cancelled" \in {"ok", "error", "cancelled"}
      OBVIOUS
    <2>3. /\ Good(t) /\ Follows(s, t) /\ Detached(t) \subseteq Detached(s)
          /\ t.rpc[e] = "done"
      BY <1>3, <2>1, <2>2
    <2> QED
      BY <2>3 DEF Sent
  <1>4. CASE t = [s EXCEPT !.rpc = Override(s.rpc, e, "dropped")] /\ s.rpc[e] = "sent"
    <2>1. s.rpc \in [Ops -> {"none", "sent", "done", "dropped"}]
      BY <1>1 DEF LoopType
    <2>2. Override(s.rpc, e, "dropped") \in [Ops -> {"none", "sent", "done", "dropped"}]
      BY <2>1 DEF Override
    <2>3. t \in LoopType
      BY <1>1, <1>4, <2>2 DEF LoopType
    <2>4. t.active = s.active /\ t.reply = s.reply /\ t.pending = s.pending
      BY <1>1, <1>4 DEF LoopType
    <2>5. t.resumed = s.resumed
      BY <1>1, <1>4 DEF LoopType
    <2>6. t.retained = s.retained \ {}
      BY <1>1, <1>4 DEF LoopType
    <2>7. \A x \in Ops : t.rpc[x] = IF x = e THEN "dropped" ELSE s.rpc[x]
      BY <1>1, <1>4, <2>1 DEF LoopType, Override
    <2>8. \A x \in Ops : \/ t.rpc[x] = s.rpc[x] /\ x \notin {}
                         \/ x \in Sent(s) /\ t.rpc[x] \in {"done", "dropped"}
      BY <1>4, <2>7 DEF Sent
    <2>9. {} \in SUBSET Sent(s)
      OBVIOUS
    <2>10. Good(t) /\ Follows(s, t) /\ Detached(t) = Detached(s)
      BY <2>3, <2>4, <2>5, <2>6, <2>8, <2>9, RetireGood
    <2>11. e \notin Sent(t)
      BY <1>1, <2>7 DEF Sent
    <2> QED
      BY <2>10, <2>11
  <1> QED
    BY <1>2, <1>3, <1>4 DEF CleanupRpcExports

\* The same when there may be no such query; afterwards no query is with libnfs.
LEMMA CleanupExportsGood ==
    ASSUME NEW s, Good(s), rpcExports \subseteq ExportOps,
           \A d, e \in rpcExports : d = e, Sent(s) \cap ExportOps \subseteq rpcExports,
           NEW hasContext, NEW t \in CleanupExports(s, hasContext)
    PROVE  /\ Good(t) /\ Follows(s, t) /\ Detached(t) \subseteq Detached(s)
           /\ Sent(t) \cap ExportOps = {}
  <1>1. CASE rpcExports = {}
    <2>1. t = s
      BY <1>1 DEF CleanupExports
    <2>2. SameCalls(s, t) /\ t \in LoopType
      BY <2>1 DEF SameCalls, Good
    <2> QED
      BY <1>1, <2>1, <2>2, SameCallsGood
  <1>2. CASE rpcExports # {}
    <2>1. PICK e \in rpcExports : t \in CleanupRpcExports(s, e, hasContext)
      BY <1>2 DEF CleanupExports
    <2>2. /\ Good(t) /\ Follows(s, t) /\ Detached(t) \subseteq Detached(s)
          /\ e \notin Sent(t)
      BY <2>1, CleanupRpcExportsGood
    <2>3. Sent(t) \subseteq Sent(s) \cup SubmitOps
      BY <2>2, PendingFacts DEF Follows, Good
    <2>4. SubmitOps \cap ExportOps = {}
      BY OpsFacts
    <2> QED
      BY <2>1, <2>2, <2>3, <2>4
  <1> QED
    BY <1>1, <1>2

\* performShutdown.
LEMMA PerformShutdownGood ==
    ASSUME NEW s, Good(s), Detached(s) = {}, rpcExports \subseteq ExportOps,
           \A d, e \in rpcExports : d = e, Sent(s) \cap ExportOps \subseteq rpcExports,
           NEW t \in PerformShutdown(s)
    PROVE  /\ Good(t) /\ Follows(s, t) /\ Detached(t) = {}
           /\ t.active = {} /\ t.pending = <<>> /\ Sent(t) = {}
  <1> DEFINE N == [c \in Categories |-> Reset]
             Z == [c \in Categories |-> 0]
  <1>1. PICK x \in CleanupExports(s, context) :
            \E u \in TearDown(x, x.active) : t = [u EXCEPT !.controller = N, !.inFlight = Z]
    <2>1. PICK u \in UNION {TearDown(x, x.active) : x \in CleanupExports(s, context)} :
              t = [u EXCEPT !.controller = N, !.inFlight = Z]
      BY DEF PerformShutdown
    <2> HIDE DEF N, Z
    <2>2. PICK x \in CleanupExports(s, context) : u \in TearDown(x, x.active)
      OBVIOUS
    <2> QED
      BY <2>1, <2>2
  <1>2. PICK u \in TearDown(x, x.active) : t = [u EXCEPT !.controller = N, !.inFlight = Z]
    BY <1>1
  <1>3. N \in [Categories -> Controller] /\ Z \in [Categories -> Nat]
    BY ResetType
  <1> HIDE DEF N, Z
  <1>4. /\ Good(x) /\ Follows(s, x) /\ Detached(x) = {}
        /\ Sent(x) \cap ExportOps = {}
    BY <1>1, CleanupExportsGood
  <1>5. /\ Good(u) /\ Follows(x, u) /\ Detached(u) = {}
        /\ u.active = {} /\ u.pending = <<>> /\ Sent(u) \cap NfsOps = {}
    BY <1>2, <1>4, TearDownGood
  <1>6. u \in LoopType /\ s \in LoopType /\ x \in LoopType
    BY <1>4, <1>5 DEF Good
  <1>7. t \in LoopType
    BY <1>2, <1>3, <1>6 DEF LoopType
  <1>8. SameCalls(u, t)
    <2>1. t.active = u.active /\ t.reply = u.reply /\ t.pending = u.pending /\ t.rpc = u.rpc
      BY <1>2, <1>6 DEF LoopType
    <2>2. t.resumed = u.resumed
      BY <1>2, <1>6 DEF LoopType
    <2>3. t.retained = u.retained
      BY <1>2, <1>6 DEF LoopType
    <2> QED
      BY <2>1, <2>2, <2>3 DEF SameCalls
  <1>9. Good(t) /\ Follows(u, t) /\ Detached(t) = {}
    BY <1>5, <1>7, <1>8, SameCallsGood
  <1>10. Follows(s, t)
    BY <1>4, <1>5, <1>6, <1>7, <1>9, FollowsTransitive
  <1>11. t.active = {} /\ t.pending = <<>> /\ Sent(t) = Sent(u)
    BY <1>5, <1>8 DEF SameCalls, Sent
  <1>12. Sent(u) \subseteq Ops /\ Sent(u) \cap ExportOps = {}
    <2>1. Sent(u) \subseteq Sent(x) \cup SubmitOps
      BY <1>5, <1>6, PendingFacts DEF Follows
    <2>2. SubmitOps \cap ExportOps = {}
      BY OpsFacts
    <2> QED
      BY <1>4, <2>1, <2>2 DEF Sent
  <1> QED
    BY <1>5, <1>9, <1>10, <1>11, <1>12 DEF Ops

-----------------------------------------------------------------------------
(* Starting a call.                                                         *)

\* What a block that starts the call o may do to the calls there are.
Starts(s, t, o) ==
    /\ \A p \in Ops \ {o} : \/ t.reply[p] = s.reply[p]
                            \/ s.reply[p] = "waiting" /\ t.reply[p] \in Results
    /\ t.reply[o] \in Results \cup {"waiting"}
    /\ PendingSet(t) \subseteq PendingSet(s) \cup {o}
    /\ Sent(t) \subseteq Sent(s) \cup PendingSet(s) \cup {o}
    /\ \A p \in Ops : s.rpc[p] \in {"done", "dropped"} => t.rpc[p] = s.rpc[p]

\* A call not made yet is known to nobody.
LEMMA IdleFacts ==
    ASSUME NEW s, Good(s), NEW o \in Idle(s)
    PROVE  /\ o \in Ops /\ s.reply[o] = "idle" /\ s.rpc[o] = "none"
           /\ o \notin Waiting(s) /\ o \notin s.active /\ o \notin s.resumed
           /\ o \notin Sent(s) /\ o \notin PendingSet(s)
  <1>1. o \in Ops /\ s.reply[o] = "idle" /\ o \notin Waiting(s)
    BY DEF Idle, Waiting
  <1>2. o \notin s.active /\ o \notin s.resumed /\ s.rpc[o] = "none"
    BY <1>1 DEF Good, Consistent
  <1>3. o \notin Sent(s)
    BY <1>2 DEF Sent
  <1>4. o \notin PendingSet(s)
    BY <1>1, <1>2 DEF Good, Consistent
  <1> QED
    BY <1>1, <1>2, <1>3, <1>4

\* Handlers may follow the start of a call.
LEMMA StartsFollows ==
    ASSUME NEW s, NEW u, NEW t, NEW o \in Ops, Starts(s, u, o), Follows(u, t)
    PROVE  Starts(s, t, o)
  <1>1. "waiting" \notin Results
    BY DEF Results
  <1>2. ASSUME NEW p \in Ops \ {o}
        PROVE  \/ t.reply[p] = s.reply[p]
               \/ s.reply[p] = "waiting" /\ t.reply[p] \in Results
    <2>1. u.reply[p] = s.reply[p] \/ (s.reply[p] = "waiting" /\ u.reply[p] \in Results)
      BY DEF Starts
    <2>2. t.reply[p] = u.reply[p] \/ (u.reply[p] = "waiting" /\ t.reply[p] \in Results)
      BY DEF Follows
    <2> QED
      BY <1>1, <2>1, <2>2
  <1>3. t.reply[o] \in Results \cup {"waiting"}
    <2>1. u.reply[o] \in Results \cup {"waiting"}
      BY DEF Starts
    <2>2. t.reply[o] = u.reply[o] \/ t.reply[o] \in Results
      BY DEF Follows
    <2> QED
      BY <2>1, <2>2
  <1>4. /\ PendingSet(t) \subseteq PendingSet(s) \cup {o}
        /\ Sent(t) \subseteq Sent(s) \cup PendingSet(s) \cup {o}
    BY DEF Starts, Follows
  <1>5. \A p \in Ops : s.rpc[p] \in {"done", "dropped"} => t.rpc[p] = s.rpc[p]
    BY DEF Starts, Follows
  <1> QED
    BY <1>2, <1>3, <1>4, <1>5 DEF Starts

\* A call that is turned away leaves no trace but its result.
LEMMA TurnedAwayGood ==
    ASSUME NEW s, Good(s), NEW o \in Idle(s), NEW r \in Results \ {"ok"},
           NEW t \in LoopType,
           t.active = s.active, t.resumed = s.resumed, t.retained = s.retained,
           t.pending = s.pending, t.rpc = s.rpc,
           \A p \in Ops : t.reply[p] = IF p = o THEN r ELSE s.reply[p]
    PROVE  /\ Good(t) /\ Starts(s, t, o) /\ Detached(t) = Detached(s)
           /\ Sent(t) = Sent(s)
  <1>1. s \in LoopType /\ Consistent(s) /\ Len(s.pending) <= MaxPendingOperations
    BY DEF Good
  <1>2. r \notin {"idle", "waiting", "trap"}
    BY DEF Results
  <1>3. /\ o \in Ops /\ s.reply[o] = "idle" /\ o \notin Waiting(s)
        /\ s.rpc[o] = "none" /\ o \notin Sent(s) /\ o \notin PendingSet(s)
    BY IdleFacts
  <1>4. Waiting(t) = Waiting(s)
    BY <1>2, <1>3 DEF Waiting
  <1>5. Idle(t) \subseteq Idle(s)
    BY <1>2 DEF Idle
  <1>6. Sent(t) = Sent(s) /\ PendingSet(t) = PendingSet(s)
    BY DEF Sent, PendingSet, Taken
  <1>7. \A p \in Ops : t.reply[p] # "trap"
    BY <1>1, <1>2 DEF Consistent
  <1>10. \A p \in Ops : Told(t, p)
    <2> TAKE p \in Ops
    <2>1. Told(s, p)
      BY <1>1 DEF Consistent
    <2> QED
      BY <1>3, <1>6, <2>1 DEF Told
  <1>8. Consistent(t)
    BY <1>1, <1>4, <1>5, <1>6, <1>7, <1>10 DEF Consistent
  <1>9. Starts(s, t, o)
    BY <1>3, <1>6 DEF Starts
  <1> QED
    BY <1>1, <1>4, <1>6, <1>8, <1>9 DEF Good, Detached

\* Entering withCheckedThrowingContinuation.
LEMMA CallFields ==
    ASSUME NEW s \in LoopType, NEW o \in Ops
    PROVE  LET t == Call(s, o)
           IN  /\ t \in LoopType
               /\ t.active = s.active /\ t.resumed = s.resumed
               /\ t.retained = s.retained /\ t.pending = s.pending /\ t.rpc = s.rpc
               /\ \A p \in Ops : t.reply[p] = IF p = o THEN "waiting" ELSE s.reply[p]
  <1> DEFINE t == Call(s, o)
  <1>1. s.reply \in [Ops -> Results \cup {"idle", "waiting", "trap"}]
    BY DEF LoopType
  <1>2. Override(s.reply, o, "waiting") \in [Ops -> Results \cup {"idle", "waiting", "trap"}]
    BY <1>1 DEF Override
  <1>3. t \in LoopType
    BY <1>2 DEF Call, LoopType
  <1>4. t.active = s.active /\ t.pending = s.pending /\ t.rpc = s.rpc
    BY DEF Call, LoopType
  <1>5. t.resumed = s.resumed
    BY DEF Call, LoopType
  <1>6. t.retained = s.retained
    BY DEF Call, LoopType
  <1>7. t.reply = Override(s.reply, o, "waiting")
    BY DEF Call, LoopType
  <1> HIDE DEF t
  <1>8. \A p \in Ops : t.reply[p] = IF p = o THEN "waiting" ELSE s.reply[p]
    BY <1>1, <1>7 DEF Override
  <1> QED
    BY <1>3, <1>4, <1>5, <1>6, <1>8 DEF t

\* Refusing a call at the top of its block.
LEMMA RefuseGood ==
    ASSUME NEW s, Good(s), NEW o \in Idle(s), NEW r \in Results \ {"ok"}
    PROVE  LET t == Refuse(s, o, r)
           IN  /\ Good(t) /\ Starts(s, t, o) /\ Detached(t) = Detached(s)
               /\ Sent(t) = Sent(s) /\ t.active = s.active /\ t.pending = s.pending
  <1> DEFINE u == Call(s, o)
             t == ContinuationResume(u, {o}, r)
  <1>1. s \in LoopType /\ o \in Ops /\ {o} \in SUBSET Ops
    BY IdleFacts DEF Good
  <1>2. u \in LoopType
    BY <1>1, CallFields
  <1>3. u.active = s.active /\ u.pending = s.pending /\ u.rpc = s.rpc
    <2>1. u.active = s.active
      BY <1>1, CallFields
    <2>2. u.pending = s.pending /\ u.rpc = s.rpc
      BY <1>1, CallFields
    <2> QED
      BY <2>1, <2>2
  <1>4. u.resumed = s.resumed
    BY <1>1, CallFields
  <1>5. u.retained = s.retained
    BY <1>1, CallFields
  <1>6. \A p \in Ops : u.reply[p] = IF p = o THEN "waiting" ELSE s.reply[p]
    BY <1>1, CallFields
  <1> HIDE DEF u
  <1>7. t \in LoopType
    BY <1>1, <1>2, ContinuationResumeFields
  <1>8. t.active = u.active
    BY <1>1, <1>2, ContinuationResumeFields
  <1>9. t.resumed = u.resumed
    BY <1>1, <1>2, ContinuationResumeFields
  <1>10. t.retained = u.retained
    BY <1>2 DEF ContinuationResume, LoopType
  <1>11. t.pending = u.pending
    BY <1>2 DEF ContinuationResume, LoopType
  <1>12. t.rpc = u.rpc
    BY <1>2 DEF ContinuationResume, LoopType
  <1>13. \A p \in Ops : t.reply[p] = IF p \notin {o} THEN u.reply[p]
                                     ELSE IF u.reply[p] = "waiting" THEN r ELSE "trap"
    BY <1>1, <1>2, ContinuationResumeFields
  <1>14. t = Refuse(s, o, r)
    BY DEF Refuse, u
  <1> HIDE DEF t
  <1>15. \A p \in Ops : t.reply[p] = IF p = o THEN r ELSE s.reply[p]
    BY <1>6, <1>13
  <1>16. /\ Good(t) /\ Starts(s, t, o) /\ Detached(t) = Detached(s)
         /\ Sent(t) = Sent(s)
    BY <1>3, <1>4, <1>5, <1>7, <1>8, <1>9, <1>10, <1>11, <1>12, <1>15, TurnedAwayGood
  <1> QED
    BY <1>3, <1>8, <1>11, <1>14, <1>16

\* What registering a call leaves in each field.
LEMMA RegisterFields ==
    ASSUME NEW s \in LoopType, NEW o \in Ops
    PROVE  LET t == Register(s, o)
           IN  /\ t \in LoopType
               /\ t.active = s.active \cup {o} /\ t.resumed = s.resumed
               /\ t.retained = s.retained /\ t.pending = s.pending /\ t.rpc = s.rpc
               /\ \A p \in Ops : t.reply[p] = IF p = o THEN "waiting" ELSE s.reply[p]
  <1> DEFINE u == Call(s, o)
             t == [u EXCEPT !.active = @ \cup {o}]
  <1>1. u \in LoopType
    BY CallFields
  <1>2. u.active = s.active
    BY CallFields
  <1>3. u.pending = s.pending /\ u.rpc = s.rpc
    BY CallFields
  <1>4. u.resumed = s.resumed
    BY CallFields
  <1>5. u.retained = s.retained
    BY CallFields
  <1>6. \A p \in Ops : u.reply[p] = IF p = o THEN "waiting" ELSE s.reply[p]
    BY CallFields
  <1>7. t = Register(s, o)
    BY DEF Register
  <1> HIDE DEF u
  <1>8. t \in LoopType
    BY <1>1 DEF LoopType
  <1>9. t.active = u.active \cup {o}
    BY <1>1 DEF LoopType
  <1>10. t.pending = u.pending /\ t.rpc = u.rpc /\ t.reply = u.reply
    BY <1>1 DEF LoopType
  <1>11. t.resumed = u.resumed
    BY <1>1 DEF LoopType
  <1>12. t.retained = u.retained
    BY <1>1 DEF LoopType
  <1> HIDE DEF t
  <1>13. t.active = s.active \cup {o}
    BY <1>2, <1>9
  <1> QED
    BY <1>3, <1>4, <1>5, <1>6, <1>7, <1>8, <1>10, <1>11, <1>12, <1>13

\* A registered call waits and is active; it is still with nobody.
LEMMA RegisterGood ==
    ASSUME NEW s, Good(s), NEW o \in Idle(s)
    PROVE  LET t == Register(s, o)
           IN  /\ Good(t) /\ Starts(s, t, o) /\ Detached(t) = Detached(s)
               /\ o \in t.active /\ o \in Waiting(t) /\ t.rpc[o] = "none"
               /\ o \notin PendingSet(t) /\ Sent(t) = Sent(s) /\ t.pending = s.pending
  <1> DEFINE t == Register(s, o)
  <1>1. s \in LoopType /\ Consistent(s) /\ Len(s.pending) <= MaxPendingOperations
    BY DEF Good
  <1>2. /\ o \in Ops /\ s.reply[o] = "idle" /\ s.rpc[o] = "none"
        /\ o \notin Waiting(s) /\ o \notin s.active /\ o \notin s.resumed
        /\ o \notin Sent(s) /\ o \notin PendingSet(s)
    BY IdleFacts
  <1>3. t \in LoopType
    BY <1>1, <1>2, RegisterFields
  <1>4. t.active = s.active \cup {o}
    BY <1>1, <1>2, RegisterFields
  <1>5. t.pending = s.pending /\ t.rpc = s.rpc
    BY <1>1, <1>2, RegisterFields
  <1>6. t.resumed = s.resumed
    BY <1>1, <1>2, RegisterFields
  <1>7. t.retained = s.retained
    BY <1>1, <1>2, RegisterFields
  <1>8. \A p \in Ops : t.reply[p] = IF p = o THEN "waiting" ELSE s.reply[p]
    BY <1>1, <1>2, RegisterFields
  <1> HIDE DEF t
  <1>9. Waiting(t) = Waiting(s) \cup {o}
    BY <1>2, <1>8 DEF Waiting
  <1>10. Idle(t) \subseteq Idle(s)
    BY <1>2, <1>8 DEF Idle
  <1>11. Sent(t) = Sent(s) /\ PendingSet(t) = PendingSet(s)
    BY <1>5 DEF Sent, PendingSet, Taken
  <1>12. \A p \in Ops : t.reply[p] # "trap"
    BY <1>1, <1>8 DEF Consistent
  <1>13. Consistent(t)
    <2>1. t.active \subseteq Waiting(t) /\ Waiting(t) \cap t.resumed = {}
      BY <1>1, <1>2, <1>4, <1>6, <1>9 DEF Consistent
    <2>2. Idle(t) \cap t.resumed = {}
      BY <1>1, <1>6, <1>10 DEF Consistent
    <2>3. /\ Sent(t) \cup PendingSet(t) \subseteq Waiting(t) \cup t.resumed
          /\ Sent(t) \cup PendingSet(t) \subseteq t.retained
      BY <1>1, <1>6, <1>7, <1>9, <1>11 DEF Consistent
    <2>4. \A i, j \in 1 .. Len(t.pending) : i # j => t.pending[i] # t.pending[j]
      BY <1>1, <1>5 DEF Consistent
    <2>5. \A p \in PendingSet(t) \cup Idle(t) : t.rpc[p] = "none"
      BY <1>1, <1>5, <1>10, <1>11 DEF Consistent
    <2>6. \A p \in Ops : Told(t, p)
      BY <1>1, <1>5, <1>8, <1>11 DEF Consistent, Told
    <2> QED
      BY <1>12, <2>1, <2>2, <2>3, <2>4, <2>5, <2>6 DEF Consistent
  <1>14. Starts(s, t, o)
    BY <1>2, <1>5, <1>8, <1>11 DEF Starts
  <1>15. Detached(t) = Detached(s)
    BY <1>2, <1>4, <1>9 DEF Detached
  <1>16. Good(t)
    BY <1>1, <1>3, <1>5, <1>13 DEF Good
  <1>17. o \in t.active /\ o \in Waiting(t) /\ t.rpc[o] = "none" /\ o \notin PendingSet(t)
    BY <1>2, <1>4, <1>5, <1>9, <1>11
  <1> QED
    BY <1>5, <1>11, <1>14, <1>15, <1>16, <1>17 DEF t

\* A call that is registered and then turned away by libnfs or a full queue.
LEMMA RegisteredRefusedGood ==
    ASSUME NEW s, Good(s), NEW o \in Idle(s), NEW r \in Results \ {"ok"}
    PROVE  LET t == ContinuationResume([Register(s, o) EXCEPT !.active = @ \ {o}], {o}, r)
           IN  /\ Good(t) /\ Starts(s, t, o) /\ Detached(t) = Detached(s)
               /\ Sent(t) = Sent(s)
  <1> DEFINE v == Register(s, o)
             u == [v EXCEPT !.active = @ \ {o}]
             t == ContinuationResume(u, {o}, r)
  <1>1. s \in LoopType /\ o \in Ops /\ {o} \in SUBSET Ops /\ o \notin s.active
    BY IdleFacts DEF Good
  <1>2. v \in LoopType
    BY <1>1, RegisterFields
  <1>3. v.active = s.active \cup {o}
    BY <1>1, RegisterFields
  <1>4. v.pending = s.pending /\ v.rpc = s.rpc
    BY <1>1, RegisterFields
  <1>5. v.resumed = s.resumed
    BY <1>1, RegisterFields
  <1>6. v.retained = s.retained
    BY <1>1, RegisterFields
  <1>7. \A p \in Ops : v.reply[p] = IF p = o THEN "waiting" ELSE s.reply[p]
    BY <1>1, RegisterFields
  <1> HIDE DEF v
  <1>8. u \in LoopType
    BY <1>2 DEF LoopType
  <1>9. u.active = v.active \ {o}
    BY <1>2 DEF LoopType
  <1>10. u.pending = v.pending /\ u.rpc = v.rpc /\ u.reply = v.reply
    BY <1>2 DEF LoopType
  <1>11. u.resumed = v.resumed
    BY <1>2 DEF LoopType
  <1>12. u.retained = v.retained
    BY <1>2 DEF LoopType
  <1> HIDE DEF u
  <1>13. t \in LoopType
    BY <1>1, <1>8, ContinuationResumeFields
  <1>14. t.active = u.active
    BY <1>8 DEF ContinuationResume, LoopType
  <1>15. t.resumed = u.resumed
    BY <1>8 DEF ContinuationResume, LoopType
  <1>16. t.retained = u.retained
    BY <1>8 DEF ContinuationResume, LoopType
  <1>17. t.pending = u.pending
    BY <1>8 DEF ContinuationResume, LoopType
  <1>18. t.rpc = u.rpc
    BY <1>8 DEF ContinuationResume, LoopType
  <1>19. \A p \in Ops : t.reply[p] = IF p \notin {o} THEN u.reply[p]
                                     ELSE IF u.reply[p] = "waiting" THEN r ELSE "trap"
    BY <1>1, <1>8, ContinuationResumeFields
  <1> HIDE DEF t
  <1>20. \A p \in Ops : t.reply[p] = IF p = o THEN r ELSE s.reply[p]
    BY <1>7, <1>10, <1>19
  <1>21. t.active = s.active
    BY <1>1, <1>3, <1>9, <1>14
  <1>22. t.resumed = s.resumed /\ t.retained = s.retained
    BY <1>5, <1>6, <1>11, <1>12, <1>15, <1>16
  <1>23. t.pending = s.pending /\ t.rpc = s.rpc
    BY <1>4, <1>10, <1>17, <1>18
  <1>24. /\ Good(t) /\ Starts(s, t, o) /\ Detached(t) = Detached(s)
         /\ Sent(t) = Sent(s)
    BY <1>13, <1>20, <1>21, <1>22, <1>23, TurnedAwayGood
  <1> QED
    BY <1>24 DEF t, u, v

\* A call that libnfs or the pending queue takes: its CallbackData is retained.
LEMMA TakenUpGood ==
    ASSUME NEW s, Good(s), NEW o \in Idle(s), NEW t \in LoopType,
           t.active = s.active \cup {o}, t.resumed = s.resumed,
           t.retained = s.retained \cup {o},
           \A p \in Ops : t.reply[p] = IF p = o THEN "waiting" ELSE s.reply[p],
           \/ /\ t.pending = s.pending
              /\ \A p \in Ops : t.rpc[p] = IF p = o THEN "sent" ELSE s.rpc[p]
           \/ /\ t.pending = Append(s.pending, o)
              /\ t.rpc = s.rpc
              /\ Len(s.pending) < MaxPendingOperations
    PROVE  /\ Good(t) /\ Starts(s, t, o) /\ Detached(t) = Detached(s)
           /\ Sent(t) \subseteq Sent(s) \cup {o}
  <1>1. s \in LoopType /\ Consistent(s) /\ Len(s.pending) <= MaxPendingOperations
    BY DEF Good
  <1>2. /\ o \in Ops /\ s.reply[o] = "idle" /\ s.rpc[o] = "none"
        /\ o \notin Waiting(s) /\ o \notin s.active /\ o \notin s.resumed
        /\ o \notin Sent(s) /\ o \notin PendingSet(s)
    BY IdleFacts
  <1>3. Waiting(t) = Waiting(s) \cup {o}
    BY <1>2 DEF Waiting
  <1>4. Idle(t) \subseteq Idle(s) \ {o}
    BY <1>2 DEF Idle
  <1>5. /\ Len(t.pending) <= MaxPendingOperations
        /\ \A i, j \in 1 .. Len(t.pending) : i # j => t.pending[i] # t.pending[j]
        /\ PendingSet(t) \subseteq PendingSet(s) \cup {o}
    <2>1. CASE t.pending = s.pending
      BY <1>1, <2>1 DEF PendingSet, Taken, Consistent
    <2>2. CASE t.pending = Append(s.pending, o) /\ Len(s.pending) < MaxPendingOperations
      <3>1. s.pending \in Seq(SubmitOps) /\ MaxPendingOperations \in Nat
        BY <1>1, LoopAssumption DEF LoopType
      <3>2. /\ Len(s.pending) \in Nat
            /\ Len(t.pending) = Len(s.pending) + 1
            /\ t.pending[Len(s.pending) + 1] = o
            /\ \A i \in 1 .. Len(s.pending) : t.pending[i] = s.pending[i]
        BY <2>2, <3>1
      <3>3. \A i \in 1 .. Len(s.pending) : s.pending[i] # o
        BY <1>2 DEF PendingSet, Taken
      <3>4. Len(t.pending) <= MaxPendingOperations
        BY <2>2, <3>1, <3>2
      <3>5. PendingSet(t) \subseteq PendingSet(s) \cup {o}
        <4>1. ASSUME NEW i \in 1 .. Len(t.pending)
              PROVE  t.pending[i] \in PendingSet(s) \cup {o}
          <5>1. i \in 1 .. Len(s.pending) \/ i = Len(s.pending) + 1
            BY <3>2
          <5> QED
            BY <3>2, <5>1 DEF PendingSet, Taken
        <4> QED
          BY <4>1 DEF PendingSet, Taken
      <3>6. ASSUME NEW i \in 1 .. Len(t.pending), NEW j \in 1 .. Len(t.pending), i # j
            PROVE  t.pending[i] # t.pending[j]
        <4>1. i \in 1 .. Len(s.pending) \/ i = Len(s.pending) + 1
          BY <3>2
        <4>2. j \in 1 .. Len(s.pending) \/ j = Len(s.pending) + 1
          BY <3>2
        <4>3. CASE i \in 1 .. Len(s.pending) /\ j \in 1 .. Len(s.pending)
          BY <1>1, <3>2, <3>6, <4>3 DEF Consistent
        <4> QED
          BY <3>2, <3>3, <3>6, <4>1, <4>2, <4>3
      <3> QED
        BY <3>4, <3>5, <3>6
    <2> QED
      BY <2>1, <2>2
  <1>6. Sent(t) \subseteq Sent(s) \cup {o}
    BY DEF Sent
  <1>7. PendingSet(s) \subseteq Ops
    BY <1>1, PendingFacts, OpsFacts
  <1>8. \A p \in PendingSet(t) \cup Idle(t) : t.rpc[p] = "none"
    <2>1. CASE t.pending = s.pending /\ \A p \in Ops : t.rpc[p] = IF p = o THEN "sent" ELSE s.rpc[p]
      <3>1. PendingSet(t) = PendingSet(s)
        BY <2>1 DEF PendingSet, Taken
      <3>2. \A p \in PendingSet(t) \cup Idle(t) : p \in Ops /\ p # o /\ s.rpc[p] = "none"
        BY <1>1, <1>2, <1>4, <1>7, <3>1 DEF Consistent, Idle
      <3> QED
        BY <2>1, <3>2
    <2>2. CASE t.rpc = s.rpc
      BY <1>1, <1>2, <1>4, <1>5, <2>2 DEF Consistent
    <2> QED
      BY <2>1, <2>2
  <1>9. \A p \in Ops : t.reply[p] # "trap"
    BY <1>1 DEF Consistent
  <1>10. Consistent(t)
    <2>1. t.active \subseteq Waiting(t) /\ Waiting(t) \cap t.resumed = {}
      BY <1>1, <1>2, <1>3 DEF Consistent
    <2>2. Idle(t) \cap t.resumed = {}
      BY <1>1, <1>4 DEF Consistent
    <2>3. Sent(t) \cup PendingSet(t) \subseteq Sent(s) \cup PendingSet(s) \cup {o}
      BY <1>5, <1>6
    <2>4. Sent(t) \cup PendingSet(t) \subseteq Waiting(t) \cup t.resumed
      BY <1>1, <1>3, <2>3 DEF Consistent
    <2>5. Sent(t) \cup PendingSet(t) \subseteq t.retained
      BY <1>1, <2>3 DEF Consistent
    <2>6. ASSUME NEW p \in Ops, p # o
          PROVE  Told(t, p)
      <3>1. Told(s, p) /\ t.reply[p] = s.reply[p] /\ t.rpc[p] = s.rpc[p]
        BY <1>1, <2>6 DEF Consistent
      <3> QED
        BY <1>5, <1>6, <2>6, <3>1 DEF Told
    <2>7. Told(t, o)
      BY <1>2 DEF Told
    <2> QED
      BY <1>5, <1>8, <1>9, <2>1, <2>2, <2>4, <2>5, <2>6, <2>7 DEF Consistent
  <1>11. \A p \in Ops : s.rpc[p] \in {"done", "dropped"} => t.rpc[p] = s.rpc[p]
    BY <1>2
  <1>12. Starts(s, t, o)
    BY <1>2, <1>5, <1>6, <1>11 DEF Starts
  <1>13. Detached(t) = Detached(s)
    BY <1>2, <1>3 DEF Detached
  <1> QED
    BY <1>5, <1>6, <1>10, <1>12, <1>13 DEF Good

\* libnfs accepts the request of a call that has just been registered.
LEMMA AcceptGood ==
    ASSUME NEW s, Good(s), NEW o \in Idle(s)
    PROVE  LET t == Accept(Register(s, o), o)
           IN  /\ Good(t) /\ Starts(s, t, o) /\ Detached(t) = Detached(s)
               /\ Sent(t) \subseteq Sent(s) \cup {o} /\ o \in Sent(t)
  <1> DEFINE v == Register(s, o)
             t == Accept(v, o)
  <1>1. s \in LoopType /\ o \in Ops
    BY IdleFacts DEF Good
  <1>2. v \in LoopType
    BY <1>1, RegisterFields
  <1>3. v.active = s.active \cup {o}
    BY <1>1, RegisterFields
  <1>4. v.pending = s.pending /\ v.rpc = s.rpc
    BY <1>1, RegisterFields
  <1>5. v.resumed = s.resumed
    BY <1>1, RegisterFields
  <1>6. v.retained = s.retained
    BY <1>1, RegisterFields
  <1>7. \A p \in Ops : v.reply[p] = IF p = o THEN "waiting" ELSE s.reply[p]
    BY <1>1, RegisterFields
  <1> HIDE DEF v
  <1>8. v.rpc \in [Ops -> {"none", "sent", "done", "dropped"}]
    BY <1>2 DEF LoopType
  <1>9. Override(v.rpc, o, "sent") \in [Ops -> {"none", "sent", "done", "dropped"}]
    BY <1>8 DEF Override
  <1>10. t \in LoopType
    BY <1>1, <1>2, <1>9 DEF Accept, LoopType
  <1>11. t.active = v.active
    BY <1>2 DEF Accept, LoopType
  <1>12. t.pending = v.pending /\ t.reply = v.reply
    BY <1>2 DEF Accept, LoopType
  <1>13. t.resumed = v.resumed
    BY <1>2 DEF Accept, LoopType
  <1>14. t.retained = v.retained \cup {o}
    BY <1>2 DEF Accept, LoopType
  <1>15. t.rpc = Override(v.rpc, o, "sent")
    BY <1>2 DEF Accept, LoopType
  <1> HIDE DEF t
  <1>16. \A p \in Ops : t.rpc[p] = IF p = o THEN "sent" ELSE s.rpc[p]
    BY <1>4, <1>8, <1>15 DEF Override
  <1>17. t.active = s.active \cup {o} /\ t.resumed = s.resumed
    BY <1>3, <1>5, <1>11, <1>13
  <1>18. t.retained = s.retained \cup {o} /\ t.pending = s.pending
    BY <1>4, <1>6, <1>12, <1>14
  <1>19. \A p \in Ops : t.reply[p] = IF p = o THEN "waiting" ELSE s.reply[p]
    BY <1>7, <1>12
  <1>20. /\ Good(t) /\ Starts(s, t, o) /\ Detached(t) = Detached(s)
         /\ Sent(t) \subseteq Sent(s) \cup {o}
    BY <1>10, <1>16, <1>17, <1>18, <1>19, TakenUpGood
  <1>21. o \in Sent(t)
    BY <1>1, <1>16 DEF Sent
  <1> QED
    BY <1>20, <1>21 DEF t, v

\* A call that has just been registered is queued.
LEMMA EnqueueGood ==
    ASSUME NEW s, Good(s), NEW o \in Idle(s), o \in SubmitOps,
           Len(s.pending) < MaxPendingOperations
    PROVE  LET v == Register(s, o)
               t == [v EXCEPT !.retained = @ \cup {o}, !.pending = Append(@, o)]
           IN  /\ Good(t) /\ Starts(s, t, o) /\ Detached(t) = Detached(s)
               /\ Sent(t) \subseteq Sent(s) \cup {o}
  <1> DEFINE v == Register(s, o)
             t == [v EXCEPT !.retained = @ \cup {o}, !.pending = Append(@, o)]
  <1>1. s \in LoopType /\ o \in Ops
    BY IdleFacts DEF Good
  <1>2. v \in LoopType
    BY <1>1, RegisterFields
  <1>3. v.active = s.active \cup {o}
    BY <1>1, RegisterFields
  <1>4. v.pending = s.pending /\ v.rpc = s.rpc
    BY <1>1, RegisterFields
  <1>5. v.resumed = s.resumed
    BY <1>1, RegisterFields
  <1>6. v.retained = s.retained
    BY <1>1, RegisterFields
  <1>7. \A p \in Ops : v.reply[p] = IF p = o THEN "waiting" ELSE s.reply[p]
    BY <1>1, RegisterFields
  <1> HIDE DEF v
  <1>8. v.pending \in Seq(SubmitOps)
    BY <1>2 DEF LoopType
  <1>9. Append(v.pending, o) \in Seq(SubmitOps)
    BY <1>8
  <1>10. t \in LoopType
    BY <1>1, <1>2, <1>9 DEF LoopType
  <1>11. t.active = v.active
    BY <1>2 DEF LoopType
  <1>12. t.pending = Append(v.pending, o) /\ t.reply = v.reply /\ t.rpc = v.rpc
    BY <1>2 DEF LoopType
  <1>13. t.resumed = v.resumed
    BY <1>2 DEF LoopType
  <1>14. t.retained = v.retained \cup {o}
    BY <1>2 DEF LoopType
  <1> HIDE DEF t
  <1>15. t.active = s.active \cup {o} /\ t.resumed = s.resumed
    BY <1>3, <1>5, <1>11, <1>13
  <1>16. t.retained = s.retained \cup {o}
    BY <1>6, <1>14
  <1>17. t.pending = Append(s.pending, o) /\ t.rpc = s.rpc
    BY <1>4, <1>12
  <1>18. \A p \in Ops : t.reply[p] = IF p = o THEN "waiting" ELSE s.reply[p]
    BY <1>7, <1>12
  <1>19. /\ Good(t) /\ Starts(s, t, o) /\ Detached(t) = Detached(s)
         /\ Sent(t) \subseteq Sent(s) \cup {o}
    BY <1>10, <1>15, <1>16, <1>17, <1>18, TakenUpGood
  <1> QED
    BY <1>19 DEF t, v

\* issueOperation on a call that has just been registered.
LEMMA IssueOperationGood ==
    ASSUME NEW s, Good(s), Detached(s) = {}, NEW o \in Idle(s),
           NEW t \in IssueOperation(Register(s, o), o)
    PROVE  /\ Good(t) /\ Starts(s, t, o) /\ Detached(t) = {}
           /\ Sent(t) \subseteq Sent(s) \cup PendingSet(s) \cup {o}
  <1> DEFINE v == Register(s, o)
  <1>1. o \in Ops /\ {o} \in SUBSET Ops
    BY IdleFacts
  <1>2. CASE t = AddInFlight(Accept(v, o), Category(o), 1)
    <2> DEFINE a == Accept(v, o)
    <2>1. Good(a) /\ Starts(s, a, o) /\ Detached(a) = Detached(s)
      BY AcceptGood
    <2> HIDE DEF a
    <2>2. a \in LoopType /\ Category(o) \in Categories /\ 1 \in Nat
      BY <2>1, CategoryType DEF Good
    <2>3. t \in LoopType /\ SameCalls(a, t)
      BY <1>2, <2>2, AddInFlightFields DEF a
    <2>4. Good(t) /\ Follows(a, t) /\ Detached(t) = Detached(a)
      BY <2>1, <2>3, SameCallsGood
    <2>5. Starts(s, t, o)
      BY <1>1, <2>1, <2>4, StartsFollows
    <2> QED
      BY <2>1, <2>4, <2>5 DEF Starts
  <1>3. CASE t = Resume([v EXCEPT !.active = @ \ {o}], {o}, "error")
    <2> DEFINE d == [v EXCEPT !.active = @ \ {o}]
    <2>1. /\ Good(v) /\ Starts(s, v, o) /\ Detached(v) = {} /\ o \in Waiting(v)
          /\ v.rpc[o] = "none" /\ o \notin PendingSet(v)
      BY RegisterGood
    <2> HIDE DEF v
    <2>2. Good(d) /\ Follows(v, d) /\ Detached(d) \subseteq {o}
      BY <2>1, DetachGood
    <2>3. d.active = v.active \ {o}
      BY <2>1, DetachGood
    <2> HIDE DEF d
    <2>4. {o} \cap d.active = {} /\ {o} \subseteq Waiting(d) \cup d.resumed /\ "error" \in Results
      BY <2>1, <2>2, <2>3 DEF Follows, Results
    <2>7. MayTell(d, {o}, "error")
      <3>1. o \notin Sent(v) /\ o \notin PendingSet(v)
        BY <2>1 DEF Sent
      <3> QED
        BY <2>2, <3>1 DEF Follows, MayTell
    <2>5. Good(t) /\ Follows(d, t) /\ Detached(t) = Detached(d) \ {o}
      BY <1>1, <1>3, <2>2, <2>4, <2>7, ResumeGood DEF d, v
    <2>6. Starts(s, t, o)
      BY <1>1, <2>1, <2>2, <2>5, StartsFollows
    <2> QED
      BY <2>2, <2>5, <2>6 DEF Starts
  <1> QED
    BY <1>2, <1>3 DEF IssueOperation

-----------------------------------------------------------------------------
(* The blocks that run on the queue.                                        *)

\* What any block does to the calls: it starts at most one, and returns
\* results to calls that wait.
Transition ==
    \/ Follows(loop, loop')
    \/ \E o \in Idle(loop) : Starts(loop, loop', o)

\* The invariant, in the form the handlers work with.
LEMMA InvParts ==
    ASSUME Inv
    PROVE  /\ Good(loop) /\ Detached(loop) = {}
           /\ loop \in LoopType /\ rpcExports \subseteq ExportOps
           /\ \A d, e \in rpcExports : d = e
           /\ Sent(loop) \cap ExportOps \subseteq rpcExports
           /\ PendingSet(loop) \cap ExportOps = {}
  <1>1. Good(loop) /\ Detached(loop) = {} /\ rpcExports \subseteq ExportOps
    BY DEF Inv, TypeOK, Good
  <1>2. /\ \A d, e \in rpcExports : d = e
        /\ Sent(loop) \cap ExportOps \subseteq rpcExports
    BY DEF Inv, ExportsExclusive
  <1>3. loop \in LoopType
    BY DEF Inv, TypeOK
  <1>4. PendingSet(loop) \cap ExportOps = {}
    BY <1>3, PendingFacts, OpsFacts
  <1> QED
    BY <1>1, <1>2, <1>3, <1>4

\* Such a block keeps the record's part of the invariant; the lifecycle part is
\* left to show.
LEMMA InvNext ==
    ASSUME Inv, Good(loop'), Detached(loop') = {}, AgeOrder,
           context' \in BOOLEAN, timeoutTimer' \in BOOLEAN, readSource' \in BOOLEAN,
           exportsSource' \in BOOLEAN, rpcExports' \in SUBSET ExportOps,
           process' \in {"live", "freed", "trapped"},
           ClosedIsQuiet', ExportsExclusive'
    PROVE  Inv'
  <1>1. loop \in LoopType /\ startedBefore \in SUBSET (Ops \X Ops)
    BY DEF Inv, TypeOK
  <1>2. loop' \in LoopType /\ Len(loop'.pending) <= MaxPendingOperations /\ Consistent(loop')
    BY DEF Good
  <1>3. loop.active \subseteq Ops /\ loop'.active \subseteq Ops
    BY <1>1, <1>2 DEF LoopType
  <1>4. startedBefore' \in SUBSET (Ops \X Ops)
    BY <1>1, <1>3 DEF AgeOrder
  <1>5. TypeOK'
    BY <1>2, <1>4 DEF TypeOK
  <1>6. Consistent(loop)' /\ (Detached(loop) = {})'
    BY <1>2
  <1> QED
    BY <1>5, <1>6 DEF Inv

\* A block that leaves the lifecycle alone, while the context is there.
LEMMA OpenStep ==
    ASSUME Inv, context, UNCHANGED lifecycle, AgeOrder,
           Good(loop'), Detached(loop') = {},
           Sent(loop') \cap ExportOps \subseteq Sent(loop)
    PROVE  Inv'
  <1>1. /\ context' \in BOOLEAN /\ timeoutTimer' \in BOOLEAN /\ readSource' \in BOOLEAN
        /\ exportsSource' \in BOOLEAN /\ rpcExports' \in SUBSET ExportOps
        /\ process' \in {"live", "freed", "trapped"} /\ context' /\ rpcExports' = rpcExports
    BY DEF Inv, TypeOK, lifecycle
  <1>2. ClosedIsQuiet'
    BY <1>1 DEF ClosedIsQuiet
  <1>3. ExportsExclusive'
    BY <1>1, InvParts DEF ExportsExclusive
  <1> QED
    BY <1>1, <1>2, <1>3, InvNext

\* A block that turns its caller away at the top.
LEMMA RefuseStep ==
    ASSUME Inv, NEW o \in Idle(loop), NEW r \in Results \ {"ok"}, loop' = Refuse(loop, o, r),
           UNCHANGED lifecycle, AgeOrder
    PROVE  Inv' /\ Transition
  <1>1. Good(loop) /\ Detached(loop) = {}
    BY InvParts
  <1>2. /\ Good(loop') /\ Starts(loop, loop', o) /\ Detached(loop') = {}
        /\ Sent(loop') = Sent(loop)
    BY <1>1, RefuseGood
  <1>3. loop'.active = loop.active
    BY <1>1, RefuseGood
  <1>4. loop'.pending = loop.pending
    BY <1>1, RefuseGood
  <1>5. /\ context' \in BOOLEAN /\ timeoutTimer' \in BOOLEAN /\ readSource' \in BOOLEAN
        /\ exportsSource' \in BOOLEAN /\ rpcExports' \in SUBSET ExportOps
        /\ process' \in {"live", "freed", "trapped"}
        /\ context' = context /\ rpcExports' = rpcExports
    BY DEF Inv, TypeOK, lifecycle
  <1>6. ClosedIsQuiet'
    BY <1>2, <1>3, <1>4, <1>5 DEF Inv, ClosedIsQuiet
  <1>7. ExportsExclusive'
    BY <1>2, <1>5 DEF Inv, ExportsExclusive
  <1>8. Inv'
    BY <1>2, <1>5, <1>6, <1>7, InvNext
  <1> QED
    BY <1>2, <1>8 DEF Transition

\* submit().
LEMMA SubmitStep ==
    ASSUME Inv, NEW o \in SubmitOps, Submit(o)
    PROVE  Inv' /\ Transition
  <1>1. o \in Idle(loop)
    BY OpsFacts DEF Submit, Called, Idle
  <1>2. Good(loop) /\ Detached(loop) = {} /\ PendingSet(loop) \cap ExportOps = {}
    BY InvParts
  <1>3. UNCHANGED lifecycle /\ AgeOrder /\ o \notin ExportOps
    BY OpsFacts DEF Submit
  <1>4. CASE loop' = Refuse(loop, o, "ENOTCONN")
    BY <1>1, <1>3, <1>4, RefuseStep DEF Results
  <1>5. CASE context /\ loop' \in IssueOperation(Register(loop, o), o)
    <2>1. /\ Good(loop') /\ Starts(loop, loop', o) /\ Detached(loop') = {}
          /\ Sent(loop') \subseteq Sent(loop) \cup PendingSet(loop) \cup {o}
      BY <1>1, <1>2, <1>5, IssueOperationGood
    <2> QED
      BY <1>1, <1>2, <1>3, <1>5, <2>1, OpenStep DEF Transition
  <1>6. CASE /\ context
             /\ loop' = ContinuationResume([Register(loop, o) EXCEPT !.active = @ \ {o}],
                                           {o}, "ENOBUFS")
    <2>1. /\ Good(loop') /\ Starts(loop, loop', o) /\ Detached(loop') = {}
          /\ Sent(loop') = Sent(loop)
      BY <1>1, <1>2, <1>6, RegisteredRefusedGood DEF Results
    <2> QED
      BY <1>1, <1>2, <1>3, <1>6, <2>1, OpenStep DEF Transition
  <1>7. CASE /\ context
             /\ Len(loop.pending) < MaxPendingOperations
             /\ loop' = [Register(loop, o) EXCEPT !.retained = @ \cup {o},
                                                  !.pending = Append(@, o)]
    <2>1. /\ Good(loop') /\ Starts(loop, loop', o) /\ Detached(loop') = {}
          /\ Sent(loop') \subseteq Sent(loop) \cup {o}
      BY <1>1, <1>2, <1>7, EnqueueGood
    <2> QED
      BY <1>1, <1>2, <1>3, <1>7, <2>1, OpenStep DEF Transition
  <1> QED
    BY <1>4, <1>5, <1>6, <1>7 DEF Submit

\* The operations on open handles.
LEMMA HandleOpStep ==
    ASSUME Inv, NEW o \in BulkOps \cup HandleOps,
           HandleOpRefused(o) \/ HandleOp(o) \/ HandleOpAnsweredInline(o)
    PROVE  Inv' /\ Transition
  <1>1. o \in Idle(loop) /\ o \in Ops
    BY OpsFacts DEF HandleOpRefused, HandleOp, HandleOpAnsweredInline, Called, Idle
  <1>2. Good(loop) /\ Detached(loop) = {} /\ PendingSet(loop) \cap ExportOps = {}
    BY InvParts
  <1>3. UNCHANGED lifecycle /\ AgeOrder /\ o \notin ExportOps
    BY OpsFacts DEF HandleOpRefused, HandleOp, HandleOpAnsweredInline
  <1>4. CASE HandleOpRefused(o)
    BY <1>1, <1>3, <1>4, RefuseStep DEF HandleOpRefused, Results
  <1> DEFINE a == Accept(Register(loop, o), o)
  <1>5. /\ Good(a) /\ Starts(loop, a, o) /\ Detached(a) = {}
        /\ Sent(a) \subseteq Sent(loop) \cup {o} /\ o \in Sent(a)
    BY <1>1, <1>2, AcceptGood
  <1>6. CASE HandleOp(o)
    <2>1. CASE loop' = ContinuationResume([Register(loop, o) EXCEPT !.active = @ \ {o}],
                                          {o}, "error")
      <3>1. /\ Good(loop') /\ Starts(loop, loop', o) /\ Detached(loop') = {}
            /\ Sent(loop') = Sent(loop)
        BY <1>1, <1>2, <2>1, RegisteredRefusedGood DEF Results
      <3> QED
        BY <1>1, <1>3, <1>6, <3>1, OpenStep DEF Transition, HandleOp
    <2>2. CASE loop' = AddInFlight(a, Category(o), 1)
      <3>1. loop' \in IssueOperation(Register(loop, o), o)
        BY <2>2 DEF IssueOperation
      <3>2. /\ Good(loop') /\ Starts(loop, loop', o) /\ Detached(loop') = {}
            /\ Sent(loop') \subseteq Sent(loop) \cup PendingSet(loop) \cup {o}
        BY <1>1, <1>2, <3>1, IssueOperationGood
      <3> QED
        BY <1>1, <1>2, <1>3, <1>6, <3>2, OpenStep DEF Transition, HandleOp
    <2> QED
      BY <1>6, <2>1, <2>2 DEF HandleOp
  <1>7. CASE HandleOpAnsweredInline(o)
    <2>1. PICK t \in Answer(a, o, TRUE) : loop' = AddInFlight(t, Category(o), 1)
      BY <1>7 DEF HandleOpAnsweredInline
    <2> HIDE DEF a
    <2>2. ASSUME NEW hasContext, t \in Answer(a, o, hasContext)
          PROVE  Good(t) /\ Follows(a, t) /\ Detached(t) \subseteq Detached(a)
      BY <1>5, <2>2, AnswerGood
    <2>3. Good(t) /\ Follows(a, t) /\ Detached(t) = {}
      BY <1>5, <2>1, <2>2
    <2>4. t \in LoopType /\ Category(o) \in Categories /\ 1 \in Nat
      BY <2>3, CategoryType DEF Good
    <2>5. loop' \in LoopType /\ SameCalls(t, loop')
      BY <2>1, <2>4, AddInFlightFields
    <2>6. Good(loop') /\ Follows(t, loop') /\ Detached(loop') = {}
      BY <2>3, <2>5, SameCallsGood
    <2>7. Starts(loop, t, o)
      BY <1>1, <1>5, <2>3, StartsFollows
    <2>8. Starts(loop, loop', o)
      BY <1>1, <2>6, <2>7, StartsFollows
    <2>9. Sent(loop') \cap ExportOps \subseteq Sent(loop)
      BY <1>2, <1>3, <2>8 DEF Starts
    <2> QED
      BY <1>1, <1>3, <1>7, <2>6, <2>8, <2>9, OpenStep DEF Transition, HandleOpAnsweredInline
  <1> QED
    BY <1>4, <1>6, <1>7

\* mount().
LEMMA MountStep ==
    ASSUME Inv, NEW o \in MountOps, Mount(o)
    PROVE  Inv' /\ Transition
  <1>1. o \in Idle(loop) /\ o \in Ops /\ o \notin ExportOps
    BY OpsFacts DEF Mount, Called, Idle
  <1>2. /\ Good(loop) /\ Detached(loop) = {} /\ PendingSet(loop) \cap ExportOps = {}
        /\ Sent(loop) \cap ExportOps \subseteq rpcExports
    BY InvParts
  <1>3. CASE /\ loop' = Refuse(loop, o, "ENOTCONN") \/ loop' = Refuse(loop, o, "error")
             /\ UNCHANGED <<timeoutTimer, readSource>>
    <2>1. UNCHANGED lifecycle /\ AgeOrder
      BY <1>3 DEF Mount, lifecycle
    <2> QED
      BY <1>1, <1>3, <2>1, RefuseStep DEF Results
  <1>4. CASE /\ context
             /\ loop' = Accept(Register(loop, o), o)
             /\ \E hasFd \in BOOLEAN : readSource' = (readSource \/ hasFd)
             /\ timeoutTimer' = (timeoutTimer \/ TimeoutEnabled)
    <2>1. /\ Good(loop') /\ Starts(loop, loop', o) /\ Detached(loop') = {}
          /\ Sent(loop') \subseteq Sent(loop) \cup {o}
      BY <1>1, <1>2, <1>4, AcceptGood
    <2>2. /\ context' \in BOOLEAN /\ exportsSource' \in BOOLEAN
          /\ rpcExports' \in SUBSET ExportOps /\ process' \in {"live", "freed", "trapped"}
          /\ context' = context /\ rpcExports' = rpcExports /\ AgeOrder
      BY DEF Inv, TypeOK, Mount
    <2>3. readSource' \in BOOLEAN /\ timeoutTimer' \in BOOLEAN
      BY <1>4 DEF Inv, TypeOK
    <2>4. ClosedIsQuiet'
      BY <1>4, <2>2 DEF ClosedIsQuiet
    <2>5. ExportsExclusive'
      BY <1>1, <2>1, <2>2, InvParts DEF ExportsExclusive
    <2>6. Inv'
      BY <2>1, <2>2, <2>3, <2>4, <2>5, InvNext
    <2> QED
      BY <1>1, <2>1, <2>6 DEF Transition
  <1> QED
    BY <1>3, <1>4 DEF Mount

\* getexports().
LEMMA GetExportsStep ==
    ASSUME Inv, NEW o \in ExportOps, GetExports(o)
    PROVE  Inv' /\ Transition
  <1>1. o \in Idle(loop) /\ o \in Ops
    BY OpsFacts DEF GetExports, Called, Idle
  <1>2. Good(loop) /\ Detached(loop) = {} /\ Sent(loop) \cap ExportOps \subseteq rpcExports
    BY InvParts
  <1>3. CASE /\ \/ loop' = Refuse(loop, o, "ENOTCONN")
                \/ loop' = Refuse(loop, o, "EBUSY")
                \/ loop' = Refuse(loop, o, "error")
             /\ UNCHANGED <<timeoutTimer, rpcExports, exportsSource>>
    <2>1. UNCHANGED lifecycle /\ AgeOrder
      BY <1>3 DEF GetExports, lifecycle
    <2> QED
      BY <1>1, <1>3, <2>1, RefuseStep DEF Results
  <1>4. CASE /\ context
             /\ rpcExports = {}
             /\ loop' = Accept(Register(loop, o), o)
             /\ rpcExports' = {o}
             /\ exportsSource' \in BOOLEAN
             /\ timeoutTimer' = (timeoutTimer \/ TimeoutEnabled)
    <2>1. /\ Good(loop') /\ Starts(loop, loop', o) /\ Detached(loop') = {}
          /\ Sent(loop') \subseteq Sent(loop) \cup {o}
      BY <1>1, <1>2, <1>4, AcceptGood
    <2>2. /\ context' \in BOOLEAN /\ readSource' \in BOOLEAN
          /\ process' \in {"live", "freed", "trapped"}
          /\ context' = context /\ AgeOrder
      BY DEF Inv, TypeOK, GetExports
    <2>3. exportsSource' \in BOOLEAN /\ timeoutTimer' \in BOOLEAN
      BY <1>4 DEF Inv, TypeOK
    <2>4. ClosedIsQuiet'
      BY <1>4, <2>2 DEF ClosedIsQuiet
    <2>5. ExportsExclusive'
      BY <1>2, <1>4, <2>1 DEF ExportsExclusive
    <2>6. rpcExports' \in SUBSET ExportOps
      BY <1>4
    <2>7. Inv'
      BY <2>1, <2>2, <2>3, <2>4, <2>5, <2>6, InvNext
    <2> QED
      BY <1>1, <2>1, <2>7 DEF Transition
  <1> QED
    BY <1>3, <1>4 DEF GetExports

\* handleIOEvent, with an answer or without.
LEMMA HandleIOEventStep ==
    ASSUME Inv, (\E o \in NfsOps : HandleIOEvent(o)) \/ HandleIOEventIdle
    PROVE  Inv' /\ Transition
  <1>1. /\ Good(loop) /\ Detached(loop) = {} /\ loop \in LoopType
        /\ PendingSet(loop) \cap ExportOps = {}
    BY InvParts
  <1>2. context /\ UNCHANGED lifecycle /\ AgeOrder
    BY DEF HandleIOEvent, HandleIOEventIdle
  <1>3. ASSUME NEW s, Good(s), Follows(loop, s), Detached(s) = {},
               NEW hasContext, loop' \in IssuePendingOperations(s, hasContext)
        PROVE  Good(loop') /\ Follows(loop, loop') /\ Detached(loop') = {}
    <2>1. Good(loop') /\ Follows(s, loop') /\ Detached(loop') \subseteq Detached(s)
      BY <1>3, IssuePendingGood
    <2>2. Follows(loop, loop')
      BY <1>1, <1>3, <2>1, FollowsTransitive DEF Good
    <2> QED
      BY <1>3, <2>1, <2>2
  <1>4. Good(loop') /\ Follows(loop, loop') /\ Detached(loop') = {}
    <2>1. CASE \E o \in NfsOps : HandleIOEvent(o)
      <3>1. PICK o \in NfsOps : HandleIOEvent(o)
        BY <2>1
      <3>2. PICK s \in Answer(loop, o, TRUE) : loop' \in IssuePendingOperations(s, TRUE)
        BY <3>1 DEF HandleIOEvent
      <3>3. o \in Sent(loop)
        BY <3>1 DEF HandleIOEvent
      <3>4. ASSUME NEW hasContext, s \in Answer(loop, o, hasContext)
            PROVE  Good(s) /\ Follows(loop, s) /\ Detached(s) = {}
        BY <1>1, <3>3, <3>4, AnswerGood
      <3>5. Good(s) /\ Follows(loop, s) /\ Detached(s) = {}
        BY <3>2, <3>4
      <3> QED
        BY <1>3, <3>2, <3>5
    <2>2. CASE HandleIOEventIdle
      <3>1. SameCalls(loop, loop)
        BY DEF SameCalls
      <3>2. Follows(loop, loop)
        BY <1>1, <3>1, SameCallsGood
      <3>3. loop' \in IssuePendingOperations(loop, TRUE)
        BY <2>2 DEF HandleIOEventIdle
      <3> QED
        BY <1>1, <1>3, <3>2, <3>3
    <2> QED
      BY <2>1, <2>2
  <1>5. Sent(loop') \cap ExportOps \subseteq Sent(loop)
    BY <1>1, <1>4 DEF Follows
  <1> QED
    BY <1>2, <1>4, <1>5, OpenStep DEF Transition

\* shutdownWithError.
LEMMA ShutdownWithErrorStep ==
    ASSUME Inv, ShutdownWithError
    PROVE  Inv' /\ Transition
  <1>1. /\ Good(loop) /\ Detached(loop) = {} /\ loop \in LoopType
        /\ PendingSet(loop) \cap ExportOps = {}
    BY InvParts
  <1>2. /\ Good(loop') /\ Follows(loop, loop') /\ Detached(loop') = {}
        /\ loop'.active = {} /\ loop'.pending = <<>> /\ Sent(loop') \cap NfsOps = {}
    BY <1>1, TearDownGood DEF ShutdownWithError
  <1>3. Sent(loop') \cap ExportOps \subseteq Sent(loop)
    BY <1>1, <1>2 DEF Follows
  <1>4. /\ context' \in BOOLEAN /\ timeoutTimer' \in BOOLEAN /\ readSource' \in BOOLEAN
        /\ exportsSource' \in BOOLEAN /\ rpcExports' \in SUBSET ExportOps
        /\ process' \in {"live", "freed", "trapped"} /\ rpcExports' = rpcExports /\ AgeOrder
    BY DEF Inv, TypeOK, ShutdownWithError
  <1>5. ClosedIsQuiet'
    BY <1>2 DEF ClosedIsQuiet
  <1>6. ExportsExclusive'
    BY <1>3, <1>4, InvParts DEF ExportsExclusive
  <1>7. Inv'
    BY <1>2, <1>4, <1>5, <1>6, InvNext
  <1> QED
    BY <1>2, <1>7 DEF Transition

\* handleRpcExportsEvent.
LEMMA HandleRpcExportsEventStep ==
    ASSUME Inv, NEW e \in ExportOps, HandleRpcExportsEvent(e)
    PROVE  Inv' /\ Transition
  <1>1. /\ Good(loop) /\ Detached(loop) = {} /\ loop \in LoopType
        /\ \A d, f \in rpcExports : d = f
        /\ Sent(loop) \cap ExportOps \subseteq rpcExports
        /\ PendingSet(loop) \cap ExportOps = {}
    BY InvParts
  <1>2. /\ Good(loop') /\ Follows(loop, loop') /\ Detached(loop') = {}
        /\ e \notin Sent(loop')
    <2>1. CASE e \in Sent(loop) /\ loop' \in Answer(loop, e, context)
      BY <1>1, <2>1, AnswerGood DEF Sent
    <2>2. CASE loop' \in CleanupRpcExports(loop, e, context)
      BY <1>1, <2>2, CleanupRpcExportsGood
    <2> QED
      BY <2>1, <2>2 DEF HandleRpcExportsEvent
  <1>3. /\ context' \in BOOLEAN /\ timeoutTimer' \in BOOLEAN /\ readSource' \in BOOLEAN
        /\ exportsSource' \in BOOLEAN /\ rpcExports' \in SUBSET ExportOps
        /\ process' \in {"live", "freed", "trapped"}
        /\ context' = context /\ rpcExports' = {} /\ e \in rpcExports /\ AgeOrder
    BY DEF Inv, TypeOK, HandleRpcExportsEvent
  <1>4. ExportsExclusive'
    <2>1. Sent(loop') \cap ExportOps = {}
      BY <1>1, <1>2, <1>3 DEF Follows
    <2> QED
      BY <1>3, <2>1 DEF ExportsExclusive
  <1>5. ClosedIsQuiet'
    <2> SUFFICES ASSUME ~context
                 PROVE  /\ loop'.active = {} /\ loop'.pending = <<>>
                        /\ Sent(loop') \cap NfsOps = {}
      BY <1>3 DEF ClosedIsQuiet
    <2>1. loop.active = {} /\ loop.pending = <<>> /\ Sent(loop) \cap NfsOps = {}
      BY DEF Inv, ClosedIsQuiet
    <2>2. PendingSet(loop) = {} /\ Len(loop.pending) = 0
      BY <1>1, <2>1, PendingFacts
    <2>3. loop'.active = {} /\ Sent(loop') \cap NfsOps = {}
      BY <1>2, <2>1, <2>2 DEF Follows
    <2>4. loop' \in LoopType /\ Len(loop'.pending) <= 0
      BY <1>2, <2>2 DEF Follows, Good
    <2>5. loop'.pending = <<>>
      BY <2>4, PendingFacts
    <2> QED
      BY <2>3, <2>5
  <1>6. Inv'
    BY <1>2, <1>3, <1>4, <1>5, InvNext
  <1> QED
    BY <1>2, <1>6 DEF Transition

\* scanForTimeouts.
LEMMA ScanForTimeoutsStep ==
    ASSUME Inv, NEW T \in SUBSET loop.active, ScanForTimeouts(T)
    PROVE  Inv' /\ Transition
  <1> DEFINE d == [loop EXCEPT !.active = @ \ T]
             f == RecordFailed(d, T)
             s == Resume(f, T, "ETIMEDOUT")
  <1>1. /\ Good(loop) /\ Detached(loop) = {} /\ loop \in LoopType
        /\ rpcExports \subseteq ExportOps
        /\ \A x, y \in rpcExports : x = y
        /\ Sent(loop) \cap ExportOps \subseteq rpcExports
        /\ PendingSet(loop) \cap ExportOps = {}
    BY InvParts
  <1>2. T \in SUBSET Ops /\ T \subseteq Waiting(loop)
    BY <1>1 DEF Good, Consistent, LoopType
  <1>3. context
    BY DEF Inv, ClosedIsQuiet, ScanForTimeouts
  <1>4. Good(d) /\ Follows(loop, d) /\ Detached(d) \subseteq T
    BY <1>1, DetachGood
  <1>5. d.active = loop.active \ T
    BY <1>1, DetachGood
  <1>6. /\ IF rpcExports \subseteq s.active
           THEN loop' = s /\ UNCHANGED <<rpcExports, exportsSource>>
           ELSE /\ loop' \in CleanupExports(s, context)
                /\ rpcExports' = {}
                /\ exportsSource' = FALSE
        /\ UNCHANGED <<context, timeoutTimer, readSource, process>>
        /\ AgeOrder
    BY DEF ScanForTimeouts
  <1> HIDE DEF d
  <1>7. f \in LoopType /\ SameCalls(d, f)
    BY <1>2, <1>4, RecordFailedFields DEF Good
  <1> HIDE DEF f
  <1>8. Good(f) /\ Follows(d, f) /\ Detached(f) = Detached(d)
    BY <1>4, <1>7, SameCallsGood
  <1>9. Follows(loop, f)
    BY <1>1, <1>4, <1>7, <1>8, FollowsTransitive DEF Good
  <1>10. /\ T \cap f.active = {} /\ T \subseteq Waiting(f) \cup f.resumed
         /\ "ETIMEDOUT" \in Results /\ MayTell(f, T, "ETIMEDOUT")
    BY <1>2, <1>5, <1>7, <1>9 DEF Follows, SameCalls, Results, MayTell
  <1>11. Good(s) /\ Follows(f, s) /\ Detached(s) = Detached(f) \ T
    BY <1>2, <1>8, <1>10, ResumeGood
  <1> HIDE DEF s
  <1>12. Detached(s) = {}
    BY <1>4, <1>8, <1>11
  <1>13. Follows(loop, s)
    BY <1>1, <1>7, <1>9, <1>11, FollowsTransitive DEF Good
  <1>14. Sent(s) \cap ExportOps \subseteq rpcExports
    BY <1>1, <1>13 DEF Follows
  <1>15. /\ context' \in BOOLEAN /\ timeoutTimer' \in BOOLEAN /\ readSource' \in BOOLEAN
         /\ process' \in {"live", "freed", "trapped"} /\ context' = context
    BY <1>6 DEF Inv, TypeOK
  <1>16. exportsSource' \in BOOLEAN /\ rpcExports' \in SUBSET ExportOps
    BY <1>6 DEF Inv, TypeOK
  <1>17. /\ Good(loop') /\ Follows(loop, loop') /\ Detached(loop') = {}
         /\ Sent(loop') \cap ExportOps \subseteq rpcExports'
         /\ \A x, y \in rpcExports' : x = y
    <2>1. CASE rpcExports \subseteq s.active
      BY <1>1, <1>6, <1>11, <1>12, <1>13, <1>14, <2>1
    <2>2. CASE ~(rpcExports \subseteq s.active)
      <3>1. loop' \in CleanupExports(s, context) /\ rpcExports' = {}
        BY <1>6, <2>2
      <3>2. /\ Good(loop') /\ Follows(s, loop') /\ Detached(loop') = {}
            /\ Sent(loop') \cap ExportOps = {}
        BY <1>1, <1>11, <1>12, <1>14, <3>1, CleanupExportsGood
      <3>3. Follows(loop, loop')
        BY <1>1, <1>11, <1>13, <3>2, FollowsTransitive DEF Good
      <3> QED
        BY <3>1, <3>2, <3>3
    <2> QED
      BY <2>1, <2>2
  <1>18. ClosedIsQuiet' /\ ExportsExclusive'
    BY <1>3, <1>15, <1>17 DEF ClosedIsQuiet, ExportsExclusive
  <1>19. Inv'
    BY <1>6, <1>15, <1>16, <1>17, <1>18, InvNext
  <1> QED
    BY <1>17, <1>19 DEF Transition

\* shutdown() and deinit.
LEMMA ShutdownStep ==
    ASSUME Inv, Shutdown \/ \E onQueue \in BOOLEAN : Deinit(onQueue)
    PROVE  Inv' /\ Transition
  <1>1. /\ Good(loop) /\ Detached(loop) = {} /\ loop \in LoopType
        /\ rpcExports \subseteq ExportOps
        /\ \A x, y \in rpcExports : x = y
        /\ Sent(loop) \cap ExportOps \subseteq rpcExports
    BY InvParts
  <1>2. /\ context' \in BOOLEAN /\ timeoutTimer' \in BOOLEAN /\ readSource' \in BOOLEAN
        /\ exportsSource' \in BOOLEAN /\ rpcExports' \in SUBSET ExportOps
        /\ process' \in {"live", "freed", "trapped"}
        /\ rpcExports' = rpcExports \/ rpcExports' = {}
        /\ AgeOrder
    BY DEF Inv, TypeOK, Shutdown, Deinit
  <1>3. CASE loop' \in PerformShutdown(loop)
    <2>1. /\ Good(loop') /\ Follows(loop, loop') /\ Detached(loop') = {}
          /\ loop'.active = {} /\ loop'.pending = <<>> /\ Sent(loop') = {}
      BY <1>1, <1>3, PerformShutdownGood
    <2>2. ClosedIsQuiet' /\ ExportsExclusive'
      BY <1>1, <1>2, <2>1 DEF ClosedIsQuiet, ExportsExclusive
    <2>3. Inv'
      BY <1>2, <2>1, <2>2, InvNext
    <2> QED
      BY <2>1, <2>3 DEF Transition
  <1>4. CASE ~context /\ loop' = loop /\ rpcExports' = rpcExports
    <2>1. SameCalls(loop, loop)
      BY DEF SameCalls
    <2>2. Follows(loop, loop)
      BY <1>1, <2>1, SameCallsGood
    <2>3. ClosedIsQuiet'
      BY <1>4 DEF Inv, ClosedIsQuiet
    <2>4. ExportsExclusive'
      BY <1>1, <1>4 DEF ExportsExclusive
    <2>5. Good(loop') /\ Detached(loop') = {} /\ Follows(loop, loop')
      BY <1>1, <1>4, <2>2
    <2>6. Inv'
      BY <1>2, <2>3, <2>4, <2>5, InvNext
    <2> QED
      BY <2>5, <2>6 DEF Transition
  <1> QED
    BY <1>3, <1>4 DEF Shutdown, Deinit

-----------------------------------------------------------------------------
(* The theorems.                                                            *)

\* The loop starts without calls.
LEMMA InvInit == Init => Inv
  <1> SUFFICES ASSUME Init PROVE Inv
    OBVIOUS
  <1>1. /\ loop.active = {} /\ loop.resumed = {} /\ loop.reply = [o \in Ops |-> "idle"]
        /\ loop.retained = {} /\ loop.pending = <<>>
        /\ loop.rpc = [o \in Ops |-> "none"]
    BY DEF Init
  <1>2. loop \in LoopType
    <2>1. [c \in Categories |-> 0] \in [Categories -> Nat]
      OBVIOUS
    <2>2. [c \in Categories |-> Reset] \in [Categories -> Controller]
      BY ResetType
    <2>3. <<>> \in Seq(SubmitOps) /\ {} \in SUBSET Ops
      OBVIOUS
    <2>4. [o \in Ops |-> "idle"] \in [Ops -> Results \cup {"idle", "waiting", "trap"}]
      OBVIOUS
    <2>5. [o \in Ops |-> "none"] \in [Ops -> {"none", "sent", "done", "dropped"}]
      OBVIOUS
    <2> QED
      BY <2>1, <2>2, <2>3, <2>4, <2>5 DEF Init, LoopType
  <1>3. Waiting(loop) = {} /\ Sent(loop) = {} /\ PendingSet(loop) = {} /\ Len(loop.pending) = 0
    BY <1>1, <1>2, PendingFacts DEF Waiting, Sent
  <1>4. Consistent(loop)
    <2>1. \A o \in Ops : Told(loop, o)
      BY <1>1, <1>3 DEF Told
    <2> QED
      BY <1>1, <1>3, <2>1 DEF Consistent, Idle
  <1>5. TypeOK
    <2>1. startedBefore \in SUBSET (Ops \X Ops) /\ rpcExports \in SUBSET ExportOps
      BY DEF Init
    <2>2. Len(loop.pending) <= MaxPendingOperations
      BY <1>3, LoopAssumption
    <2> QED
      BY <1>2, <2>1, <2>2 DEF Init, TypeOK
  <1>6. Detached(loop) = {} /\ ClosedIsQuiet /\ ExportsExclusive
    BY <1>1, <1>3 DEF Detached, ClosedIsQuiet, ExportsExclusive, Init
  <1> QED
    BY <1>4, <1>5, <1>6 DEF Inv

\* Every block preserves the invariant and treats the calls as Transition says.
LEMMA InvStep == Inv /\ [Next]_vars => Inv' /\ Transition
  <1> SUFFICES ASSUME Inv, [Next]_vars PROVE Inv' /\ Transition
    OBVIOUS
  <1>1. CASE UNCHANGED vars
    <2>1. SameCalls(loop, loop) /\ loop' = loop
      BY <1>1 DEF SameCalls, vars
    <2>2. Follows(loop, loop')
      BY <2>1, InvParts, SameCallsGood
    <2>3. Inv'
      <3>1. TypeOK' /\ Consistent(loop)' /\ (Detached(loop) = {})'
        BY <1>1 DEF vars, Inv, TypeOK
      <3>2. ClosedIsQuiet' /\ ExportsExclusive'
        BY <1>1 DEF vars, Inv, ClosedIsQuiet, ExportsExclusive
      <3> QED
        BY <3>1, <3>2 DEF Inv
    <2> QED
      BY <2>2, <2>3 DEF Transition
  <1>2. CASE \E o \in SubmitOps : Submit(o)
    BY <1>2, SubmitStep
  <1>3. CASE \E o \in BulkOps \cup HandleOps :
                 HandleOpRefused(o) \/ HandleOp(o)
    BY <1>3, HandleOpStep
  <1>4. CASE \E o \in HandleOps : HandleOpAnsweredInline(o)
    BY <1>4, HandleOpStep
  <1>5. CASE \E o \in MountOps : Mount(o)
    BY <1>5, MountStep
  <1>6. CASE \E o \in ExportOps : GetExports(o)
    BY <1>6, GetExportsStep
  <1>7. CASE (\E o \in NfsOps : HandleIOEvent(o)) \/ HandleIOEventIdle
    BY <1>7, HandleIOEventStep
  <1>8. CASE ShutdownWithError
    BY <1>8, ShutdownWithErrorStep
  <1>9. CASE \E e \in ExportOps : HandleRpcExportsEvent(e)
    BY <1>9, HandleRpcExportsEventStep
  <1>10. CASE \E T \in SUBSET loop.active : ScanForTimeouts(T)
    BY <1>10, ScanForTimeoutsStep
  <1>11. CASE Shutdown \/ \E onQueue \in BOOLEAN : Deinit(onQueue)
    BY <1>11, ShutdownStep
  <1> QED
    BY <1>1, <1>2, <1>3, <1>4, <1>5, <1>6, <1>7, <1>8, <1>9, <1>10, <1>11 DEF Next

\* The inductive invariant holds in every state the loop can reach, for any
\* number of calls of each kind, any capacity of the pending queue and any
\* bounds on the pipeline depth.
THEOREM LoopInvariant == Spec => []Inv
  BY InvInit, InvStep, PTL DEF Spec

\* The event loop is type correct: in particular the in-flight counts never go
\* below zero although a timed-out call is counted down twice, and the queue of
\* pending operations stays within its capacity.
THEOREM LoopTypeCorrect == Spec => []TypeOK
  <1>1. Inv => TypeOK
    BY DEF Inv
  <1> QED
    BY <1>1, LoopInvariant, PTL

\* activeContinuations holds exactly the calls whose callers are suspended.
THEOREM NoCallerForgotten == Spec => []WaitingIsActive
  <1>1. Inv => WaitingIsActive
    BY DEF Inv, Consistent, Detached, WaitingIsActive
  <1> QED
    BY <1>1, LoopInvariant, PTL

\* The raw CallbackData pointers that libnfs and the queue hold are never
\* dangling, after a timeout either.
THEOREM NoDanglingCallbackData == Spec => []CallbackDataAlive
  <1>1. Inv => CallbackDataAlive
    BY DEF Inv, Consistent, CallbackDataAlive
  <1> QED
    BY <1>1, LoopInvariant, PTL

\* The queue holds distinct operations that libnfs has never seen.
THEOREM QueueIsUnsent == Spec => []PendingUnsent
  <1>1. Inv => PendingUnsent
    BY DEF Inv, Consistent, PendingUnsent
  <1> QED
    BY <1>1, LoopInvariant, PTL

\* After the context is gone nobody waits, nothing is queued and libnfs owes no
\* callback on it.
THEOREM ClosedLoopIsQuiet == Spec => []ClosedIsQuiet
  <1>1. Inv => ClosedIsQuiet
    BY DEF Inv
  <1> QED
    BY <1>1, LoopInvariant, PTL

\* One export query at a time, and rpcExportsCtx is its context.
THEOREM OneExportQuery == Spec => []ExportsExclusive
  <1>1. Inv => ExportsExclusive
    BY DEF Inv
  <1> QED
    BY <1>1, LoopInvariant, PTL

\* A request that libnfs has answered or dropped is never handed to it again.
THEOREM NoRequestRepeated == Spec => NeverSentTwice
  <1>1. Inv /\ [Next]_vars =>
            [\A o \in Ops : loop.rpc[o] \in {"done", "dropped"} => loop'.rpc[o] = loop.rpc[o]]_vars
    <2> SUFFICES ASSUME Inv, [Next]_vars
                 PROVE  \A o \in Ops : loop.rpc[o] \in {"done", "dropped"} => loop'.rpc[o] = loop.rpc[o]
      OBVIOUS
    <2>1. Transition
      BY InvStep
    <2> QED
      BY <2>1 DEF Transition, Follows, Starts
  <1> QED
    BY <1>1, LoopInvariant, PTL DEF Spec, NeverSentTwice

\* The event loop implements its promise: each call is started once, waits, and
\* is given one result, once and for good.
THEOREM LoopKeepsItsPromise == Spec => CompletesOnce
  <1>1. Init => Promise!Init
    BY DEF Init, Promise!Init
  <1>2. Inv /\ Inv' /\ [Next]_vars => [Promise!Next]_(loop.reply)
    <2> SUFFICES ASSUME Inv, Inv', [Next]_vars PROVE Promise!Next
      OBVIOUS
    <2>1. Transition
      BY InvStep
    <2>2. loop'.reply \in [Ops -> Results \cup {"idle", "waiting"}]
      <3>1. loop' \in LoopType /\ Consistent(loop')
        BY DEF Inv, TypeOK
      <3>2. loop'.reply \in [Ops -> Results \cup {"idle", "waiting", "trap"}]
        BY <3>1 DEF LoopType
      <3>3. \A o \in Ops : loop'.reply[o] # "trap"
        BY <3>1 DEF Consistent
      <3> QED
        BY <3>2, <3>3
    <2>3. "waiting" \notin Results /\ "idle" \notin Results
      BY DEF Results
    <2>4. ASSUME Follows(loop, loop')
          PROVE  Promise!Next
      <3>1. Promise!Starting = {}
        BY <2>4 DEF Promise!Starting, Follows
      <3>3. \A o \in Promise!Returning :
                loop.reply[o] \in {"idle", "waiting"} /\ loop'.reply[o] \in Results
        BY <2>4 DEF Promise!Returning, Follows
      <3>4. \A o \in Ops : loop'.reply[o] = "waiting" => loop.reply[o] \in {"idle", "waiting"}
        BY <2>3, <2>4 DEF Follows
      <3> QED
        BY <2>2, <3>1, <3>3, <3>4 DEF Promise!Next
    <2>5. ASSUME NEW o \in Idle(loop), Starts(loop, loop', o)
          PROVE  Promise!Next
      <3>1. loop.reply[o] = "idle" /\ o \in Ops
        BY DEF Idle
      <3>2. \A p \in Ops \ {o} : \/ loop'.reply[p] = loop.reply[p]
                                 \/ loop.reply[p] = "waiting" /\ loop'.reply[p] \in Results
        BY <2>5 DEF Starts
      <3>3. loop'.reply[o] \in Results \cup {"waiting"}
        BY <2>5 DEF Starts
      <3>4. Promise!Starting = {o}
        BY <2>3, <3>1, <3>2, <3>3 DEF Promise!Starting
      <3>6. \A p \in Promise!Returning :
                loop.reply[p] \in {"idle", "waiting"} /\ loop'.reply[p] \in Results
        BY <3>1, <3>2, <3>3 DEF Promise!Returning
      <3>7. \A p \in Ops : loop'.reply[p] = "waiting" => loop.reply[p] \in {"idle", "waiting"}
        BY <2>3, <3>1, <3>2
      <3> QED
        BY <2>2, <3>4, <3>6, <3>7 DEF Promise!Next
    <2> QED
      BY <2>1, <2>4, <2>5 DEF Transition
  <1> QED
    BY <1>1, <1>2, LoopInvariant, PTL DEF Spec, CompletesOnce, Promise!Spec

-----------------------------------------------------------------------------
(* The second layer: what a handler does to the counts and the queue.       *)

\* Every operation the queue holds has been taken or has no slot.
Drained(s) == s.pending # <<>> => ~HasSlot(s, "metadata")

\* What issuing pending operations does to the counts and to the export queries.
Issues(s, t) ==
    /\ t.controller = s.controller
    /\ t.inFlight["bulk"] = s.inFlight["bulk"]
    /\ \E I \in SUBSET PendingSet(s) :
          /\ Sent(t) = Sent(s) \cup I
          /\ t.inFlight["metadata"] = s.inFlight["metadata"] + Cardinality(I)
    /\ \A o \in Ops \ PendingSet(s) : t.reply[o] = s.reply[o] /\ t.rpc[o] = s.rpc[o]
    /\ \A o \in PendingSet(s) : /\ s.rpc[o] = "none" /\ t.rpc[o] \in {"none", "sent"}
                                /\ t.reply[o] \in {s.reply[o], "error"}
                                /\ s.reply[o] = "ETIMEDOUT" => t.reply[o] = "ETIMEDOUT"

\* What recording the completions of the calls in S may do: other export queries
\* go on, and the counts run no further ahead of the requests with libnfs.
Records(s, t, S) ==
    /\ \A e \in ExportOps \ S : t.reply[e] = s.reply[e] /\ t.rpc[e] = s.rpc[e]
    /\ \A n \in Nat : Counted(s, n) => Counted(t, n)

\* One pass over the queue stops only at its end or at a full pipeline.
LEMMA IssuePassIssues ==
    ASSUME NEW s, Good(s), NEW b \in Passes(s), NEW t, t = IssuePass(s, b)
    PROVE  Issues(s, t) /\ Drained(t)
  <1> DEFINE p == s.pending
             F == b.failed
             issued == Taken(p, b.taken) \ F
             R == [o \in Ops |-> IF o \in issued THEN "sent" ELSE s.rpc[o]]
  <1>1. s \in LoopType /\ Consistent(s)
    BY DEF Good
  <1>2. /\ p \in Seq(SubmitOps) /\ s.inFlight \in [Categories -> Nat]
        /\ s.rpc \in [Ops -> {"none", "sent", "done", "dropped"}]
    BY <1>1 DEF LoopType
  <1>3. /\ b.taken \in 0 .. Len(p) /\ F \subseteq Taken(p, b.taken)
        /\ \/ b.taken = Len(p)
           \/ s.inFlight["metadata"] + Cardinality(issued)
                 >= EffectiveDepth(s.controller["metadata"])
    BY DEF Passes
  <1>4. Taken(p, b.taken) \subseteq PendingSet(s)
    BY <1>2, <1>3 DEF PendingSet, Taken
  <1>5. PendingSet(s) \subseteq SubmitOps /\ SubmitOps \cap ExportOps = {} /\ SubmitOps \subseteq Ops
    BY <1>1, PendingFacts, OpsFacts
  <1>6. t.pending = SubSeq(p, b.taken + 1, Len(p)) /\ t.controller = s.controller
    BY <1>1 DEF IssuePass, Resume, ContinuationResume, AddInFlight, LoopType
  <1>7. t.inFlight = Override(s.inFlight, "metadata",
                              s.inFlight["metadata"] + Cardinality(issued))
    BY <1>1 DEF IssuePass, Resume, ContinuationResume, AddInFlight, LoopType
  <1>8. t.rpc = R
    BY <1>1 DEF IssuePass, Resume, ContinuationResume, AddInFlight, LoopType
  <1>9. \A o \in Ops \ F : t.reply[o] = s.reply[o]
    BY <1>1 DEF IssuePass, Resume, ContinuationResume, AddInFlight, LoopType
  <1> HIDE DEF p, F, issued, R
  <1>10. /\ t.inFlight["metadata"] = s.inFlight["metadata"] + Cardinality(issued)
         /\ t.inFlight["bulk"] = s.inFlight["bulk"]
    BY <1>2, <1>7 DEF Override, Categories
  <1>11. issued \in SUBSET PendingSet(s) /\ F \subseteq PendingSet(s)
    BY <1>3, <1>4 DEF issued
  <1>12. Sent(t) = Sent(s) \cup issued
    BY <1>5, <1>8, <1>11 DEF Sent, R
  <1>13. \A o \in Ops \ PendingSet(s) : t.reply[o] = s.reply[o] /\ t.rpc[o] = s.rpc[o]
    BY <1>5, <1>8, <1>9, <1>11, OpsFacts DEF R
  <1>16. \A o \in PendingSet(s) : s.rpc[o] = "none" /\ t.rpc[o] \in {"none", "sent"}
    BY <1>1, <1>5, <1>8 DEF R, Consistent
  <1>17. \A o \in PendingSet(s) : /\ t.reply[o] \in {s.reply[o], "error"}
                                  /\ s.reply[o] = "ETIMEDOUT" => t.reply[o] = "ETIMEDOUT"
    <2>1. \A o \in Ops : t.reply[o] = IF o \notin F \ s.resumed THEN s.reply[o]
                                     ELSE IF s.reply[o] = "waiting" THEN "error" ELSE "trap"
      BY <1>1 DEF IssuePass, Resume, ContinuationResume, AddInFlight, LoopType, F
    <2>2. \A o \in PendingSet(s) : o \in Ops /\ (o \in s.resumed \/ s.reply[o] = "waiting")
      BY <1>1, <1>5 DEF Consistent, Waiting
    <2> QED
      BY <2>1, <2>2
  <1>14. b.taken = Len(p) => t.pending = <<>>
    BY <1>2, <1>6
  <1>15. Drained(t)
    <2>1. Cardinality(issued) \in Nat
      BY <1>5, <1>11, CountType
    <2>2. EffectiveDepth(s.controller["metadata"]) \in Nat
      BY <1>1, EffectiveDepthType DEF LoopType, Categories
    <2>3. s.inFlight["metadata"] \in Nat
      BY <1>2 DEF Categories
    <2> QED
      BY <1>3, <1>6, <1>10, <1>14, <2>1, <2>2, <2>3 DEF Drained, HasSlot
  <1> QED
    BY <1>6, <1>10, <1>11, <1>12, <1>13, <1>15, <1>16, <1>17 DEF Issues

\* issuePendingOperations as a whole.
LEMMA IssuePendingIssues ==
    ASSUME NEW s, Good(s), NEW hasContext, NEW t \in IssuePendingOperations(s, hasContext)
    PROVE  Issues(s, t) /\ (hasContext => Drained(t))
  <1>1. CASE t = s /\ ~hasContext
    <2>1. s.inFlight["metadata"] \in Nat
      BY DEF Good, LoopType, Categories
    <2>2. Cardinality({}) = 0 /\ {} \in SUBSET PendingSet(s)
      BY FS_EmptySet
    <2>3. t.inFlight["metadata"] = s.inFlight["metadata"] + Cardinality({})
      BY <1>1, <2>1, <2>2
    <2>4. \A o \in PendingSet(s) : s.rpc[o] = "none"
      BY DEF Good, Consistent
    <2> QED
      BY <1>1, <2>2, <2>3, <2>4 DEF Issues
  <1>2. CASE \E b \in Passes(s) : t = IssuePass(s, b)
    BY <1>2, IssuePassIssues
  <1> QED
    BY <1>1, <1>2 DEF IssuePendingOperations

\* The requests that hold a slot can be counted.
LEMMA SlottedFacts ==
    ASSUME NEW s, NEW c
    PROVE  /\ IsFiniteSet(Slotted(s, c)) /\ Cardinality(Slotted(s, c)) \in Nat
           /\ Slotted(s, c) \subseteq Sent(s)
  <1>1. Slotted(s, c) \in SUBSET Ops /\ Slotted(s, c) \subseteq Sent(s)
    BY DEF Slotted, InCategory, Sent
  <1>2. IsFiniteSet(Slotted(s, c))
    BY <1>1, OpsFacts, FS_Subset
  <1> QED
    BY <1>1, <1>2, FS_CardinalityType

\* The counts of a record are numbers.
LEMMA InFlightFacts ==
    ASSUME NEW s \in LoopType
    PROVE  s.inFlight["metadata"] \in Nat /\ s.inFlight["bulk"] \in Nat
  BY DEF LoopType, Categories

\* Each issued operation is counted once.
LEMMA IssuesCounts ==
    ASSUME NEW s, Good(s), NEW t \in LoopType, Issues(s, t)
    PROVE  /\ t.inFlight["metadata"] - s.inFlight["metadata"] \in Nat
           /\ Cardinality(Slotted(t, "metadata")) = Cardinality(Slotted(s, "metadata"))
                  + (t.inFlight["metadata"] - s.inFlight["metadata"])
           /\ Slotted(t, "bulk") = Slotted(s, "bulk") /\ t.inFlight["bulk"] = s.inFlight["bulk"]
  <1>1. PICK I \in SUBSET PendingSet(s) :
            /\ Sent(t) = Sent(s) \cup I
            /\ t.inFlight["metadata"] = s.inFlight["metadata"] + Cardinality(I)
    BY DEF Issues
  <1>2. s \in LoopType /\ I \subseteq SubmitOps /\ I \cap Sent(s) = {}
    <2>1. s \in LoopType
      BY DEF Good
    <2> QED
      BY <2>1, PendingFacts DEF Good, Consistent, Sent
  <1>3. I \in SUBSET Ops /\ IsFiniteSet(I) /\ Cardinality(I) \in Nat
    BY <1>2, OpsFacts, FS_Subset, FS_CardinalityType
  <1>4. \A o \in I : Category(o) = "metadata"
    BY <1>2, LoopAssumption DEF Category
  <1>5. Slotted(t, "metadata") = Slotted(s, "metadata") \cup I
    BY <1>1, <1>2, <1>4 DEF Slotted, InCategory
  <1>6. Slotted(t, "bulk") = Slotted(s, "bulk")
    BY <1>1, <1>4 DEF Slotted, InCategory
  <1>7. Slotted(s, "metadata") \cap I = {}
    BY <1>2, SlottedFacts
  <1>8. Cardinality(Slotted(t, "metadata")) = Cardinality(Slotted(s, "metadata")) + Cardinality(I)
    <2>1. IsFiniteSet(Slotted(s, "metadata")) /\ Cardinality(Slotted(s, "metadata")) \in Nat
      BY SlottedFacts
    <2>2. Cardinality(Slotted(s, "metadata") \cup I)
            = Cardinality(Slotted(s, "metadata")) + Cardinality(I)
                - Cardinality(Slotted(s, "metadata") \cap I)
      BY <1>3, <2>1, FS_Union
    <2> QED
      BY <1>3, <1>5, <1>7, <2>1, <2>2, FS_EmptySet
  <1>9. s.inFlight["metadata"] \in Nat
    BY <1>2, InFlightFacts
  <1> QED
    BY <1>1, <1>3, <1>6, <1>8, <1>9 DEF Issues

\* So the counts run no further ahead.
LEMMA IssuesRecords ==
    ASSUME NEW s, Good(s), NEW t \in LoopType, Issues(s, t)
    PROVE  Records(s, t, {})
  <1>1. /\ t.inFlight["metadata"] - s.inFlight["metadata"] \in Nat
        /\ Cardinality(Slotted(t, "metadata")) = Cardinality(Slotted(s, "metadata"))
               + (t.inFlight["metadata"] - s.inFlight["metadata"])
        /\ Slotted(t, "bulk") = Slotted(s, "bulk") /\ t.inFlight["bulk"] = s.inFlight["bulk"]
    BY IssuesCounts
  <1>2. /\ s \in LoopType /\ s.inFlight["metadata"] \in Nat /\ t.inFlight["metadata"] \in Nat
        /\ Cardinality(Slotted(s, "metadata")) \in Nat
    BY SlottedFacts, InFlightFacts DEF Good
  <1>3. \A n \in Nat : Counted(s, n) => Counted(t, n)
    BY <1>1, <1>2 DEF Counted
  <1>4. \A e \in ExportOps : e \in Ops \ PendingSet(s)
    BY <1>2, PendingFacts, OpsFacts
  <1> QED
    BY <1>3, <1>4 DEF Records, Issues

\* Completions may be recorded one after the other.
LEMMA RecordsTransitive ==
    ASSUME NEW r, NEW s, NEW t, NEW S, NEW T, Records(r, s, S), Records(s, t, T)
    PROVE  Records(r, t, S \cup T)
  BY DEF Records

\* The first half of a callback, up to the issuing of pending operations: the
\* request is done, the call detached and its slot given back.
Completed(s, o, success) ==
    RecordCompletion([[s EXCEPT !.rpc = Override(s.rpc, o, "done"), !.retained = @ \ {o}]
                        EXCEPT !.active = @ \ {o}],
                     Category(o), success)

\* What that half leaves.
LEMMA CompletedFields ==
    ASSUME NEW s, Good(s), NEW o \in Sent(s), NEW success, NEW t, t = Completed(s, o, success)
    PROVE  /\ Good(t) /\ t.reply = s.reply
           /\ \A p \in Ops : t.rpc[p] = IF p = o THEN "done" ELSE s.rpc[p]
           /\ t.inFlight = Override(s.inFlight, Category(o),
                                    AtLeast(0, s.inFlight[Category(o)] - 1))
           /\ t.controller = Override(s.controller, Category(o),
                                      Record(s.controller[Category(o)], success))
  <1> DEFINE d == [s EXCEPT !.rpc = Override(s.rpc, o, "done"), !.retained = @ \ {o}]
             a == [d EXCEPT !.active = @ \ {o}]
  <1>1. s \in LoopType /\ o \in Ops
    BY DEF Good, Sent
  <1>2. s.rpc \in [Ops -> {"none", "sent", "done", "dropped"}]
    BY <1>1 DEF LoopType
  <1>3. Override(s.rpc, o, "done") \in [Ops -> {"none", "sent", "done", "dropped"}]
    BY <1>2 DEF Override
  <1>4. d \in LoopType
    BY <1>1, <1>3 DEF LoopType
  <1>5. d.active = s.active /\ d.reply = s.reply /\ d.pending = s.pending
    BY <1>1 DEF LoopType
  <1>6. d.resumed = s.resumed
    BY <1>1 DEF LoopType
  <1>7. d.retained = s.retained \ {o}
    BY <1>1 DEF LoopType
  <1>8. \A x \in Ops : d.rpc[x] = IF x = o THEN "done" ELSE s.rpc[x]
    BY <1>1, <1>2 DEF LoopType, Override
  <1>9. d.inFlight = s.inFlight /\ d.controller = s.controller
    BY <1>1 DEF LoopType
  <1>10. t = RecordCompletion(a, Category(o), success)
    BY DEF Completed
  <1> HIDE DEF d
  <1>11. Good(d)
    <2>1. \A x \in Ops : \/ d.rpc[x] = s.rpc[x] /\ x \notin {o}
                         \/ x \in Sent(s) /\ d.rpc[x] \in {"done", "dropped"}
      BY <1>8
    <2>2. {o} \in SUBSET Sent(s)
      OBVIOUS
    <2> QED
      BY <1>4, <1>5, <1>6, <1>7, <2>1, <2>2, RetireGood
  <1>12. Good(a)
    BY <1>11, DetachGood
  <1>13. a.reply = d.reply /\ a.rpc = d.rpc
    BY <1>4 DEF LoopType
  <1>14. a.inFlight = d.inFlight /\ a.controller = d.controller
    BY <1>4 DEF LoopType
  <1> HIDE DEF a
  <1>15. a \in LoopType
    BY <1>12 DEF Good
  <1>16. t \in LoopType /\ SameCalls(a, t)
    BY <1>10, <1>15, CategoryType, RecordCompletionFields
  <1>17. Good(t)
    BY <1>12, <1>16, SameCallsGood
  <1>18. t.inFlight = Override(a.inFlight, Category(o), AtLeast(0, a.inFlight[Category(o)] - 1))
    BY <1>10, <1>15 DEF RecordCompletion, LoopType
  <1>19. t.controller = Override(a.controller, Category(o),
                                 Record(a.controller[Category(o)], success))
    BY <1>10, <1>15 DEF RecordCompletion, LoopType
  <1>20. t.reply = s.reply /\ t.rpc = d.rpc
    BY <1>5, <1>13, <1>16 DEF SameCalls
  <1> QED
    BY <1>8, <1>9, <1>14, <1>17, <1>18, <1>19, <1>20

\* A freed slot is one that was counted for the request, or for none.
LEMMA CompletedRecords ==
    ASSUME NEW s, Good(s), NEW o \in Sent(s), NEW success, NEW t, t = Completed(s, o, success)
    PROVE  Records(s, t, {o})
  <1> DEFINE k == Category(o)
  <1>1. /\ Good(t) /\ t.reply = s.reply
        /\ \A p \in Ops : t.rpc[p] = IF p = o THEN "done" ELSE s.rpc[p]
        /\ t.inFlight = Override(s.inFlight, k, AtLeast(0, s.inFlight[k] - 1))
        /\ t.controller = Override(s.controller, k, Record(s.controller[k], success))
    BY CompletedFields
  <1>2. s \in LoopType /\ o \in Ops /\ k \in Categories
    BY CategoryType DEF Good, Sent
  <1>3. s.inFlight \in [Categories -> Nat] /\ s.controller \in [Categories -> Controller]
    BY <1>2 DEF LoopType
  <1> HIDE DEF k
  <1>4. /\ \A c \in Categories : t.inFlight[c] = IF c = k THEN AtLeast(0, s.inFlight[k] - 1)
                                                 ELSE s.inFlight[c]
        /\ \A c \in Categories \ {k} : t.controller[c] = s.controller[c]
    BY <1>1, <1>3 DEF Override
  <1>5. Sent(t) = Sent(s) \ {o}
    BY <1>1 DEF Sent
  <1>6. \A c \in Categories : Slotted(t, c) = Slotted(s, c) \ {o}
    BY <1>5 DEF Slotted, InCategory
  <1>7. \A c \in Categories \ {k} : o \notin Slotted(s, c)
    BY DEF Slotted, InCategory, k
  <1>8. ASSUME NEW c \in Categories, NEW m \in Nat,
               s.inFlight[c] <= Cardinality(Slotted(s, c)) + m
        PROVE  t.inFlight[c] <= Cardinality(Slotted(t, c)) + m
    <2>1. /\ IsFiniteSet(Slotted(s, c)) /\ Cardinality(Slotted(s, c)) \in Nat
          /\ Cardinality(Slotted(t, c)) \in Nat
      BY SlottedFacts
    <2>2. Cardinality(Slotted(t, c)) = IF o \in Slotted(s, c) THEN Cardinality(Slotted(s, c)) - 1
                                       ELSE Cardinality(Slotted(s, c))
      BY <1>6, <2>1, FS_RemoveElement
    <2>3. s.inFlight[c] \in Nat
      BY <1>3
    <2>4. CASE c = k
      BY <1>4, <1>8, <2>1, <2>2, <2>3, <2>4 DEF AtLeast
    <2>5. CASE c # k
      BY <1>4, <1>7, <1>8, <2>1, <2>2, <2>3, <2>5
    <2> QED
      BY <2>4, <2>5
  <1>9. \A n \in Nat : Counted(s, n) => Counted(t, n)
    <2> SUFFICES ASSUME NEW n \in Nat, Counted(s, n) PROVE Counted(t, n)
      OBVIOUS
    <2>1. "metadata" \in Categories /\ "bulk" \in Categories
      BY DEF Categories
    <2>2. t.inFlight["metadata"] <= Cardinality(Slotted(t, "metadata")) + n
      BY <1>8, <2>1 DEF Counted
    <2>3. /\ Cardinality(Slotted(s, "bulk")) \in Nat /\ Cardinality(Slotted(t, "bulk")) \in Nat
          /\ s.inFlight["bulk"] <= Cardinality(Slotted(s, "bulk")) + 0
      BY SlottedFacts DEF Counted
    <2>4. t.inFlight["bulk"] <= Cardinality(Slotted(t, "bulk")) + 0
      BY <1>8, <2>1, <2>3
    <2> QED
      BY <2>2, <2>3, <2>4 DEF Counted
  <1> QED
    BY <1>1, <1>9, OpsFacts DEF Records

\* Returning results changes no count, and no reply but those of S.
LEMMA ResumeRecords ==
    ASSUME NEW s \in LoopType, NEW S \in SUBSET Ops, NEW r, NEW t, t = Resume(s, S, r)
    PROVE  /\ t.inFlight = s.inFlight /\ t.controller = s.controller
           /\ t.rpc = s.rpc /\ t.pending = s.pending
           /\ \A o \in Ops \ S : t.reply[o] = s.reply[o]
           /\ Records(s, t, S) /\ (Drained(s) => Drained(t))
  <1>1. t.inFlight = s.inFlight /\ t.controller = s.controller
    BY DEF Resume, ContinuationResume, LoopType
  <1>2. t.rpc = s.rpc /\ t.pending = s.pending
    BY DEF Resume, ContinuationResume, LoopType
  <1>3. \A o \in Ops \ S : t.reply[o] = s.reply[o]
    BY DEF Resume, ContinuationResume, LoopType
  <1>4. Sent(t) = Sent(s)
    BY <1>2 DEF Sent
  <1>5. \A n \in Nat : Counted(s, n) => Counted(t, n)
    BY <1>1, <1>4 DEF Counted, Slotted
  <1>6. Drained(s) => Drained(t)
    BY <1>1, <1>2 DEF Drained, HasSlot
  <1> QED
    BY <1>1, <1>2, <1>3, <1>5, <1>6, OpsFacts DEF Records

\* A callback records the completion of its call only, and fills the pipeline.
LEMMA NfsCallbackRecords ==
    ASSUME NEW s, Good(s), NEW o \in Sent(s), NEW success, NEW r, NEW hasContext,
           NEW t \in NfsCallback(s, o, success, r, hasContext)
    PROVE  Records(s, t, {o}) /\ (hasContext => Drained(t))
  <1> DEFINE c == Completed(s, o, success)
  <1>1. PICK u \in IssuePendingOperations(c, hasContext) : t = Resume(u, {o}, r)
    BY DEF NfsCallback, HandleCallbackCompletion, Completed
  <1>2. Good(c) /\ Records(s, c, {o})
    BY CompletedFields, CompletedRecords
  <1> HIDE DEF c
  <1>3. Good(u) /\ Issues(c, u) /\ (hasContext => Drained(u))
    BY <1>1, <1>2, IssuePendingGood, IssuePendingIssues
  <1>4. u \in LoopType /\ {o} \in SUBSET Ops
    BY <1>3 DEF Good, Sent
  <1>5. Records(c, u, {})
    BY <1>2, <1>3, <1>4, IssuesRecords
  <1>6. Records(u, t, {o}) /\ (Drained(u) => Drained(t))
    BY <1>1, <1>4, ResumeRecords
  <1>7. Records(s, u, {o} \cup {})
    BY <1>2, <1>5, RecordsTransitive
  <1>8. Records(s, t, ({o} \cup {}) \cup {o})
    BY <1>6, <1>7, RecordsTransitive
  <1>9. ({o} \cup {}) \cup {o} = {o}
    OBVIOUS
  <1> QED
    BY <1>3, <1>6, <1>8, <1>9

\* The same for an answer.
LEMMA AnswerRecords ==
    ASSUME NEW s, Good(s), NEW o \in Sent(s), NEW hasContext, NEW t \in Answer(s, o, hasContext)
    PROVE  Records(s, t, {o}) /\ (hasContext => Drained(t))
  <1>1. CASE t \in NfsCallback(s, o, TRUE, "ok", hasContext)
    BY <1>1, NfsCallbackRecords
  <1>2. CASE t \in NfsCallback(s, o, FALSE, "error", hasContext)
    BY <1>2, NfsCallbackRecords
  <1> QED
    BY <1>1, <1>2 DEF Answer

\* Failing the calls in S, which may still be with libnfs, lowers the counts and
\* adapts the depths of their categories.
LEMMA RecordFailedRecords ==
    ASSUME NEW s \in LoopType, NEW S \in SUBSET Ops, NEW t, t = RecordFailed(s, S)
    PROVE  Records(s, t, S)
  <1>1. /\ s.inFlight \in [Categories -> Nat] /\ "metadata" \in Categories /\ "bulk" \in Categories
    BY DEF LoopType, Categories
  <1>2. t \in LoopType /\ SameCalls(s, t)
    BY RecordFailedFields
  <1>4. t.inFlight = [c \in Categories |->
            AtLeast(0, s.inFlight[c] - Cardinality(InCategory(S, c)))]
    BY DEF RecordFailed, LoopType
  <1>6. \A c \in Categories : t.inFlight[c] <= s.inFlight[c]
    <2> TAKE c \in Categories
    <2>1. Cardinality(InCategory(S, c)) \in Nat /\ s.inFlight[c] \in Nat
      BY <1>1, CountType
    <2> QED
      BY <1>4, <2>1 DEF AtLeast
  <1>7. Sent(t) = Sent(s)
    BY <1>2 DEF SameCalls, Sent
  <1>8. ASSUME NEW n \in Nat, Counted(s, n)
        PROVE  Counted(t, n)
    <2>1. Slotted(t, "metadata") = Slotted(s, "metadata") /\ Slotted(t, "bulk") = Slotted(s, "bulk")
      BY <1>7 DEF Slotted
    <2>2. /\ Cardinality(Slotted(s, "metadata")) \in Nat /\ Cardinality(Slotted(s, "bulk")) \in Nat
          /\ s.inFlight["metadata"] \in Nat /\ s.inFlight["bulk"] \in Nat
          /\ t.inFlight["metadata"] \in Nat /\ t.inFlight["bulk"] \in Nat
          /\ t.inFlight["metadata"] <= s.inFlight["metadata"]
          /\ t.inFlight["bulk"] <= s.inFlight["bulk"]
      BY <1>1, <1>2, <1>6, SlottedFacts, InFlightFacts
    <2> QED
      BY <1>8, <2>1, <2>2 DEF Counted
  <1> QED
    BY <1>2, <1>8 DEF Records, SameCalls

\* cleanupRpcExports concerns its own query only, and leaves the pipeline full or
\* the counts and the queue alone.
LEMMA CleanupRpcExportsRecords ==
    ASSUME NEW s, Good(s), NEW e \in ExportOps, NEW hasContext,
           NEW t \in CleanupRpcExports(s, e, hasContext)
    PROVE  /\ Records(s, t, {e})
           /\ hasContext /\ Drained(s) => Drained(t)
  <1>1. s \in LoopType /\ e \in Ops
    BY OpsFacts DEF Good
  <1>2. CASE t = s
    BY <1>2 DEF Records
  <1>3. CASE t \in NfsCallback(s, e, FALSE, "cancelled", hasContext) /\ s.rpc[e] = "sent"
    <2>1. e \in Sent(s)
      BY <1>1, <1>3 DEF Sent
    <2>2. ASSUME NEW success, NEW r, t \in NfsCallback(s, e, success, r, hasContext)
          PROVE  Records(s, t, {e}) /\ (hasContext => Drained(t))
      BY <2>1, <2>2, NfsCallbackRecords
    <2>3. Records(s, t, {e}) /\ (hasContext => Drained(t))
      BY <1>3, <2>2
    <2> QED
      BY <2>3
  <1>4. CASE t = [s EXCEPT !.rpc = Override(s.rpc, e, "dropped")] /\ s.rpc[e] = "sent"
    <2>1. s.rpc \in [Ops -> {"none", "sent", "done", "dropped"}]
      BY <1>1 DEF LoopType
    <2>2. t.reply = s.reply /\ t.controller = s.controller /\ t.pending = s.pending
      BY <1>1, <1>4 DEF LoopType
    <2>3. t.inFlight = s.inFlight
      BY <1>1, <1>4 DEF LoopType
    <2>4. t.rpc = Override(s.rpc, e, "dropped")
      BY <1>1, <1>4 DEF LoopType
    <2>5. \A p \in Ops : t.rpc[p] = IF p = e THEN "dropped" ELSE s.rpc[p]
      BY <2>1, <2>4 DEF Override
    <2>6. Sent(t) = Sent(s) \ {e}
      BY <2>5 DEF Sent
    <2>7. e \notin SubmitOps \cup BulkOps \cup HandleOps
      BY LoopAssumption
    <2>8. \A c \in Categories : Slotted(t, c) = Slotted(s, c)
      BY <2>6, <2>7 DEF Slotted, InCategory
    <2>9. \A n \in Nat : Counted(s, n) => Counted(t, n)
      BY <2>3, <2>8 DEF Counted, Categories
    <2>10. Drained(s) => Drained(t)
      BY <2>2, <2>3 DEF Drained, HasSlot
    <2>11. Records(s, t, {e})
      BY <2>2, <2>5, <2>9, OpsFacts DEF Records
    <2> QED
      BY <2>2, <2>10, <2>11
  <1> QED
    BY <1>2, <1>3, <1>4 DEF CleanupRpcExports

-----------------------------------------------------------------------------
(* What a handler records.                                                  *)

\* From s to t exactly the requests in A are answered and the calls in T time out,
\* and each is recorded with one call of recordCompletion(success).
Advances(s, t, A, T, success) ==
    /\ A \in SUBSET Ops /\ T \in SUBSET Ops
    /\ \A p \in Ops : /\ p \in A => s.rpc[p] # "done"
                      /\ t.rpc[p] = "done" <=> s.rpc[p] = "done" \/ p \in A
    /\ \A p \in Ops : /\ p \in T => s.reply[p] # "ETIMEDOUT"
                      /\ t.reply[p] = "ETIMEDOUT" <=> s.reply[p] = "ETIMEDOUT" \/ p \in T
    /\ \A c \in Categories :
          t.controller[c] = RecordRepeatedly(s.controller[c], success,
                                Cardinality(InCategory(A, c)) + Cardinality(InCategory(T, c)))

\* From s to t the count of category c falls behind the requests with libnfs by
\* no more than n.
Loses(s, t, c, n) ==
    \A m \in Nat : Cardinality(Slotted(s, c)) <= s.inFlight[c] + m =>
                       Cardinality(Slotted(t, c)) <= t.inFlight[c] + (m + n)

\* The number of requests in A that never held a slot of category c.
Free(A, c) == Cardinality(InCategory(A \cap (MountOps \cup ExportOps), c))

\* It is a number, and there are none in the empty set.
LEMMA FreeFacts ==
    ASSUME NEW A \in SUBSET Ops, NEW c
    PROVE  Free(A, c) \in Nat /\ Free({}, c) = 0 /\ Cardinality(InCategory({}, c)) = 0
  <1>1. A \cap (MountOps \cup ExportOps) \in SUBSET Ops
    OBVIOUS
  <1>2. InCategory({}, c) = {} /\ {} \cap (MountOps \cup ExportOps) = {}
    BY DEF InCategory
  <1> QED
    BY <1>1, <1>2, CountType, FS_EmptySet DEF Free

\* Losses add up.
LEMMA LosesTransitive ==
    ASSUME NEW r, NEW s, NEW t, NEW c, NEW m \in Nat, NEW n \in Nat,
           Loses(r, s, c, m), Loses(s, t, c, n)
    PROVE  Loses(r, t, c, m + n)
  <1> SUFFICES ASSUME NEW k \in Nat, Cardinality(Slotted(r, c)) <= r.inFlight[c] + k
               PROVE  Cardinality(Slotted(t, c)) <= t.inFlight[c] + (k + (m + n))
    BY DEF Loses
  <1>1. k + m \in Nat /\ (k + m) + n = k + (m + n)
    OBVIOUS
  <1>2. Cardinality(Slotted(s, c)) <= s.inFlight[c] + (k + m)
    BY DEF Loses
  <1> QED
    BY <1>1, <1>2 DEF Loses

\* A handler that answers nothing and times nothing out.
LEMMA QuietAdvances ==
    ASSUME NEW s, NEW t, NEW success, t.controller = s.controller,
           \A p \in Ops : t.rpc[p] = "done" <=> s.rpc[p] = "done",
           \A p \in Ops : t.reply[p] = "ETIMEDOUT" <=> s.reply[p] = "ETIMEDOUT"
    PROVE  Advances(s, t, {}, {}, success)
  <1>1. ASSUME NEW c \in Categories
        PROVE  t.controller[c] = RecordRepeatedly(s.controller[c], success,
                                    Cardinality(InCategory({}, c)) + Cardinality(InCategory({}, c)))
    <2>1. Cardinality(InCategory({}, c)) = 0
      BY FreeFacts
    <2> QED
      BY <2>1, RepeatedUnrolls
  <1> QED
    BY <1>1 DEF Advances

\* Two handlers in a row that record the same outcome.
LEMMA AdvancesTransitive ==
    ASSUME NEW r, NEW s, NEW t, NEW A, NEW B, NEW S, NEW T, NEW success,
           Advances(r, s, A, S, success), Advances(s, t, B, T, success)
    PROVE  /\ Advances(r, t, A \cup B, S \cup T, success)
           /\ A \cap B = {} /\ S \cap T = {}
  <1>1. A \in SUBSET Ops /\ B \in SUBSET Ops /\ S \in SUBSET Ops /\ T \in SUBSET Ops
    BY DEF Advances
  <1>2. A \cap B = {} /\ S \cap T = {}
    BY <1>1 DEF Advances
  <1>3. \A p \in Ops : /\ p \in A \cup B => r.rpc[p] # "done"
                       /\ t.rpc[p] = "done" <=> r.rpc[p] = "done" \/ p \in A \cup B
    BY DEF Advances
  <1>4. \A p \in Ops : /\ p \in S \cup T => r.reply[p] # "ETIMEDOUT"
                       /\ t.reply[p] = "ETIMEDOUT" <=> r.reply[p] = "ETIMEDOUT" \/ p \in S \cup T
    BY DEF Advances
  <1>5. ASSUME NEW c \in Categories
        PROVE  t.controller[c] = RecordRepeatedly(r.controller[c], success,
                  Cardinality(InCategory(A \cup B, c)) + Cardinality(InCategory(S \cup T, c)))
    <2> DEFINE a == Cardinality(InCategory(A, c))
               b == Cardinality(InCategory(B, c))
               x == Cardinality(InCategory(S, c))
               y == Cardinality(InCategory(T, c))
    <2>1. a \in Nat /\ b \in Nat /\ x \in Nat /\ y \in Nat
      BY <1>1, CountType
    <2>2. /\ Cardinality(InCategory(A \cup B, c)) = a + b
          /\ Cardinality(InCategory(S \cup T, c)) = x + y
      BY <1>1, <1>2, DisjointCounts
    <2>3. /\ s.controller[c] = RecordRepeatedly(r.controller[c], success, a + x)
          /\ t.controller[c] = RecordRepeatedly(s.controller[c], success, b + y)
      BY DEF Advances
    <2> HIDE DEF a, b, x, y
    <2>4. a + x \in Nat /\ b + y \in Nat /\ (a + x) + (b + y) = (a + b) + (x + y)
      BY <2>1
    <2>5. t.controller[c] = RecordRepeatedly(r.controller[c], success, (a + x) + (b + y))
      BY <2>3, <2>4, RepeatedInTwo
    <2> QED
      BY <2>2, <2>4, <2>5
  <1> QED
    BY <1>1, <1>2, <1>3, <1>4, <1>5 DEF Advances

\* Issuing pending operations records nothing and counts what it hands over.
LEMMA IssuesAdvance ==
    ASSUME NEW s, Good(s), NEW t \in LoopType, Issues(s, t), NEW success
    PROVE  /\ Advances(s, t, {}, {}, success)
           /\ \A c \in Categories : Loses(s, t, c, 0)
  <1>1. ASSUME NEW p \in Ops
        PROVE  /\ t.rpc[p] = "done" <=> s.rpc[p] = "done"
               /\ t.reply[p] = "ETIMEDOUT" <=> s.reply[p] = "ETIMEDOUT"
    <2>1. CASE p \in PendingSet(s)
      <3>1. s.rpc[p] = "none"
        BY <2>1 DEF Issues
      <3>2. t.rpc[p] \in {"none", "sent"}
        BY <2>1 DEF Issues
      <3>3. t.reply[p] \in {s.reply[p], "error"}
        BY <2>1 DEF Issues
      <3>4. s.reply[p] = "ETIMEDOUT" => t.reply[p] = "ETIMEDOUT"
        BY <2>1 DEF Issues
      <3> QED
        BY <3>1, <3>2, <3>3, <3>4
    <2>2. CASE p \notin PendingSet(s)
      <3>1. t.rpc[p] = s.rpc[p] /\ t.reply[p] = s.reply[p]
        BY <2>2 DEF Issues
      <3> QED
        BY <3>1
    <2> QED
      BY <2>1, <2>2
  <1>2. t.controller = s.controller
    BY DEF Issues
  <1>3. Advances(s, t, {}, {}, success)
    BY <1>1, <1>2, QuietAdvances
  <1>4. /\ t.inFlight["metadata"] - s.inFlight["metadata"] \in Nat
        /\ Cardinality(Slotted(t, "metadata")) = Cardinality(Slotted(s, "metadata"))
               + (t.inFlight["metadata"] - s.inFlight["metadata"])
        /\ Slotted(t, "bulk") = Slotted(s, "bulk") /\ t.inFlight["bulk"] = s.inFlight["bulk"]
    BY IssuesCounts
  <1>5. /\ s.inFlight["metadata"] \in Nat /\ t.inFlight["metadata"] \in Nat
        /\ s.inFlight["bulk"] \in Nat
    BY InFlightFacts DEF Good
  <1>6. \A c : Cardinality(Slotted(s, c)) \in Nat
    BY SlottedFacts
  <1>7. Loses(s, t, "metadata", 0) /\ Loses(s, t, "bulk", 0)
    BY <1>4, <1>5, <1>6 DEF Loses
  <1> QED
    BY <1>3, <1>7 DEF Categories

\* The first half of a callback records the completion of its call; the slot it
\* gives back is the one its request held, unless it held none.
LEMMA CompletedAdvances ==
    ASSUME NEW s, Good(s), NEW o \in Sent(s), NEW success, NEW t, t = Completed(s, o, success)
    PROVE  /\ Advances(s, t, {o}, {}, success)
           /\ \A c \in Categories : Loses(s, t, c, Free({o}, c))
  <1> DEFINE k == Category(o)
  <1>1. /\ Good(t) /\ t.reply = s.reply
        /\ \A p \in Ops : t.rpc[p] = IF p = o THEN "done" ELSE s.rpc[p]
        /\ t.inFlight = Override(s.inFlight, k, AtLeast(0, s.inFlight[k] - 1))
        /\ t.controller = Override(s.controller, k, Record(s.controller[k], success))
    BY CompletedFields
  <1>2. s \in LoopType /\ o \in Ops /\ k \in Categories /\ s.rpc[o] = "sent"
    BY CategoryType DEF Good, Sent
  <1>3. s.inFlight \in [Categories -> Nat] /\ s.controller \in [Categories -> Controller]
    BY <1>2 DEF LoopType
  <1>4. /\ \A c \in Categories : t.inFlight[c] = IF c = k THEN AtLeast(0, s.inFlight[k] - 1)
                                                 ELSE s.inFlight[c]
        /\ \A c \in Categories : t.controller[c] = IF c = k THEN Record(s.controller[k], success)
                                                   ELSE s.controller[c]
    BY <1>1, <1>3 DEF Override
  <1>5. \A c : InCategory({o}, c) = IF c = k THEN {o} ELSE {}
    BY DEF InCategory
  <1>6. Cardinality({o}) = 1 /\ Cardinality({}) = 0
    BY FS_Singleton, FS_EmptySet
  <1> HIDE DEF k
  <1>7. ASSUME NEW c \in Categories
        PROVE  t.controller[c] = RecordRepeatedly(s.controller[c], success,
                                    Cardinality(InCategory({o}, c)) + Cardinality(InCategory({}, c)))
    <2>1. Cardinality(InCategory({}, c)) = 0
      BY FreeFacts
    <2>2. CASE c = k
      <3>1. Cardinality(InCategory({o}, c)) + Cardinality(InCategory({}, c)) = 1
        BY <1>5, <1>6, <2>1, <2>2
      <3> QED
        BY <1>4, <2>2, <3>1, RepeatedUnrolls
    <2>3. CASE c # k
      <3>1. Cardinality(InCategory({o}, c)) + Cardinality(InCategory({}, c)) = 0
        BY <1>5, <1>6, <2>1, <2>3
      <3> QED
        BY <1>4, <2>3, <3>1, RepeatedUnrolls
    <2> QED
      BY <2>2, <2>3
  <1>8. Advances(s, t, {o}, {}, success)
    BY <1>1, <1>2, <1>7 DEF Advances
  <1>9. ASSUME NEW c \in Categories
        PROVE  Loses(s, t, c, Free({o}, c))
    <2>1. Sent(t) = Sent(s) \ {o}
      BY <1>1 DEF Sent
    <2>2. Slotted(t, c) = Slotted(s, c) \ {o}
      BY <2>1 DEF Slotted, InCategory
    <2>3. /\ IsFiniteSet(Slotted(s, c)) /\ Cardinality(Slotted(s, c)) \in Nat
          /\ s.inFlight[c] \in Nat /\ t.inFlight[c] \in Nat
          /\ t.inFlight[c] >= s.inFlight[c] - 1
          /\ c # k => t.inFlight[c] = s.inFlight[c]
      BY <1>3, <1>4, SlottedFacts DEF AtLeast
    <2>4. Cardinality(Slotted(t, c)) = IF o \in Slotted(s, c) THEN Cardinality(Slotted(s, c)) - 1
                                       ELSE Cardinality(Slotted(s, c))
      BY <2>2, <2>3, FS_RemoveElement
    <2>5. Free({o}, c) \in Nat
      BY <1>2, FreeFacts
    <2>6. CASE c # k
      <3>1. o \notin Slotted(s, c)
        BY <2>6 DEF Slotted, InCategory, k
      <3> QED
        BY <2>3, <2>4, <2>5, <2>6, <3>1 DEF Loses
    <2>7. CASE c = k /\ o \in SubmitOps \cup BulkOps \cup HandleOps
      <3>1. o \in Slotted(s, c)
        BY <2>7 DEF Slotted, InCategory, k
      <3> QED
        BY <2>3, <2>4, <2>5, <3>1 DEF Loses
    <2>8. CASE c = k /\ o \notin SubmitOps \cup BulkOps \cup HandleOps
      <3>1. o \notin Slotted(s, c) /\ {o} \cap (MountOps \cup ExportOps) = {o}
        BY <1>2, <2>8 DEF Slotted, InCategory, Ops, NfsOps
      <3>2. Free({o}, c) = 1
        BY <1>5, <1>6, <2>8, <3>1 DEF Free
      <3> QED
        BY <2>3, <2>4, <3>1, <3>2 DEF Loses
    <2> QED
      BY <2>6, <2>7, <2>8
  <1> QED
    BY <1>8, <1>9

\* What the callers whose calls are resumed are told.
ToldOnce(s, t, S, r) ==
    \A o \in Ops : t.reply[o] = IF o \notin S \ s.resumed THEN s.reply[o]
                                ELSE IF s.reply[o] = "waiting" THEN r
                                ELSE "trap"

\* CallbackData.resume leaves the requests and the counts alone.
LEMMA ResumeTells ==
    ASSUME NEW s \in LoopType, NEW S \in SUBSET Ops, NEW r \in Results, NEW t, t = Resume(s, S, r)
    PROVE  /\ t \in LoopType /\ t.resumed = s.resumed \cup S
           /\ t.inFlight = s.inFlight /\ t.controller = s.controller /\ t.rpc = s.rpc
           /\ ToldOnce(s, t, S, r)
  <1>1. t \in LoopType
    BY ResumeFields
  <1>2. t.resumed = s.resumed \cup S
    BY ResumeFields
  <1>3. t.inFlight = s.inFlight /\ t.controller = s.controller /\ t.rpc = s.rpc
    BY DEF Resume, ContinuationResume, LoopType
  <1>4. ToldOnce(s, t, S, r)
    BY DEF Resume, ContinuationResume, LoopType, ToldOnce
  <1> QED
    BY <1>1, <1>2, <1>3, <1>4

\* The calls in S wait for a result or have been told one before.
Resumable(s, S) == S \subseteq Waiting(s) \cup s.resumed

\* Returning any other result than a timeout answers and times out nothing.
LEMMA ResumeAdvances ==
    ASSUME NEW s \in LoopType, NEW S \in SUBSET Ops, NEW r \in Results, r # "ETIMEDOUT",
           Resumable(s, S), NEW t, t = Resume(s, S, r), NEW success
    PROVE  /\ Advances(s, t, {}, {}, success)
           /\ \A c \in Categories : Loses(s, t, c, 0)
           /\ \A o \in Ops : s.reply[o] # "ok" /\ r # "ok" => t.reply[o] # "ok"
           /\ \A o \in S : s.reply[o] = "waiting" /\ o \notin s.resumed => t.reply[o] = r
  <1>1. /\ t.inFlight = s.inFlight /\ t.controller = s.controller /\ t.rpc = s.rpc
        /\ ToldOnce(s, t, S, r)
    BY ResumeTells
  <1>2. ASSUME NEW o \in S \ s.resumed
        PROVE  s.reply[o] = "waiting"
    <2>1. o \in Waiting(s)
      BY DEF Resumable
    <2> QED
      BY <2>1 DEF Waiting
  <1>3. \A o \in Ops : t.reply[o] = "ETIMEDOUT" <=> s.reply[o] = "ETIMEDOUT"
    BY <1>1, <1>2 DEF ToldOnce
  <1>4. Advances(s, t, {}, {}, success)
    BY <1>1, <1>3, QuietAdvances
  <1>5. ASSUME NEW c \in Categories PROVE Loses(s, t, c, 0)
    <2>1. Slotted(t, c) = Slotted(s, c)
      BY <1>1 DEF Slotted, Sent
    <2>2. \A m \in Nat : m + 0 = m
      OBVIOUS
    <2> QED
      BY <1>1, <2>1, <2>2 DEF Loses
  <1> QED
    BY <1>1, <1>2, <1>4, <1>5 DEF ToldOnce

\* A callback records one completion, with the outcome it is given, and tells the
\* caller who waits the result.
LEMMA NfsCallbackAdvances ==
    ASSUME NEW s, Good(s), NEW o \in Sent(s), NEW success, NEW r \in {"ok", "error", "cancelled"},
           NEW hasContext, NEW t \in NfsCallback(s, o, success, r, hasContext)
    PROVE  /\ Advances(s, t, {o}, {}, success)
           /\ \A c \in Categories : Loses(s, t, c, Free({o}, c))
           /\ s.reply[o] = "waiting" => t.reply[o] = r
  <1> DEFINE d == Completed(s, o, success)
  <1>1. PICK u \in IssuePendingOperations(d, hasContext) : t = Resume(u, {o}, r)
    BY DEF NfsCallback, HandleCallbackCompletion, Completed
  <1>2. /\ Good(d) /\ d.reply = s.reply
        /\ \A p \in Ops : d.rpc[p] = IF p = o THEN "done" ELSE s.rpc[p]
    BY CompletedFields
  <1>3. /\ Advances(s, d, {o}, {}, success)
        /\ \A c \in Categories : Loses(s, d, c, Free({o}, c))
    BY CompletedAdvances
  <1>4. o \in Ops /\ o \in Waiting(s) \cup s.resumed
    BY DEF Sent, Good, Consistent
  <1>5. d.resumed = s.resumed
    BY DEF Completed, RecordCompletion, Good, LoopType
  <1> HIDE DEF d
  <1>6. Good(u) /\ Issues(d, u) /\ Follows(d, u) /\ u \in LoopType
    BY <1>1, <1>2, IssuePendingGood, IssuePendingIssues DEF Good
  <1>7. Advances(d, u, {}, {}, success) /\ \A c \in Categories : Loses(d, u, c, 0)
    BY <1>2, <1>6, IssuesAdvance
  <1>8. {o} \in SUBSET Ops /\ Resumable(u, {o})
    BY <1>2, <1>4, <1>5, <1>6 DEF Follows, Waiting, Resumable
  <1>9. r \in Results /\ r # "ETIMEDOUT"
    BY DEF Results
  <1>10. /\ Advances(u, t, {}, {}, success) /\ \A c \in Categories : Loses(u, t, c, 0)
         /\ \A p \in {o} : u.reply[p] = "waiting" /\ p \notin u.resumed => t.reply[p] = r
    <2> DEFINE S == {o}
    <2>1. S \in SUBSET Ops /\ Resumable(u, S) /\ t = Resume(u, S, r)
      BY <1>1, <1>8
    <2> HIDE DEF S
    <2>2. /\ Advances(u, t, {}, {}, success) /\ \A c \in Categories : Loses(u, t, c, 0)
          /\ \A p \in S : u.reply[p] = "waiting" /\ p \notin u.resumed => t.reply[p] = r
      BY <1>6, <1>9, <2>1, ResumeAdvances
    <2> QED
      BY <2>2 DEF S
  <1>11. Advances(s, t, {o}, {}, success)
    <2>1. Advances(s, u, {o} \cup {}, {} \cup {}, success)
      BY <1>3, <1>7, AdvancesTransitive
    <2>2. Advances(s, t, ({o} \cup {}) \cup {}, ({} \cup {}) \cup {}, success)
      BY <1>10, <2>1, AdvancesTransitive
    <2>3. ({o} \cup {}) \cup {} = {o} /\ ({} \cup {}) \cup {} = {}
      OBVIOUS
    <2> QED
      BY <2>2, <2>3
  <1>12. ASSUME NEW c \in Categories PROVE Loses(s, t, c, Free({o}, c))
    <2>1. Free({o}, c) \in Nat /\ (Free({o}, c) + 0) + 0 = Free({o}, c)
      BY <1>4, FreeFacts
    <2>2. Loses(s, u, c, Free({o}, c) + 0)
      BY <1>3, <1>7, <2>1, LosesTransitive
    <2>3. Loses(s, t, c, (Free({o}, c) + 0) + 0)
      BY <1>10, <2>1, <2>2, LosesTransitive
    <2> QED
      BY <2>1, <2>3
  <1>13. ASSUME s.reply[o] = "waiting" PROVE t.reply[o] = r
    <2>1. o \notin PendingSet(d)
      BY <1>2, <1>4 DEF Good, Consistent
    <2>2. u.reply[o] = "waiting"
      BY <1>2, <1>4, <1>6, <1>13, <2>1 DEF Issues
    <2>3. o \notin u.resumed
      BY <1>4, <1>6, <2>2 DEF Good, Consistent, Waiting
    <2> QED
      BY <1>10, <2>2, <2>3
  <1> QED
    BY <1>11, <1>12, <1>13

\* The same for an answer, whose outcome is a success when the caller is told so.
LEMMA AnswerAdvances ==
    ASSUME NEW s, Good(s), NEW o \in Sent(s), NEW hasContext, NEW t \in Answer(s, o, hasContext)
    PROVE  /\ \E success \in BOOLEAN :
                 /\ Advances(s, t, {o}, {}, success)
                 /\ s.reply[o] = "waiting" => (success <=> t.reply[o] = "ok")
           /\ \A c \in Categories : Loses(s, t, c, Free({o}, c))
  <1>1. CASE t \in NfsCallback(s, o, TRUE, "ok", hasContext)
    <2>1. /\ Advances(s, t, {o}, {}, TRUE)
          /\ \A c \in Categories : Loses(s, t, c, Free({o}, c))
          /\ s.reply[o] = "waiting" => t.reply[o] = "ok"
      BY <1>1, NfsCallbackAdvances
    <2> QED
      BY <2>1
  <1>2. CASE t \in NfsCallback(s, o, FALSE, "error", hasContext)
    <2>1. /\ Advances(s, t, {o}, {}, FALSE)
          /\ \A c \in Categories : Loses(s, t, c, Free({o}, c))
          /\ s.reply[o] = "waiting" => t.reply[o] = "error"
      BY <1>2, NfsCallbackAdvances
    <2> QED
      BY <2>1
  <1> QED
    BY <1>1, <1>2 DEF Answer

\* cleanupRpcExports records a failure when it runs the query's callback, and
\* nothing otherwise.
LEMMA CleanupAdvances ==
    ASSUME NEW s, Good(s), NEW e \in ExportOps, NEW hasContext,
           NEW t \in CleanupRpcExports(s, e, hasContext)
    PROVE  \E A \in SUBSET {e} :
               /\ Advances(s, t, A, {}, FALSE)
               /\ \A c \in Categories : Loses(s, t, c, Free(A, c))
               /\ s.reply[e] = "waiting" /\ A # {} => t.reply[e] # "ok"
  <1>1. s \in LoopType /\ e \in Ops
    BY OpsFacts DEF Good
  <1>2. ASSUME t.controller = s.controller, t.inFlight = s.inFlight, t.reply = s.reply,
               \A p \in Ops : t.rpc[p] = "done" <=> s.rpc[p] = "done",
               \A c \in Categories : Slotted(t, c) = Slotted(s, c)
        PROVE  Advances(s, t, {}, {}, FALSE) /\ \A c \in Categories : Loses(s, t, c, Free({}, c))
    <2>1. Advances(s, t, {}, {}, FALSE)
      BY <1>2, QuietAdvances
    <2>2. \A c : Free({}, c) = 0
      BY FreeFacts
    <2>3. \A m \in Nat : m + 0 = m
      OBVIOUS
    <2> QED
      BY <1>2, <2>1, <2>2, <2>3 DEF Loses
  <1>3. CASE t = s
    BY <1>2, <1>3
  <1>4. CASE t \in NfsCallback(s, e, FALSE, "cancelled", hasContext) /\ s.rpc[e] = "sent"
    <2>1. e \in Sent(s)
      BY <1>1, <1>4 DEF Sent
    <2>2. /\ Advances(s, t, {e}, {}, FALSE)
          /\ \A c \in Categories : Loses(s, t, c, Free({e}, c))
          /\ s.reply[e] = "waiting" => t.reply[e] = "cancelled"
      BY <1>4, <2>1, NfsCallbackAdvances
    <2> QED
      BY <2>2
  <1>5. CASE t = [s EXCEPT !.rpc = Override(s.rpc, e, "dropped")] /\ s.rpc[e] = "sent"
    <2>1. s.rpc \in [Ops -> {"none", "sent", "done", "dropped"}]
      BY <1>1 DEF LoopType
    <2>2. t.reply = s.reply /\ t.controller = s.controller /\ t.inFlight = s.inFlight
      BY <1>1, <1>5 DEF LoopType
    <2>3. t.rpc = Override(s.rpc, e, "dropped")
      BY <1>1, <1>5 DEF LoopType
    <2>4. \A p \in Ops : t.rpc[p] = IF p = e THEN "dropped" ELSE s.rpc[p]
      BY <2>1, <2>3 DEF Override
    <2>5. \A p \in Ops : t.rpc[p] = "done" <=> s.rpc[p] = "done"
      BY <1>5, <2>4
    <2>6. e \notin SubmitOps \cup BulkOps \cup HandleOps
      BY LoopAssumption
    <2>7. \A c \in Categories : Slotted(t, c) = Slotted(s, c)
      BY <2>4, <2>6 DEF Slotted, InCategory, Sent
    <2> QED
      BY <1>2, <2>2, <2>5, <2>7
  <1> QED
    BY <1>3, <1>4, <1>5 DEF CleanupRpcExports

\* A teardown records a failure for each request whose callback destroying the
\* context runs, and tells none of their callers "ok".
LEMMA TearDownAdvances ==
    ASSUME NEW s, Good(s), NEW t \in TearDown(s, s.active)
    PROVE  \E R \in SUBSET Sent(s) :
               /\ Advances(s, t, R, {}, FALSE)
               /\ \A o \in R : s.reply[o] # "ok" => t.reply[o] # "ok"
  <1> DEFINE a == [s EXCEPT !.active = {}, !.pending = <<>>]
             sent == Sent(a) \cap NfsOps
             S == s.active
  <1>1. PICK u \in DestroyContext(a) : t = Resume(u, S, "ENOTCONN")
    BY DEF TearDown
  <1>2. s \in LoopType /\ Consistent(s) /\ S \in SUBSET Ops
    BY DEF Good, LoopType
  <1>3. a \in LoopType
    <2>1. <<>> \in Seq(SubmitOps) /\ {} \in SUBSET Ops
      OBVIOUS
    <2> QED
      BY <1>2, <2>1 DEF LoopType
  <1>4. a.rpc = s.rpc /\ a.controller = s.controller
    BY <1>2 DEF LoopType
  <1>5. a.reply = s.reply /\ a.resumed = s.resumed
    BY <1>2 DEF LoopType
  <1> HIDE DEF a
  <1>6. PICK D \in SUBSET (sent \cap MountOps) : u = Cancelled(a, sent \ D, D)
    BY <1>1 DEF DestroyContext
  <1> DEFINE R == sent \ D
             Q == [o \in Ops |-> IF o \in R THEN "done"
                                 ELSE IF o \in D THEN "dropped" ELSE a.rpc[o]]
             v == [a EXCEPT !.rpc = Q, !.retained = @ \ R]
             f == RecordFailed(v, R)
  <1>7. /\ R \in SUBSET Sent(s) /\ R \in SUBSET Ops /\ D \in SUBSET Sent(s)
        /\ R \in SUBSET Sent(a) /\ R \cap D = {}
        /\ u = Resume(f, R, "cancelled")
    BY <1>4, <1>6 DEF Cancelled, Sent
  <1> HIDE DEF sent, R
  <1>8. Q \in [Ops -> {"none", "sent", "done", "dropped"}]
    BY <1>3 DEF LoopType
  <1>9. \A p \in Ops : /\ p \in R => s.rpc[p] # "done"
                       /\ Q[p] = "done" <=> s.rpc[p] = "done" \/ p \in R
    BY <1>4, <1>7 DEF Sent
  <1> HIDE DEF Q
  <1>10. v \in LoopType
    BY <1>3, <1>8 DEF LoopType
  <1>11. v.rpc = Q /\ v.controller = a.controller
    BY <1>3, <1>8 DEF LoopType
  <1>12. v.reply = a.reply /\ v.resumed = a.resumed
    BY <1>3, <1>8 DEF LoopType
  <1> HIDE DEF v
  <1>13. f \in LoopType /\ SameCalls(v, f)
    BY <1>7, <1>10, RecordFailedFields
  <1>14. f.controller = [c \in Categories |->
             RecordRepeatedly(v.controller[c], FALSE, Cardinality(InCategory(R, c)))]
    BY <1>10 DEF RecordFailed, LoopType
  <1> HIDE DEF f
  <1>15. Advances(s, f, R, {}, FALSE)
    <2>1. ASSUME NEW c \in Categories
          PROVE  f.controller[c] = RecordRepeatedly(s.controller[c], FALSE,
                                      Cardinality(InCategory(R, c)) + Cardinality(InCategory({}, c)))
      <3>1. /\ Cardinality(InCategory(R, c)) \in Nat /\ Cardinality(InCategory({}, c)) = 0
        BY <1>7, CountType, FreeFacts
      <3>2. Cardinality(InCategory(R, c)) + Cardinality(InCategory({}, c))
                = Cardinality(InCategory(R, c))
        BY <3>1
      <3> QED
        BY <1>4, <1>11, <1>14, <3>2
    <2>2. \A p \in Ops : /\ p \in R => s.rpc[p] # "done"
                         /\ f.rpc[p] = "done" <=> s.rpc[p] = "done" \/ p \in R
      BY <1>9, <1>11, <1>13 DEF SameCalls
    <2>3. f.reply = s.reply
      BY <1>5, <1>12, <1>13 DEF SameCalls
    <2> QED
      BY <1>7, <2>1, <2>2, <2>3 DEF Advances
  <1>16. f.reply = s.reply /\ f.resumed = s.resumed
    BY <1>5, <1>12, <1>13 DEF SameCalls
  <1>17. Resumable(f, R) /\ Resumable(f, S)
    BY <1>2, <1>7, <1>16 DEF Consistent, Waiting, Resumable
  <1>18. "cancelled" \in Results /\ "ENOTCONN" \in Results
    BY DEF Results
  <1> PICK failure : failure = FALSE
    OBVIOUS
  <1>19. /\ Advances(f, u, {}, {}, failure)
         /\ \A o \in Ops : f.reply[o] # "ok" => u.reply[o] # "ok"
    BY <1>7, <1>13, <1>17, <1>18, ResumeAdvances
  <1>20. u \in LoopType /\ u.resumed = f.resumed \cup R /\ ToldOnce(f, u, R, "cancelled")
    BY <1>7, <1>13, <1>18, ResumeTells
  <1>21. Resumable(u, S)
    BY <1>2, <1>17, <1>20 DEF Waiting, ToldOnce, Resumable
  <1>22. /\ Advances(u, t, {}, {}, failure)
         /\ \A o \in Ops : u.reply[o] # "ok" => t.reply[o] # "ok"
    BY <1>1, <1>2, <1>18, <1>20, <1>21, ResumeAdvances
  <1>23. Advances(s, t, R, {}, FALSE)
    <2>1. Advances(s, f, R, {}, failure)
      BY <1>15
    <2>2. Advances(s, u, R \cup {}, {} \cup {}, failure)
      BY <1>19, <2>1, AdvancesTransitive
    <2>3. Advances(s, t, (R \cup {}) \cup {}, ({} \cup {}) \cup {}, failure)
      BY <1>22, <2>2, AdvancesTransitive
    <2>4. (R \cup {}) \cup {} = R /\ ({} \cup {}) \cup {} = {}
      OBVIOUS
    <2> QED
      BY <2>3, <2>4
  <1>24. \A o \in R : s.reply[o] # "ok" => t.reply[o] # "ok"
    BY <1>7, <1>16, <1>19, <1>22
  <1> QED
    BY <1>7, <1>23, <1>24

\* scanForTimeouts records a failure for each call it times out, though the slot
\* it gives back may still be held by the request.
LEMMA TimedOutAdvances ==
    ASSUME NEW s \in LoopType, NEW T \in SUBSET Waiting(s), T \cap s.resumed = {}, NEW t,
           t = Resume(RecordFailed([s EXCEPT !.active = @ \ T], T), T, "ETIMEDOUT")
    PROVE  /\ Advances(s, t, {}, T, FALSE)
           /\ \A c \in Categories : Loses(s, t, c, Cardinality(InCategory(T, c)))
  <1> DEFINE d == [s EXCEPT !.active = @ \ T]
             f == RecordFailed(d, T)
  <1>1. T \in SUBSET Ops /\ \A o \in T : s.reply[o] = "waiting"
    BY DEF Waiting
  <1>2. /\ s.inFlight \in [Categories -> Nat] /\ s.controller \in [Categories -> Controller]
        /\ s.active \in SUBSET Ops
    BY DEF LoopType
  <1>3. d \in LoopType
    BY <1>2 DEF LoopType
  <1>4. /\ d.inFlight = s.inFlight /\ d.controller = s.controller
        /\ d.rpc = s.rpc /\ d.reply = s.reply /\ d.resumed = s.resumed
    BY DEF LoopType
  <1> HIDE DEF d
  <1>5. f \in LoopType /\ SameCalls(d, f)
    BY <1>1, <1>3, RecordFailedFields
  <1>6. f.inFlight = [c \in Categories |->
            AtLeast(0, s.inFlight[c] - Cardinality(InCategory(T, c)))]
    BY <1>3, <1>4 DEF RecordFailed, LoopType
  <1>7. f.controller = [c \in Categories |->
            RecordRepeatedly(s.controller[c], FALSE, Cardinality(InCategory(T, c)))]
    BY <1>3, <1>4 DEF RecordFailed, LoopType
  <1>8. t = Resume(f, T, "ETIMEDOUT")
    BY DEF d
  <1> HIDE DEF f
  <1>9. /\ t.inFlight = f.inFlight /\ t.controller = f.controller /\ t.rpc = s.rpc
        /\ ToldOnce(f, t, T, "ETIMEDOUT")
    <2>1. "ETIMEDOUT" \in Results
      BY DEF Results
    <2>2. f.rpc = s.rpc
      BY <1>4, <1>5 DEF SameCalls
    <2> QED
      BY <1>1, <1>5, <1>8, <2>1, <2>2, ResumeTells
  <1>10. \A o \in Ops : t.reply[o] = IF o \in T THEN "ETIMEDOUT" ELSE s.reply[o]
    <2>1. f.reply = s.reply /\ f.resumed = s.resumed
      BY <1>4, <1>5 DEF SameCalls
    <2> QED
      BY <1>1, <1>9, <2>1 DEF ToldOnce
  <1>11. ASSUME NEW c \in Categories
         PROVE  t.controller[c] = RecordRepeatedly(s.controller[c], FALSE,
                   Cardinality(InCategory({}, c)) + Cardinality(InCategory(T, c)))
    <2>1. Cardinality(InCategory({}, c)) = 0 /\ Cardinality(InCategory(T, c)) \in Nat
      BY <1>1, FreeFacts, CountType
    <2>2. Cardinality(InCategory({}, c)) + Cardinality(InCategory(T, c))
              = Cardinality(InCategory(T, c))
      BY <2>1
    <2> QED
      BY <1>7, <1>9, <2>2
  <1>12. Advances(s, t, {}, T, FALSE)
    BY <1>1, <1>9, <1>10, <1>11 DEF Advances
  <1>13. ASSUME NEW c \in Categories
         PROVE  Loses(s, t, c, Cardinality(InCategory(T, c)))
    <2>1. Slotted(t, c) = Slotted(s, c)
      BY <1>9 DEF Slotted, Sent
    <2>2. /\ s.inFlight[c] \in Nat /\ Cardinality(InCategory(T, c)) \in Nat
          /\ Cardinality(Slotted(s, c)) \in Nat
      BY <1>1, <1>2, CountType, SlottedFacts
    <2>3. t.inFlight[c] = AtLeast(0, s.inFlight[c] - Cardinality(InCategory(T, c)))
      BY <1>6, <1>9
    <2>4. t.inFlight[c] \in Nat /\ t.inFlight[c] >= s.inFlight[c] - Cardinality(InCategory(T, c))
      BY <2>2, <2>3 DEF AtLeast
    <2> QED
      BY <2>1, <2>2, <2>4 DEF Loses
  <1> QED
    BY <1>12, <1>13

-----------------------------------------------------------------------------
(* What starting a call does to them.                                       *)

\* A block that starts the call o counts and records nothing yet, and touches no
\* other call.
Opens(s, t, o) ==
    /\ t.inFlight = s.inFlight /\ t.controller = s.controller
    /\ t.reply[o] # "ETIMEDOUT"
    /\ \A p \in Ops \ {o} : t.reply[p] = s.reply[p] /\ t.rpc[p] = s.rpc[p]

\* Turning a call away at the top of its block.
LEMMA RefuseOpens ==
    ASSUME NEW s \in LoopType, NEW o \in Ops, NEW r, r # "ETIMEDOUT", NEW t, t = Refuse(s, o, r)
    PROVE  Opens(s, t, o) /\ t.pending = s.pending /\ t.rpc = s.rpc
  <1>1. s.reply \in [Ops -> Results \cup {"idle", "waiting", "trap"}]
    BY DEF LoopType
  <1>2. t.inFlight = s.inFlight /\ t.controller = s.controller
    BY DEF Refuse, Call, ContinuationResume, LoopType
  <1>3. t.pending = s.pending /\ t.rpc = s.rpc
    BY DEF Refuse, Call, ContinuationResume, LoopType
  <1>4. \A p \in Ops : t.reply[p] = IF p = o THEN r ELSE s.reply[p]
    BY <1>1 DEF Refuse, Call, ContinuationResume, Override, LoopType
  <1> QED
    BY <1>2, <1>3, <1>4 DEF Opens

\* Turning it away after it was registered.
LEMMA RegisteredRefusedOpens ==
    ASSUME NEW s \in LoopType, NEW o \in Ops, NEW r, r # "ETIMEDOUT", NEW t,
           t = ContinuationResume([Register(s, o) EXCEPT !.active = @ \ {o}], {o}, r)
    PROVE  Opens(s, t, o) /\ t.pending = s.pending /\ t.rpc = s.rpc
  <1>1. s.reply \in [Ops -> Results \cup {"idle", "waiting", "trap"}]
    BY DEF LoopType
  <1>2. t.inFlight = s.inFlight /\ t.controller = s.controller
    BY DEF Register, Call, ContinuationResume, LoopType
  <1>3. t.pending = s.pending /\ t.rpc = s.rpc
    BY DEF Register, Call, ContinuationResume, LoopType
  <1>4. \A p \in Ops : t.reply[p] = IF p = o THEN r ELSE s.reply[p]
    BY <1>1 DEF Register, Call, ContinuationResume, Override, LoopType
  <1> QED
    BY <1>2, <1>3, <1>4 DEF Opens

\* Handing a call to libnfs.
LEMMA AcceptOpens ==
    ASSUME NEW s \in LoopType, NEW o \in Ops, NEW t, t = Accept(Register(s, o), o)
    PROVE  /\ Opens(s, t, o) /\ t.pending = s.pending
           /\ t.reply[o] = "waiting" /\ t.rpc[o] = "sent"
  <1>1. /\ s.reply \in [Ops -> Results \cup {"idle", "waiting", "trap"}]
        /\ s.rpc \in [Ops -> {"none", "sent", "done", "dropped"}]
    BY DEF LoopType
  <1>2. t.inFlight = s.inFlight /\ t.controller = s.controller /\ t.pending = s.pending
    BY DEF Accept, Register, Call, LoopType
  <1>3. t.reply = Override(s.reply, o, "waiting")
    BY DEF Accept, Register, Call, LoopType
  <1>4. t.rpc = Override(s.rpc, o, "sent")
    BY DEF Accept, Register, Call, LoopType
  <1> QED
    BY <1>1, <1>2, <1>3, <1>4 DEF Opens, Override

\* Queueing a call.
LEMMA EnqueueOpens ==
    ASSUME NEW s \in LoopType, NEW o \in Ops, NEW t,
           t = [Register(s, o) EXCEPT !.retained = @ \cup {o}, !.pending = Append(@, o)]
    PROVE  Opens(s, t, o) /\ t.rpc = s.rpc
  <1>1. /\ s.reply \in [Ops -> Results \cup {"idle", "waiting", "trap"}]
    BY DEF LoopType
  <1>2. t.inFlight = s.inFlight /\ t.controller = s.controller /\ t.rpc = s.rpc
    BY DEF Register, Call, LoopType
  <1>3. t.reply = Override(s.reply, o, "waiting")
    BY DEF Register, Call, LoopType
  <1> QED
    BY <1>1, <1>2, <1>3 DEF Opens, Override

-----------------------------------------------------------------------------
(* The second layer: what each block does to it.                            *)

\* A result is never taken back: who was told of a timeout stays so.
LEMMA TimedOutStays ==
    ASSUME Transition, NEW o \in Ops, loop.reply[o] = "ETIMEDOUT"
    PROVE  loop'.reply[o] = "ETIMEDOUT"
  BY DEF Transition, Follows, Starts, Idle

\* What the block records, for the action property, and what its counts lose, for
\* the bound on the undercount: its own requests A and the calls T it times out.
Settled ==
    \E A, T \in SUBSET Ops, success \in BOOLEAN :
        /\ Advances(loop, loop', A, T, success)
        /\ T # {} => ~success
        /\ \A o \in A : ~Overdue(o) => (success <=> loop'.reply[o] = "ok")
        /\ context' => \A c \in Categories :
                          Loses(loop, loop', c, Cardinality(InCategory(T, c)) + Free(A, c))

\* A block that answers nothing and times nothing out.
LEMMA QuietSettled ==
    ASSUME loop'.controller = loop.controller,
           \A p \in Ops : loop'.rpc[p] = "done" <=> loop.rpc[p] = "done",
           \A p \in Ops : loop'.reply[p] = "ETIMEDOUT" <=> loop.reply[p] = "ETIMEDOUT",
           context' => \A c \in Categories : Loses(loop, loop', c, 0)
    PROVE  Settled
  <1>1. Advances(loop, loop', {}, {}, FALSE)
    BY QuietAdvances
  <1>2. \A c \in Categories : Cardinality(InCategory({}, c)) + Free({}, c) = 0
    BY FreeFacts
  <1>3. context' => \A c \in Categories :
                        Loses(loop, loop', c, Cardinality(InCategory({}, c)) + Free({}, c))
    BY <1>2
  <1> QED
    BY <1>1, <1>3 DEF Settled

\* A block that answers the requests in A and times nothing out.
LEMMA AnsweredSettled ==
    ASSUME NEW A \in SUBSET Ops, NEW success \in BOOLEAN,
           Advances(loop, loop', A, {}, success),
           \A o \in A : ~Overdue(o) => (success <=> loop'.reply[o] = "ok"),
           context' => \A c \in Categories : Loses(loop, loop', c, Free(A, c))
    PROVE  Settled
  <1>1. \A c \in Categories : Cardinality(InCategory({}, c)) + Free(A, c) = Free(A, c)
    BY FreeFacts
  <1>2. context' => \A c \in Categories :
                        Loses(loop, loop', c, Cardinality(InCategory({}, c)) + Free(A, c))
    BY <1>1
  <1> QED
    BY <1>2 DEF Settled

\* Each of these records is one that the property counts.
LEMMA SettledRecords ==
    ASSUME Settled
    PROVE  RecordsCounted
  <1>1. PICK A, T \in SUBSET Ops, success \in BOOLEAN :
            /\ Advances(loop, loop', A, T, success)
            /\ T # {} => ~success
            /\ \A o \in A : ~Overdue(o) => (success <=> loop'.reply[o] = "ok")
    BY DEF Settled
  <1>2. ASSUME NEW c \in Categories
        PROVE  Answered(c) = InCategory(A, c) /\ TimedOut(c) = InCategory(T, c)
    <2>1. Answered(c) = InCategory(A, c)
      BY <1>1 DEF Answered, Advances, InCategory
    <2>2. TimedOut(c) = InCategory(T, c)
      BY <1>1 DEF TimedOut, Advances, InCategory
    <2> QED
      BY <2>1, <2>2
  <1>3. ASSUME NEW c \in Categories
        PROVE  /\ loop'.controller[c] =
                      RecordRepeatedly(loop.controller[c], success,
                                       Cardinality(Answered(c)) + Cardinality(TimedOut(c)))
               /\ TimedOut(c) # {} => ~success
               /\ \A o \in Answered(c) : ~Overdue(o) => (success <=> loop'.reply[o] = "ok")
    <2>1. loop'.controller[c] =
              RecordRepeatedly(loop.controller[c], success,
                               Cardinality(Answered(c)) + Cardinality(TimedOut(c)))
      BY <1>1, <1>2 DEF Advances
    <2>2. Answered(c) \subseteq A /\ TimedOut(c) \subseteq T
      BY <1>2 DEF InCategory
    <2> QED
      BY <1>1, <2>1, <2>2
  <1> QED
    BY <1>3 DEF RecordsCounted

\* The second layer after a block that keeps the context as it is, part by part.
LEMMA OpenInvNext ==
    ASSUME Inv, OpenInv, Transition, context' = context, process' = "live",
           context => rpcExports' \subseteq Sent(loop') \cap Waiting(loop'),
           context => Counted(loop', 1),
           context /\ Drained(loop) =>
               Drained(loop') \/ \E o \in Ops : loop'.reply[o] = "ETIMEDOUT"
    PROVE  OpenInv'
  <1>1. ExportsReleased' /\ ResumesOnQueue' /\ (context => Counted(loop, 1))'
    BY DEF ExportsReleased, ResumesOnQueue
  <1>2. QueuedWhenFull'
    <2> SUFFICES ASSUME context, loop'.pending # <<>>,
                        \A o \in Ops : loop'.reply[o] # "ETIMEDOUT"
                 PROVE  ~HasSlot(loop', "metadata")
      BY DEF QueuedWhenFull
    <2>1. \A o \in Ops : loop.reply[o] # "ETIMEDOUT"
      BY TimedOutStays
    <2>2. Drained(loop)
      BY <2>1 DEF OpenInv, QueuedWhenFull, Drained
    <2> QED
      BY <2>2 DEF Drained
  <1> QED
    BY <1>1, <1>2 DEF OpenInv

\* The export query that owns the RPC context goes on while nobody touches it.
LEMMA UntouchedExports ==
    ASSUME Inv, OpenInv, context, NEW X \in SUBSET rpcExports,
           \A e \in X : loop'.reply[e] = loop.reply[e] /\ loop'.rpc[e] = loop.rpc[e]
    PROVE  X \subseteq Sent(loop') \cap Waiting(loop')
  <1>1. \A e \in X : e \in Sent(loop) /\ e \in Waiting(loop)
    BY DEF OpenInv, ExportsReleased
  <1> QED
    BY <1>1 DEF Sent, Waiting

\* A block that completes the calls in S and starts none.
LEMMA RecordsStep ==
    ASSUME Inv, OpenInv, Transition, context' = context, process' = "live",
           NEW S \in SUBSET Ops, Records(loop, loop', S),
           rpcExports' \subseteq rpcExports \ S,
           context /\ Drained(loop) =>
               Drained(loop') \/ \E o \in Ops : loop'.reply[o] = "ETIMEDOUT"
    PROVE  OpenInv'
  <1>3. context => Counted(loop', 1)
    BY DEF OpenInv, Records
  <1>4. context => rpcExports' \subseteq Sent(loop') \cap Waiting(loop')
    <2> SUFFICES ASSUME context PROVE rpcExports' \subseteq Sent(loop') \cap Waiting(loop')
      OBVIOUS
    <2>1. rpcExports \subseteq ExportOps
      BY InvParts
    <2>2. \A e \in rpcExports' : loop'.reply[e] = loop.reply[e] /\ loop'.rpc[e] = loop.rpc[e]
      BY <2>1 DEF Records
    <2>3. rpcExports' \in SUBSET rpcExports
      OBVIOUS
    <2> QED
      BY <2>2, <2>3, UntouchedExports
  <1> QED
    BY <1>3, <1>4, OpenInvNext

\* A request handed to libnfs holds one more slot of its category.
LEMMA AcceptSlots ==
    ASSUME NEW s, Good(s), NEW o \in Idle(s), o \in SubmitOps \cup BulkOps \cup HandleOps,
           NEW t, t = Accept(Register(s, o), o), NEW c
    PROVE  Cardinality(Slotted(t, c)) =
               Cardinality(Slotted(s, c)) + (IF c = Category(o) THEN 1 ELSE 0)
  <1>1. s \in LoopType /\ o \in Ops /\ s.rpc[o] = "none"
    BY DEF Good, Consistent, Idle
  <1>2. t.rpc[o] = "sent" /\ \A p \in Ops \ {o} : t.rpc[p] = s.rpc[p]
    BY <1>1, AcceptOpens DEF Opens
  <1>3. Sent(t) = Sent(s) \cup {o} /\ o \notin Sent(s)
    BY <1>1, <1>2 DEF Sent
  <1>4. IsFiniteSet(Slotted(s, c)) /\ Cardinality(Slotted(s, c)) \in Nat /\ o \notin Slotted(s, c)
    BY <1>3, SlottedFacts
  <1>5. CASE c = Category(o)
    <2>1. Slotted(t, c) = Slotted(s, c) \cup {o}
      BY <1>3, <1>5 DEF Slotted, InCategory
    <2>2. Cardinality(Slotted(s, c) \cup {o}) = Cardinality(Slotted(s, c)) + 1
      BY <1>4, FS_AddElement
    <2> QED
      BY <1>5, <2>1, <2>2
  <1>6. CASE c # Category(o)
    <2>1. Slotted(t, c) = Slotted(s, c)
      BY <1>3, <1>6 DEF Slotted, InCategory
    <2> QED
      BY <1>4, <1>6, <2>1
  <1> QED
    BY <1>5, <1>6

\* Counting it takes the slot.
LEMMA AddInFlightCounts ==
    ASSUME NEW s \in LoopType, NEW c \in Categories, NEW t, t = AddInFlight(s, c, 1)
    PROVE  /\ t.inFlight["metadata"] = s.inFlight["metadata"] + (IF c = "metadata" THEN 1 ELSE 0)
           /\ t.inFlight["bulk"] = s.inFlight["bulk"] + (IF c = "bulk" THEN 1 ELSE 0)
           /\ t.controller = s.controller /\ t.pending = s.pending
           /\ t.rpc = s.rpc /\ t.reply = s.reply
  <1>1. s.inFlight \in [Categories -> Nat]
    BY DEF LoopType
  <1>2. t.inFlight = Override(s.inFlight, c, s.inFlight[c] + 1)
    BY DEF AddInFlight, LoopType
  <1>3. t.controller = s.controller /\ t.pending = s.pending
    BY DEF AddInFlight, LoopType
  <1>4. t.rpc = s.rpc /\ t.reply = s.reply
    BY DEF AddInFlight, LoopType
  <1>5. s.inFlight["metadata"] \in Nat /\ s.inFlight["bulk"] \in Nat
    BY InFlightFacts
  <1>6. /\ t.inFlight["metadata"] = IF c = "metadata" THEN s.inFlight["metadata"] + 1
                                                      ELSE s.inFlight["metadata"]
        /\ t.inFlight["bulk"] = IF c = "bulk" THEN s.inFlight["bulk"] + 1
                                              ELSE s.inFlight["bulk"]
    BY <1>1, <1>2 DEF Override, Categories
  <1> QED
    BY <1>3, <1>4, <1>5, <1>6

\* So a full pipeline stays full.
LEMMA AddInFlightDrained ==
    ASSUME NEW s \in LoopType, NEW c \in Categories, NEW t, t = AddInFlight(s, c, 1), Drained(s)
    PROVE  Drained(t)
  <1>1. /\ s.inFlight["metadata"] \in Nat
        /\ EffectiveDepth(s.controller["metadata"]) \in Nat
    BY InFlightFacts, EffectiveDepthType DEF LoopType, Categories
  <1>2. /\ t.inFlight["metadata"] = s.inFlight["metadata"] + (IF c = "metadata" THEN 1 ELSE 0)
        /\ t.controller = s.controller /\ t.pending = s.pending
    BY AddInFlightCounts
  <1> QED
    BY <1>1, <1>2 DEF Drained, HasSlot

\* The same requests and the same counts.
LEMMA SameSlots ==
    ASSUME NEW s, NEW t, t.inFlight = s.inFlight, \A c : Slotted(t, c) = Slotted(s, c)
    PROVE  \A c \in Categories : Loses(s, t, c, 0)
  <1>1. \A m \in Nat : m + 0 = m
    OBVIOUS
  <1> QED
    BY <1>1 DEF Loses

\* A block that starts the call o, records nothing, and leaves the export queries
\* alone.
LEMMA StartStep ==
    ASSUME Inv, OpenInv, Transition, NEW o \in Idle(loop), context' = context,
           process' = "live", rpcExports' = rpcExports,
           loop'.controller = loop.controller,
           \A p \in Ops \ {o} : loop'.reply[p] = loop.reply[p] /\ loop'.rpc[p] = loop.rpc[p],
           loop'.rpc[o] # "done", loop'.reply[o] # "ETIMEDOUT",
           \A c \in Categories : Loses(loop, loop', c, 0),
           context => Counted(loop', 1),
           Drained(loop) => Drained(loop')
    PROVE  OpenInv' /\ Settled
  <1>1. Settled
    <2>1. o \in Ops /\ loop.rpc[o] = "none" /\ loop.reply[o] = "idle"
      BY InvParts, IdleFacts
    <2>2. \A p \in Ops : loop'.rpc[p] = "done" <=> loop.rpc[p] = "done"
      BY <2>1
    <2>3. \A p \in Ops : loop'.reply[p] = "ETIMEDOUT" <=> loop.reply[p] = "ETIMEDOUT"
      BY <2>1
    <2> QED
      BY <2>2, <2>3, QuietSettled
  <1>2. context => rpcExports' \subseteq Sent(loop') \cap Waiting(loop')
    <2> SUFFICES ASSUME context PROVE rpcExports' \subseteq Sent(loop') \cap Waiting(loop')
      OBVIOUS
    <2>1. rpcExports \subseteq Waiting(loop)
      BY DEF OpenInv, ExportsReleased
    <2>2. \A e \in rpcExports : loop'.reply[e] = loop.reply[e] /\ loop'.rpc[e] = loop.rpc[e]
      BY <2>1 DEF Waiting, Idle
    <2> QED
      BY <2>2, UntouchedExports
  <1> QED
    BY <1>1, <1>2, OpenInvNext

\* A block that turns its caller away.
LEMMA TurnedAwayStep ==
    ASSUME Inv, OpenInv, Transition, NEW o \in Idle(loop), context' = context,
           process' = "live", rpcExports' = rpcExports,
           Opens(loop, loop', o), loop'.pending = loop.pending, loop'.rpc = loop.rpc
    PROVE  OpenInv' /\ Settled
  <1>1. context => Counted(loop', 1)
    BY DEF OpenInv, Counted, Slotted, Sent, Opens
  <1>2. Drained(loop) => Drained(loop')
    BY DEF Drained, HasSlot, Opens
  <1>3. \A c \in Categories : Loses(loop, loop', c, 0)
    <2>1. \A c : Slotted(loop', c) = Slotted(loop, c)
      BY DEF Slotted, Sent
    <2> QED
      BY <2>1, SameSlots DEF Opens
  <1>4. loop'.rpc[o] # "done"
    BY InvParts, IdleFacts
  <1> QED
    BY <1>1, <1>2, <1>3, <1>4, StartStep DEF Opens

\* A call that goes to libnfs and takes its slot.
LEMMA AcceptedStep ==
    ASSUME Inv, OpenInv, Transition, NEW o \in Idle(loop), context, context' = context,
           process' = "live", rpcExports' = rpcExports,
           o \in SubmitOps \cup BulkOps \cup HandleOps,
           loop' = AddInFlight(Accept(Register(loop, o), o), Category(o), 1)
    PROVE  OpenInv' /\ Settled
  <1> DEFINE a == Accept(Register(loop, o), o)
  <1>1. Good(loop) /\ loop \in LoopType /\ Detached(loop) = {} /\ o \in Ops
    BY InvParts DEF Idle
  <1>2. a \in LoopType
    BY <1>1, AcceptGood DEF Good
  <1>3. Opens(loop, a, o) /\ a.pending = loop.pending
    BY <1>1, AcceptOpens
  <1>4. ASSUME NEW c
        PROVE  Cardinality(Slotted(a, c)) =
                   Cardinality(Slotted(loop, c)) + (IF c = Category(o) THEN 1 ELSE 0)
    BY <1>1, AcceptSlots
  <1>5. loop' = AddInFlight(a, Category(o), 1)
    OBVIOUS
  <1> HIDE DEF a
  <1>6. Category(o) \in Categories
    BY <1>1, CategoryType
  <1>7. /\ loop'.inFlight["metadata"] =
              loop.inFlight["metadata"] + (IF Category(o) = "metadata" THEN 1 ELSE 0)
        /\ loop'.inFlight["bulk"] =
              loop.inFlight["bulk"] + (IF Category(o) = "bulk" THEN 1 ELSE 0)
        /\ loop'.controller = loop.controller
        /\ loop'.rpc = a.rpc /\ loop'.reply = a.reply
    BY <1>2, <1>3, <1>5, <1>6, AddInFlightCounts DEF Opens
  <1>8. Counted(loop', 1) /\ \A c \in Categories : Loses(loop, loop', c, 0)
    <2>1. \A c : Slotted(loop', c) = Slotted(a, c)
      BY <1>7 DEF Slotted, Sent
    <2>2. /\ Cardinality(Slotted(loop', "metadata")) =
                Cardinality(Slotted(loop, "metadata")) + (IF Category(o) = "metadata" THEN 1 ELSE 0)
          /\ Cardinality(Slotted(loop', "bulk")) =
                Cardinality(Slotted(loop, "bulk")) + (IF Category(o) = "bulk" THEN 1 ELSE 0)
      BY <1>4, <2>1
    <2>3. /\ loop.inFlight["metadata"] \in Nat /\ loop.inFlight["bulk"] \in Nat
          /\ Cardinality(Slotted(loop, "metadata")) \in Nat
          /\ Cardinality(Slotted(loop, "bulk")) \in Nat
      BY <1>1, InFlightFacts, SlottedFacts
    <2>4. Counted(loop, 1)
      BY DEF OpenInv
    <2>5. Counted(loop', 1)
      BY <1>7, <2>2, <2>3, <2>4 DEF Counted
    <2>6. Loses(loop, loop', "metadata", 0) /\ Loses(loop, loop', "bulk", 0)
      BY <1>7, <2>2, <2>3 DEF Loses
    <2> QED
      BY <2>5, <2>6 DEF Categories
  <1>9. Drained(loop) => Drained(loop')
    <2>1. Drained(loop) => Drained(a)
      BY <1>3 DEF Drained, HasSlot, Opens
    <2> QED
      BY <1>2, <1>5, <1>6, <2>1, AddInFlightDrained
  <1>10. \A p \in Ops \ {o} : loop'.reply[p] = loop.reply[p] /\ loop'.rpc[p] = loop.rpc[p]
    BY <1>3, <1>7 DEF Opens
  <1>11. loop'.rpc[o] # "done" /\ loop'.reply[o] # "ETIMEDOUT"
    BY <1>1, <1>7, AcceptOpens DEF a
  <1> QED
    BY <1>7, <1>8, <1>9, <1>10, <1>11, StartStep

\* issueOperation's refusal resumes through the CallbackData.
LEMMA IssueRefusedOpens ==
    ASSUME NEW s \in LoopType, NEW o \in Ops, NEW r, r # "ETIMEDOUT", NEW t,
           t = Resume([Register(s, o) EXCEPT !.active = @ \ {o}], {o}, r)
    PROVE  Opens(s, t, o) /\ t.pending = s.pending /\ t.rpc = s.rpc
  <1>1. /\ s.reply \in [Ops -> Results \cup {"idle", "waiting", "trap"}]
    BY DEF LoopType
  <1>2. t.inFlight = s.inFlight /\ t.controller = s.controller
    BY DEF Register, Call, Resume, ContinuationResume, LoopType
  <1>3. t.pending = s.pending /\ t.rpc = s.rpc
    BY DEF Register, Call, Resume, ContinuationResume, LoopType
  <1>4. /\ \A p \in Ops \ {o} : t.reply[p] = s.reply[p]
        /\ t.reply[o] \in {"waiting", r}
    BY <1>1 DEF Register, Call, Resume, ContinuationResume, Override, LoopType
  <1> QED
    BY <1>2, <1>3, <1>4 DEF Opens

\* A call that goes to libnfs without a slot: mount.
LEMMA MountedStep ==
    ASSUME Inv, OpenInv, Transition, NEW o \in Idle(loop), context' = context,
           process' = "live", rpcExports' = rpcExports, o \in MountOps,
           loop' = Accept(Register(loop, o), o)
    PROVE  OpenInv' /\ Settled
  <1>1. loop \in LoopType /\ o \in Ops
    BY InvParts DEF Idle
  <1>2. Opens(loop, loop', o) /\ loop'.pending = loop.pending /\ loop'.rpc[o] = "sent"
    BY <1>1, AcceptOpens
  <1>3. o \notin SubmitOps \cup BulkOps \cup HandleOps
    BY LoopAssumption
  <1>4. \A c : Slotted(loop', c) = Slotted(loop, c)
    BY <1>2, <1>3 DEF Slotted, InCategory, Sent, Opens
  <1>5. context => Counted(loop', 1)
    BY <1>2, <1>4 DEF OpenInv, Counted, Opens
  <1>6. Drained(loop) => Drained(loop')
    BY <1>2 DEF Drained, HasSlot, Opens
  <1>7. \A c \in Categories : Loses(loop, loop', c, 0)
    BY <1>2, <1>4, SameSlots DEF Opens
  <1> QED
    BY <1>2, <1>5, <1>6, <1>7, StartStep DEF Opens

\* submit().
LEMMA SubmitOpen ==
    ASSUME Inv, OpenInv, Transition, NEW o \in SubmitOps, Submit(o)
    PROVE  OpenInv' /\ Settled
  <1>1. o \in Idle(loop) /\ o \in Ops
    BY OpsFacts DEF Submit, Called, Idle
  <1>2. loop \in LoopType
    BY InvParts
  <1>3. context' = context /\ process' = "live" /\ rpcExports' = rpcExports
    BY DEF Submit, Called, lifecycle
  <1>4. CASE loop' = Refuse(loop, o, "ENOTCONN")
    <2>1. Opens(loop, loop', o) /\ loop'.pending = loop.pending /\ loop'.rpc = loop.rpc
      BY <1>1, <1>2, <1>4, RefuseOpens
    <2> QED
      BY <1>1, <1>3, <2>1, TurnedAwayStep
  <1>5. CASE loop' = ContinuationResume([Register(loop, o) EXCEPT !.active = @ \ {o}],
                                        {o}, "ENOBUFS")
    <2>1. Opens(loop, loop', o) /\ loop'.pending = loop.pending /\ loop'.rpc = loop.rpc
      BY <1>1, <1>2, <1>5, RegisteredRefusedOpens
    <2> QED
      BY <1>1, <1>3, <2>1, TurnedAwayStep
  <1>6. CASE context /\ loop' = AddInFlight(Accept(Register(loop, o), o), Category(o), 1)
    BY <1>1, <1>3, <1>6, AcceptedStep
  <1>7. CASE loop' = Resume([Register(loop, o) EXCEPT !.active = @ \ {o}], {o}, "error")
    <2>1. Opens(loop, loop', o) /\ loop'.pending = loop.pending /\ loop'.rpc = loop.rpc
      BY <1>1, <1>2, <1>7, IssueRefusedOpens
    <2> QED
      BY <1>1, <1>3, <2>1, TurnedAwayStep
  <1>8. CASE /\ context
             /\ ~HasSlot(loop, "metadata")
             /\ loop' = [Register(loop, o) EXCEPT !.retained = @ \cup {o},
                                                  !.pending = Append(@, o)]
    <2>1. Opens(loop, loop', o) /\ loop'.rpc = loop.rpc
      BY <1>1, <1>2, <1>8, EnqueueOpens
    <2>2. Counted(loop', 1)
      BY <1>8, <2>1 DEF OpenInv, Counted, Slotted, Sent, Opens
    <2>3. Drained(loop')
      BY <1>8, <2>1 DEF Drained, HasSlot, Opens
    <2>4. \A c : Slotted(loop', c) = Slotted(loop, c)
      BY <2>1 DEF Slotted, Sent
    <2>5. \A c \in Categories : Loses(loop, loop', c, 0)
      BY <2>1, <2>4, SameSlots DEF Opens
    <2>6. loop'.rpc[o] # "done"
      BY <1>1, <2>1, InvParts, IdleFacts
    <2> QED
      BY <1>1, <1>3, <2>1, <2>2, <2>3, <2>5, <2>6, StartStep DEF Opens
  <1> QED
    BY <1>4, <1>5, <1>6, <1>7, <1>8 DEF Submit, IssueOperation

\* An operation on a handle whose callback libnfs runs before the call returns: the count
\* that follows the answer is the one too many.
LEMMA AnsweredInlineOpen ==
    ASSUME Inv, OpenInv, Inv', Transition, NEW o \in HandleOps, HandleOpAnsweredInline(o)
    PROVE  OpenInv' /\ Settled
  <1> DEFINE a == Accept(Register(loop, o), o)
  <1>1. o \in Idle(loop) /\ o \in Ops /\ o \notin ExportOps
    BY OpsFacts DEF HandleOpAnsweredInline, Called, Idle
  <1>2. /\ context /\ context' = context /\ process' = "live" /\ rpcExports' = rpcExports
    BY DEF HandleOpAnsweredInline, Called, lifecycle
  <1>3. Good(loop) /\ loop \in LoopType /\ Detached(loop) = {}
    BY InvParts
  <1>4. Good(a) /\ a \in LoopType /\ o \in Sent(a)
    BY <1>1, <1>3, AcceptGood DEF Good
  <1>5. Opens(loop, a, o) /\ a.reply[o] = "waiting" /\ a.rpc[o] = "sent"
    BY <1>1, <1>3, AcceptOpens
  <1>6. Category(o) = "metadata"
    BY LoopAssumption DEF Category
  <1>7. PICK t \in Answer(a, o, TRUE) : loop' = AddInFlight(t, Category(o), 1)
    BY DEF HandleOpAnsweredInline
  <1>8. ASSUME NEW c
        PROVE  Cardinality(Slotted(a, c)) =
                   Cardinality(Slotted(loop, c)) + (IF c = Category(o) THEN 1 ELSE 0)
    BY <1>1, <1>3, AcceptSlots
  <1> HIDE DEF a
  <1>9. Counted(a, 0)
    <2>1. /\ Cardinality(Slotted(a, "metadata")) = Cardinality(Slotted(loop, "metadata")) + 1
          /\ Cardinality(Slotted(a, "bulk")) = Cardinality(Slotted(loop, "bulk")) + 0
      BY <1>6, <1>8
    <2>2. /\ loop.inFlight["metadata"] \in Nat /\ loop.inFlight["bulk"] \in Nat
          /\ Cardinality(Slotted(loop, "metadata")) \in Nat
          /\ Cardinality(Slotted(loop, "bulk")) \in Nat
      BY <1>3, InFlightFacts, SlottedFacts
    <2>3. Counted(loop, 1)
      BY <1>2 DEF OpenInv
    <2> QED
      BY <1>5, <2>1, <2>2, <2>3 DEF Counted, Opens
  <1>10. ASSUME NEW hasContext, t \in Answer(a, o, hasContext)
         PROVE  Records(a, t, {o}) /\ (hasContext => Drained(t)) /\ Good(t)
                /\ t.rpc[o] = "done" /\ o \notin t.active
    BY <1>4, <1>10, AnswerRecords, AnswerGood
  <1>11. /\ Records(a, t, {o}) /\ Drained(t) /\ Good(t)
         /\ t.rpc[o] = "done" /\ o \notin t.active
    BY <1>7, <1>10
  <1>12. Counted(t, 0) /\ t \in LoopType
    BY <1>9, <1>11 DEF Records, Good
  <1>13. /\ loop'.inFlight["metadata"] = t.inFlight["metadata"] + 1
         /\ loop'.inFlight["bulk"] = t.inFlight["bulk"] + 0
         /\ loop'.controller = t.controller
         /\ loop'.rpc = t.rpc /\ loop'.reply = t.reply
    BY <1>6, <1>7, <1>12, AddInFlightCounts DEF Categories
  <1>14. Counted(loop', 1)
    <2>1. \A c : Slotted(loop', c) = Slotted(t, c)
      BY <1>13 DEF Slotted, Sent
    <2>2. /\ t.inFlight["metadata"] \in Nat /\ t.inFlight["bulk"] \in Nat
          /\ Cardinality(Slotted(t, "metadata")) \in Nat
          /\ Cardinality(Slotted(t, "bulk")) \in Nat
      BY <1>12, InFlightFacts, SlottedFacts
    <2> QED
      BY <1>12, <1>13, <2>1, <2>2 DEF Counted
  <1>15. Drained(loop')
    BY <1>6, <1>7, <1>11, <1>12, AddInFlightDrained DEF Categories
  <1>16. rpcExports' \subseteq Sent(loop') \cap Waiting(loop')
    <2>1. rpcExports \subseteq ExportOps /\ ExportOps \subseteq Ops
      BY InvParts, OpsFacts
    <2>2. \A e \in rpcExports : loop'.reply[e] = loop.reply[e] /\ loop'.rpc[e] = loop.rpc[e]
      BY <1>1, <1>5, <1>11, <1>13, <2>1 DEF Records, Opens
    <2> QED
      BY <1>2, <2>2, UntouchedExports
  <1>17. Settled
    <2>1. loop.rpc[o] = "none" /\ loop.reply[o] = "idle"
      BY <1>1, <1>3, IdleFacts
    <2>2. \A p \in Ops : a.rpc[p] = "done" <=> loop.rpc[p] = "done"
      BY <1>5, <2>1 DEF Opens
    <2>3. \A p \in Ops : a.reply[p] = "ETIMEDOUT" <=> loop.reply[p] = "ETIMEDOUT"
      BY <1>5, <2>1 DEF Opens
    <2>4. ASSUME NEW hasContext, t \in Answer(a, o, hasContext)
          PROVE  /\ \E success \in BOOLEAN :
                       /\ Advances(a, t, {o}, {}, success)
                       /\ a.reply[o] = "waiting" => (success <=> t.reply[o] = "ok")
                 /\ \A c \in Categories : Loses(a, t, c, Free({o}, c))
      BY <1>4, <2>4, AnswerAdvances
    <2>5. PICK success \in BOOLEAN : /\ Advances(a, t, {o}, {}, success)
                                     /\ success <=> t.reply[o] = "ok"
      BY <1>5, <1>7, <2>4
    <2>6. \A c \in Categories : Loses(a, t, c, Free({o}, c))
      BY <1>7, <2>4
    <2>7. Advances(loop, a, {}, {}, success)
      BY <1>5, <2>2, <2>3, QuietAdvances DEF Opens
    <2>8. Advances(t, loop', {}, {}, success)
      BY <1>13, QuietAdvances
    <2>9. Advances(loop, loop', {o}, {}, success)
      <3>1. Advances(loop, t, {} \cup {o}, {} \cup {}, success)
        BY <2>5, <2>7, AdvancesTransitive
      <3>2. Advances(loop, loop', ({} \cup {o}) \cup {}, ({} \cup {}) \cup {}, success)
        BY <2>8, <3>1, AdvancesTransitive
      <3>3. ({} \cup {o}) \cup {} = {o} /\ ({} \cup {}) \cup {} = {}
        OBVIOUS
      <3> QED
        BY <3>2, <3>3
    <2>10. \A p \in {o} : ~Overdue(p) => (success <=> loop'.reply[p] = "ok")
      BY <1>13, <2>5
    <2>11. /\ Loses(loop, loop', "metadata", Free({o}, "metadata"))
           /\ Loses(loop, loop', "bulk", Free({o}, "bulk"))
      <3>1. /\ Cardinality(Slotted(a, "metadata")) = Cardinality(Slotted(loop, "metadata")) + 1
            /\ Cardinality(Slotted(a, "bulk")) = Cardinality(Slotted(loop, "bulk")) + 0
        BY <1>6, <1>8
      <3>2. /\ loop.inFlight["metadata"] \in Nat /\ loop.inFlight["bulk"] \in Nat
            /\ t.inFlight["metadata"] \in Nat /\ t.inFlight["bulk"] \in Nat
            /\ Cardinality(Slotted(loop, "metadata")) \in Nat
            /\ Cardinality(Slotted(loop, "bulk")) \in Nat
            /\ Cardinality(Slotted(t, "metadata")) \in Nat
            /\ Cardinality(Slotted(t, "bulk")) \in Nat
            /\ Free({o}, "metadata") \in Nat /\ Free({o}, "bulk") \in Nat
        BY <1>1, <1>3, <1>12, InFlightFacts, SlottedFacts, FreeFacts
      <3>3. a.inFlight = loop.inFlight
        BY <1>5 DEF Opens
      <3>4. \A c : Slotted(loop', c) = Slotted(t, c)
        BY <1>13 DEF Slotted, Sent
      <3>5. ASSUME NEW m \in Nat,
                   Cardinality(Slotted(loop, "metadata")) <= loop.inFlight["metadata"] + m
            PROVE  Cardinality(Slotted(loop', "metadata"))
                       <= loop'.inFlight["metadata"] + (m + Free({o}, "metadata"))
        <4>1. m + 1 \in Nat
          OBVIOUS
        <4>2. Cardinality(Slotted(a, "metadata")) <= a.inFlight["metadata"] + (m + 1)
          BY <3>1, <3>2, <3>3, <3>5
        <4>3. Cardinality(Slotted(t, "metadata"))
                  <= t.inFlight["metadata"] + ((m + 1) + Free({o}, "metadata"))
          BY <2>6, <4>1, <4>2 DEF Loses, Categories
        <4> QED
          BY <1>13, <3>2, <3>4, <4>3
      <3>6. ASSUME NEW m \in Nat,
                   Cardinality(Slotted(loop, "bulk")) <= loop.inFlight["bulk"] + m
            PROVE  Cardinality(Slotted(loop', "bulk"))
                       <= loop'.inFlight["bulk"] + (m + Free({o}, "bulk"))
        <4>1. Cardinality(Slotted(a, "bulk")) <= a.inFlight["bulk"] + m
          BY <3>1, <3>2, <3>3, <3>6
        <4>2. Cardinality(Slotted(t, "bulk")) <= t.inFlight["bulk"] + (m + Free({o}, "bulk"))
          BY <2>6, <4>1 DEF Loses, Categories
        <4> QED
          BY <1>13, <3>2, <3>4, <4>2
      <3> QED
        BY <3>5, <3>6 DEF Loses
    <2>12. \A c \in Categories : Loses(loop, loop', c, Free({o}, c))
      BY <2>11 DEF Categories
    <2> QED
      BY <1>1, <2>9, <2>10, <2>12, AnsweredSettled
  <1> QED
    BY <1>2, <1>14, <1>15, <1>16, <1>17, OpenInvNext

\* The operations on open handles.
LEMMA HandleOpOpen ==
    ASSUME Inv, OpenInv, Transition, NEW o \in BulkOps \cup HandleOps,
           HandleOpRefused(o) \/ HandleOp(o)
    PROVE  OpenInv' /\ Settled
  <1>1. o \in Idle(loop) /\ o \in Ops
    BY OpsFacts DEF HandleOpRefused, HandleOp, Called, Idle
  <1>2. loop \in LoopType
    BY InvParts
  <1>3. context' = context /\ process' = "live" /\ rpcExports' = rpcExports
    BY DEF HandleOpRefused, HandleOp, Called, lifecycle
  <1>4. CASE loop' = Refuse(loop, o, "EBADF") \/ loop' = Refuse(loop, o, "ENOTCONN")
    <2>1. ASSUME NEW r, r # "ETIMEDOUT", loop' = Refuse(loop, o, r)
          PROVE  Opens(loop, loop', o) /\ loop'.pending = loop.pending /\ loop'.rpc = loop.rpc
      BY <1>1, <1>2, <2>1, RefuseOpens
    <2>2. Opens(loop, loop', o) /\ loop'.pending = loop.pending /\ loop'.rpc = loop.rpc
      BY <1>4, <2>1
    <2> QED
      BY <1>1, <1>3, <2>2, TurnedAwayStep
  <1>5. CASE loop' = ContinuationResume([Register(loop, o) EXCEPT !.active = @ \ {o}],
                                        {o}, "error")
    <2>1. Opens(loop, loop', o) /\ loop'.pending = loop.pending /\ loop'.rpc = loop.rpc
      BY <1>1, <1>2, <1>5, RegisteredRefusedOpens
    <2> QED
      BY <1>1, <1>3, <2>1, TurnedAwayStep
  <1>6. CASE context /\ loop' = AddInFlight(Accept(Register(loop, o), o), Category(o), 1)
    BY <1>1, <1>3, <1>6, AcceptedStep
  <1> QED
    BY <1>4, <1>5, <1>6 DEF HandleOpRefused, HandleOp

\* mount().
LEMMA MountOpen ==
    ASSUME Inv, OpenInv, Transition, NEW o \in MountOps, Mount(o)
    PROVE  OpenInv' /\ Settled
  <1>1. o \in Idle(loop) /\ o \in Ops
    BY OpsFacts DEF Mount, Called, Idle
  <1>2. loop \in LoopType
    BY InvParts
  <1>3. context' = context /\ process' = "live" /\ rpcExports' = rpcExports
    BY DEF Mount, Called
  <1>4. CASE loop' = Refuse(loop, o, "ENOTCONN") \/ loop' = Refuse(loop, o, "error")
    <2>1. ASSUME NEW r, r # "ETIMEDOUT", loop' = Refuse(loop, o, r)
          PROVE  Opens(loop, loop', o) /\ loop'.pending = loop.pending /\ loop'.rpc = loop.rpc
      BY <1>1, <1>2, <2>1, RefuseOpens
    <2>2. Opens(loop, loop', o) /\ loop'.pending = loop.pending /\ loop'.rpc = loop.rpc
      BY <1>4, <2>1
    <2> QED
      BY <1>1, <1>3, <2>2, TurnedAwayStep
  <1>5. CASE loop' = Accept(Register(loop, o), o)
    BY <1>1, <1>3, <1>5, MountedStep
  <1> QED
    BY <1>4, <1>5 DEF Mount

\* getexports(): the query is with libnfs, and its caller waits, when it takes the
\* RPC context.
LEMMA GetExportsOpen ==
    ASSUME Inv, OpenInv, Transition, NEW o \in ExportOps, GetExports(o)
    PROVE  OpenInv' /\ Settled
  <1>1. o \in Idle(loop) /\ o \in Ops
    BY OpsFacts DEF GetExports, Called, Idle
  <1>2. loop \in LoopType
    BY InvParts
  <1>3. context' = context /\ process' = "live"
    BY DEF GetExports, Called
  <1>4. CASE /\ \/ loop' = Refuse(loop, o, "ENOTCONN") \/ loop' = Refuse(loop, o, "EBUSY")
                \/ loop' = Refuse(loop, o, "error")
             /\ rpcExports' = rpcExports
    <2>1. ASSUME NEW r, r # "ETIMEDOUT", loop' = Refuse(loop, o, r)
          PROVE  Opens(loop, loop', o) /\ loop'.pending = loop.pending /\ loop'.rpc = loop.rpc
      BY <1>1, <1>2, <2>1, RefuseOpens
    <2>2. Opens(loop, loop', o) /\ loop'.pending = loop.pending /\ loop'.rpc = loop.rpc
      BY <1>4, <2>1
    <2> QED
      BY <1>1, <1>3, <1>4, <2>2, TurnedAwayStep
  <1>5. CASE context /\ loop' = Accept(Register(loop, o), o) /\ rpcExports' = {o}
    <2>1. /\ Opens(loop, loop', o) /\ loop'.pending = loop.pending
          /\ loop'.reply[o] = "waiting" /\ loop'.rpc[o] = "sent"
      BY <1>1, <1>2, <1>5, AcceptOpens
    <2>2. o \notin SubmitOps \cup BulkOps \cup HandleOps
      BY LoopAssumption
    <2>3. \A c : Slotted(loop', c) = Slotted(loop, c)
      BY <2>1, <2>2 DEF Slotted, InCategory, Sent, Opens
    <2>4. Counted(loop', 1)
      BY <1>5, <2>1, <2>3 DEF OpenInv, Counted, Opens
    <2>5. Drained(loop) => Drained(loop')
      BY <2>1 DEF Drained, HasSlot, Opens
    <2>6. rpcExports' \subseteq Sent(loop') \cap Waiting(loop')
      BY <1>1, <1>5, <2>1 DEF Sent, Waiting
    <2>7. Settled
      <3>1. loop.rpc[o] = "none" /\ loop.reply[o] = "idle"
        BY <1>1, InvParts, IdleFacts
      <3>2. \A p \in Ops : loop'.rpc[p] = "done" <=> loop.rpc[p] = "done"
        BY <2>1, <3>1 DEF Opens
      <3>3. \A p \in Ops : loop'.reply[p] = "ETIMEDOUT" <=> loop.reply[p] = "ETIMEDOUT"
        BY <2>1, <3>1 DEF Opens
      <3>4. \A c \in Categories : Loses(loop, loop', c, 0)
        BY <2>1, <2>3, SameSlots DEF Opens
      <3> QED
        BY <2>1, <3>2, <3>3, <3>4, QuietSettled DEF Opens
    <2> QED
      BY <1>3, <2>4, <2>5, <2>6, <2>7, OpenInvNext
  <1> QED
    BY <1>4, <1>5 DEF GetExports

\* handleIOEvent, with an answer or without.
LEMMA HandleIOEventOpen ==
    ASSUME Inv, OpenInv, Inv', Transition, (\E o \in NfsOps : HandleIOEvent(o)) \/ HandleIOEventIdle
    PROVE  OpenInv' /\ Settled
  <1>1. Good(loop) /\ loop' \in LoopType /\ rpcExports \subseteq ExportOps
    BY InvParts DEF Inv, TypeOK
  <1>2. context' = context /\ process' = "live" /\ rpcExports' = rpcExports
    BY DEF HandleIOEvent, HandleIOEventIdle, lifecycle
  <1>3. ASSUME NEW s, Good(s), NEW hasContext, loop' \in IssuePendingOperations(s, hasContext)
        PROVE  Records(s, loop', {}) /\ (hasContext => Drained(loop')) /\ Issues(s, loop')
    <2>1. Issues(s, loop') /\ (hasContext => Drained(loop'))
      BY <1>3, IssuePendingIssues
    <2> QED
      BY <1>1, <1>3, <2>1, IssuesRecords
  <1>4. CASE \E o \in NfsOps : HandleIOEvent(o)
    <2>1. PICK o \in NfsOps : HandleIOEvent(o)
      BY <1>4
    <2>2. PICK s \in Answer(loop, o, TRUE) : loop' \in IssuePendingOperations(s, TRUE)
      BY <2>1 DEF HandleIOEvent
    <2>3. o \in Sent(loop) /\ o \in Ops /\ o \notin ExportOps
      BY <2>1, OpsFacts DEF HandleIOEvent, Sent
    <2>4. ASSUME NEW hasContext, s \in Answer(loop, o, hasContext)
          PROVE  /\ Records(loop, s, {o}) /\ Good(s) /\ s.rpc[o] = "done"
                 /\ \E success \in BOOLEAN :
                       /\ Advances(loop, s, {o}, {}, success)
                       /\ loop.reply[o] = "waiting" => (success <=> s.reply[o] = "ok")
                 /\ \A c \in Categories : Loses(loop, s, c, Free({o}, c))
      BY <1>1, <2>3, <2>4, AnswerRecords, AnswerGood, AnswerAdvances
    <2>5. /\ Records(loop, s, {o}) /\ Good(s) /\ s.rpc[o] = "done"
          /\ \A c \in Categories : Loses(loop, s, c, Free({o}, c))
      BY <2>2, <2>4
    <2>6. Records(s, loop', {}) /\ Drained(loop') /\ Issues(s, loop')
      BY <1>3, <2>2, <2>5
    <2>7. Records(loop, loop', {o})
      <3>1. Records(loop, loop', {o} \cup {})
        BY <2>5, <2>6, RecordsTransitive
      <3> QED
        BY <3>1
    <2>8. {o} \in SUBSET Ops /\ rpcExports' \subseteq rpcExports \ {o}
      BY <1>1, <1>2, <2>3
    <2>9. OpenInv'
      BY <1>2, <2>6, <2>7, <2>8, RecordsStep
    <2>10. PICK success \in BOOLEAN :
               /\ Advances(loop, s, {o}, {}, success)
               /\ loop.reply[o] = "waiting" => (success <=> s.reply[o] = "ok")
      BY <2>2, <2>4
    <2>11. /\ Advances(s, loop', {}, {}, success)
           /\ \A c \in Categories : Loses(s, loop', c, 0)
      BY <1>1, <2>5, <2>6, IssuesAdvance
    <2>12. Advances(loop, loop', {o}, {}, success)
      <3>1. Advances(loop, loop', {o} \cup {}, {} \cup {}, success)
        BY <2>10, <2>11, AdvancesTransitive
      <3>2. {o} \cup {} = {o} /\ {} \cup {} = {}
        OBVIOUS
      <3> QED
        BY <3>1, <3>2
    <2>13. ASSUME NEW c \in Categories PROVE Loses(loop, loop', c, Free({o}, c))
      <3>1. Free({o}, c) \in Nat /\ Free({o}, c) + 0 = Free({o}, c)
        BY <2>8, FreeFacts
      <3>2. Loses(loop, loop', c, Free({o}, c) + 0)
        BY <2>5, <2>11, <3>1, LosesTransitive
      <3> QED
        BY <3>1, <3>2
    <2>14. loop'.reply[o] = s.reply[o]
      <3>1. o \notin PendingSet(s)
        BY <2>5 DEF Good, Consistent
      <3> QED
        BY <2>3, <2>6, <3>1 DEF Issues
    <2>15. \A p \in {o} : ~Overdue(p) => (success <=> loop'.reply[p] = "ok")
      BY <2>3, <2>10, <2>14 DEF Overdue, Sent
    <2>16. Settled
      BY <2>8, <2>12, <2>13, <2>15, AnsweredSettled
    <2> QED
      BY <2>9, <2>16
  <1>5. CASE HandleIOEventIdle
    <2>1. loop' \in IssuePendingOperations(loop, TRUE)
      BY <1>5 DEF HandleIOEventIdle
    <2>2. Records(loop, loop', {}) /\ Drained(loop') /\ Issues(loop, loop')
      BY <1>1, <1>3, <2>1
    <2>3. {} \in SUBSET Ops /\ rpcExports' \subseteq rpcExports \ {}
      BY <1>2
    <2>4. OpenInv'
      BY <1>2, <2>2, <2>3, RecordsStep
    <2> PICK failure : failure = FALSE
      OBVIOUS
    <2>5. /\ Advances(loop, loop', {}, {}, failure)
          /\ \A c \in Categories : Loses(loop, loop', c, 0)
      BY <1>1, <2>2, IssuesAdvance
    <2>6. \A c \in Categories : Loses(loop, loop', c, Free({}, c))
      BY <2>5, FreeFacts
    <2> PICK none : none = {}
      OBVIOUS
    <2>7. /\ none \in SUBSET Ops /\ failure \in BOOLEAN
          /\ \A o \in none : ~Overdue(o) => (failure <=> loop'.reply[o] = "ok")
      OBVIOUS
    <2>8. /\ Advances(loop, loop', none, {}, failure)
          /\ \A c \in Categories : Loses(loop, loop', c, Free(none, c))
      BY <2>5, <2>6
    <2>9. Settled
      BY <2>7, <2>8, AnsweredSettled
    <2> QED
      BY <2>4, <2>9
  <1> QED
    BY <1>4, <1>5

\* handleRpcExportsEvent.
LEMMA HandleRpcExportsEventOpen ==
    ASSUME Inv, OpenInv, Inv', Transition, NEW e \in ExportOps, HandleRpcExportsEvent(e)
    PROVE  OpenInv' /\ Settled
  <1>1. Good(loop) /\ e \in Ops
    BY InvParts, OpsFacts
  <1>2. context' = context /\ process' = "live" /\ rpcExports' = {}
    BY DEF HandleRpcExportsEvent
  <1>3. Records(loop, loop', {e}) /\ (context /\ Drained(loop) => Drained(loop'))
    <2>1. CASE e \in Sent(loop) /\ loop' \in Answer(loop, e, context)
      BY <1>1, <2>1, AnswerRecords
    <2>2. CASE loop' \in CleanupRpcExports(loop, e, context)
      BY <1>1, <2>2, CleanupRpcExportsRecords
    <2> QED
      BY <2>1, <2>2 DEF HandleRpcExportsEvent
  <1>4. Settled
    <2>1. CASE e \in Sent(loop) /\ loop' \in Answer(loop, e, context)
      <3>1. PICK success \in BOOLEAN :
                /\ Advances(loop, loop', {e}, {}, success)
                /\ loop.reply[e] = "waiting" => (success <=> loop'.reply[e] = "ok")
        BY <1>1, <2>1, AnswerAdvances
      <3>2. \A c \in Categories : Loses(loop, loop', c, Free({e}, c))
        BY <1>1, <2>1, AnswerAdvances
      <3>3. \A o \in {e} : ~Overdue(o) => (success <=> loop'.reply[o] = "ok")
        BY <2>1, <3>1 DEF Overdue, Sent
      <3>4. {e} \in SUBSET Ops
        BY <1>1
      <3> QED
        BY <3>1, <3>2, <3>3, <3>4, AnsweredSettled
    <2>2. CASE loop' \in CleanupRpcExports(loop, e, context)
      <3>1. PICK A \in SUBSET {e} :
                /\ Advances(loop, loop', A, {}, FALSE)
                /\ \A c \in Categories : Loses(loop, loop', c, Free(A, c))
                /\ loop.reply[e] = "waiting" /\ A # {} => loop'.reply[e] # "ok"
        BY <1>1, <2>2, CleanupAdvances
      <3>2. \A o \in A : loop.rpc[o] = "sent"
        <4> SUFFICES ASSUME e \in A PROVE loop.rpc[e] = "sent"
          OBVIOUS
        <4>1. loop' # loop
          BY <1>1, <3>1 DEF Advances
        <4> QED
          BY <2>2, <4>1 DEF CleanupRpcExports
      <3>3. \A o \in A : ~Overdue(o) => (FALSE <=> loop'.reply[o] = "ok")
        BY <3>1, <3>2 DEF Overdue
      <3>4. A \in SUBSET Ops
        BY <1>1
      <3> QED
        BY <3>1, <3>3, <3>4, AnsweredSettled
    <2> QED
      BY <2>1, <2>2 DEF HandleRpcExportsEvent
  <1>5. {e} \in SUBSET Ops /\ rpcExports' \subseteq rpcExports \ {e}
    BY <1>1, <1>2
  <1>6. OpenInv'
    BY <1>2, <1>3, <1>5, RecordsStep
  <1> QED
    BY <1>4, <1>6

\* scanForTimeouts: the query that is cleaned up is one of those that timed out.
LEMMA ScanForTimeoutsOpen ==
    ASSUME Inv, OpenInv, Inv', Transition, NEW T \in SUBSET loop.active, ScanForTimeouts(T)
    PROVE  OpenInv' /\ Settled
  <1> DEFINE d == [loop EXCEPT !.active = @ \ T]
             f == RecordFailed(d, T)
             s == Resume(f, T, "ETIMEDOUT")
  <1>1. /\ Good(loop) /\ Detached(loop) = {} /\ loop \in LoopType
        /\ rpcExports \subseteq ExportOps
    BY InvParts
  <1>2. T \in SUBSET Ops /\ T \subseteq Waiting(loop) /\ T \cap loop.resumed = {} /\ T # {}
    BY <1>1 DEF Good, Consistent, LoopType, ScanForTimeouts
  <1>3. context /\ context' = context /\ process' = "live"
    BY DEF Inv, ClosedIsQuiet, ScanForTimeouts
  <1>4. IF rpcExports \subseteq s.active
        THEN loop' = s /\ UNCHANGED <<rpcExports, exportsSource>>
        ELSE /\ loop' \in CleanupExports(s, context)
             /\ rpcExports' = {}
             /\ exportsSource' = FALSE
    BY DEF ScanForTimeouts
  <1>5. Good(d) /\ d.rpc = loop.rpc /\ d.reply = loop.reply /\ d.active = loop.active \ T
    BY <1>1, DetachGood
  <1>6. d.inFlight = loop.inFlight /\ d.controller = loop.controller
    BY <1>1 DEF LoopType
  <1>7. d.resumed = loop.resumed
    BY <1>1 DEF LoopType
  <1> HIDE DEF d
  <1>8. Records(loop, d, {})
    BY <1>5, <1>6 DEF Records, Counted, Slotted, Sent
  <1>9. Records(d, f, T) /\ f \in LoopType /\ SameCalls(d, f)
    BY <1>2, <1>5, RecordFailedRecords, RecordFailedFields DEF Good
  <1>10. Good(f)
    BY <1>5, <1>9, SameCallsGood
  <1> HIDE DEF f
  <1>11. Records(f, s, T)
    BY <1>2, <1>9, ResumeRecords
  <1>12. s.active = f.active
    BY <1>9 DEF Resume, ContinuationResume, LoopType
  <1>13. \A o \in T : s.reply[o] = "ETIMEDOUT"
    <2>1. \A o \in T : f.reply[o] = "waiting" /\ o \notin f.resumed
      BY <1>2, <1>5, <1>7, <1>9 DEF SameCalls, Waiting
    <2>2. s.reply = [o \in Ops |-> IF o \notin T \ f.resumed THEN f.reply[o]
                                   ELSE IF f.reply[o] = "waiting" THEN "ETIMEDOUT" ELSE "trap"]
      BY <1>9 DEF Resume, ContinuationResume, LoopType
    <2> QED
      BY <1>2, <2>1, <2>2
  <1>14. Good(s)
    <2>1. /\ T \cap f.active = {} /\ T \subseteq Waiting(f) \cup f.resumed
          /\ "ETIMEDOUT" \in Results /\ MayTell(f, T, "ETIMEDOUT")
      BY <1>2, <1>5, <1>9 DEF SameCalls, Results, MayTell, Waiting
    <2> QED
      BY <1>2, <1>10, <2>1, ResumeGood
  <1> HIDE DEF s
  <1>15. Records(loop, s, T)
    <2>1. Records(loop, f, {} \cup T)
      BY <1>8, <1>9, RecordsTransitive
    <2>2. Records(loop, s, ({} \cup T) \cup T)
      BY <1>11, <2>1, RecordsTransitive
    <2>3. ({} \cup T) \cup T = T
      OBVIOUS
    <2> QED
      BY <2>2, <2>3
  <1>16. s.active = loop.active \ T
    BY <1>5, <1>9, <1>12 DEF SameCalls
  <1>17. /\ Records(loop, loop', T)
         /\ \A o \in T : loop'.reply[o] = "ETIMEDOUT"
         /\ rpcExports' \subseteq rpcExports \ T
    <2>1. CASE rpcExports \subseteq s.active
      BY <1>4, <1>13, <1>15, <1>16, <2>1
    <2>2. CASE ~(rpcExports \subseteq s.active)
      <3>1. loop' \in CleanupExports(s, context) /\ rpcExports' = {}
        BY <1>4, <2>2
      <3>2. PICK e \in rpcExports : loop' \in CleanupRpcExports(s, e, context)
        BY <2>2, <3>1 DEF CleanupExports
      <3>3. Records(s, loop', {e}) /\ Follows(s, loop')
        BY <1>1, <1>14, <3>2, CleanupRpcExportsRecords, CleanupRpcExportsGood
      <3>4. e \in T
        <4>1. rpcExports \subseteq loop.active
          BY <1>1, <1>3 DEF OpenInv, ExportsReleased, Detached
        <4>2. PICK x \in rpcExports : x \in T
          BY <1>16, <2>2, <4>1
        <4>3. x = e
          BY InvParts
        <4> QED
          BY <4>2, <4>3
      <3>5. Records(loop, loop', T)
        <4>1. Records(loop, loop', T \cup {e})
          BY <1>15, <3>3, RecordsTransitive
        <4>2. T \cup {e} = T
          BY <3>4
        <4> QED
          BY <4>1, <4>2
      <3>6. \A o \in T : loop'.reply[o] = "ETIMEDOUT"
        BY <1>2, <1>13, <3>3 DEF Follows
      <3> QED
        BY <3>1, <3>5, <3>6
    <2> QED
      BY <2>1, <2>2
  <1>18. \E o \in Ops : loop'.reply[o] = "ETIMEDOUT"
    BY <1>2, <1>17
  <1>19. OpenInv'
    BY <1>2, <1>3, <1>17, <1>18, RecordsStep
  <1>20. /\ Advances(loop, s, {}, T, FALSE)
         /\ \A c \in Categories : Loses(loop, s, c, Cardinality(InCategory(T, c)))
    BY <1>1, <1>2, TimedOutAdvances DEF s, f, d
  <1>21. PICK A \in SUBSET T :
             /\ Advances(s, loop', A, {}, FALSE)
             /\ \A c \in Categories : Loses(s, loop', c, Free(A, c))
    <2>1. CASE loop' = s
      <3>1. Advances(s, loop', {}, {}, FALSE)
        BY <2>1, QuietAdvances
      <3>2. \A c \in Categories : Loses(s, loop', c, 0)
        BY <2>1, SameSlots
      <3>3. \A c \in Categories : Loses(s, loop', c, Free({}, c))
        BY <3>2, FreeFacts
      <3> QED
        BY <3>1, <3>3
    <2>2. CASE ~(rpcExports \subseteq s.active)
      <3>1. loop' \in CleanupExports(s, context)
        BY <1>4, <2>2
      <3>2. PICK e \in rpcExports : loop' \in CleanupRpcExports(s, e, context)
        BY <2>2, <3>1 DEF CleanupExports
      <3>3. e \in T
        <4>1. rpcExports \subseteq loop.active
          BY <1>1, <1>3 DEF OpenInv, ExportsReleased, Detached
        <4>2. PICK x \in rpcExports : x \in T
          BY <1>16, <2>2, <4>1
        <4>3. x = e
          BY InvParts
        <4> QED
          BY <4>2, <4>3
      <3>4. e \in ExportOps
        BY <1>1
      <3>5. PICK A \in SUBSET {e} :
                /\ Advances(s, loop', A, {}, FALSE)
                /\ \A c \in Categories : Loses(s, loop', c, Free(A, c))
                /\ s.reply[e] = "waiting" /\ A # {} => loop'.reply[e] # "ok"
        BY <1>14, <3>2, <3>4, CleanupAdvances
      <3> QED
        BY <3>3, <3>5
    <2> QED
      BY <1>4, <2>1, <2>2
  <1>22. Advances(loop, loop', A, T, FALSE)
    <2>1. Advances(loop, loop', {} \cup A, T \cup {}, FALSE)
      BY <1>20, <1>21, AdvancesTransitive
    <2>2. {} \cup A = A /\ T \cup {} = T
      OBVIOUS
    <2> QED
      BY <2>1, <2>2
  <1>23. ASSUME NEW c \in Categories
         PROVE  Loses(loop, loop', c, Cardinality(InCategory(T, c)) + Free(A, c))
    <2>1. Cardinality(InCategory(T, c)) \in Nat /\ Free(A, c) \in Nat
      BY <1>2, CountType, FreeFacts
    <2> QED
      BY <1>20, <1>21, <2>1, LosesTransitive
  <1>24. \A o \in A : FALSE <=> loop'.reply[o] = "ok"
    BY <1>17
  <1>25. Settled
    BY <1>2, <1>22, <1>23, <1>24 DEF Settled
  <1> QED
    BY <1>19, <1>25

\* shutdownWithError.
LEMMA ShutdownWithErrorOpen ==
    ASSUME Inv, OpenInv, Inv', Transition, ShutdownWithError
    PROVE  OpenInv' /\ Settled
  <1>1. PICK R \in SUBSET Sent(loop) :
            /\ Advances(loop, loop', R, {}, FALSE)
            /\ \A o \in R : loop.reply[o] # "ok" => loop'.reply[o] # "ok"
    BY InvParts, TearDownAdvances DEF ShutdownWithError
  <1>2. ~context' /\ process' = "live"
    BY DEF ShutdownWithError
  <1>3. R \in SUBSET Ops /\ \A o \in R : loop.rpc[o] = "sent"
    BY DEF Sent
  <1>4. \A o \in R : ~Overdue(o) => (FALSE <=> loop'.reply[o] = "ok")
    BY <1>1, <1>3 DEF Overdue
  <1>5. Settled
    BY <1>1, <1>2, <1>3, <1>4, AnsweredSettled
  <1>6. OpenInv'
    BY <1>2 DEF OpenInv, ExportsReleased, QueuedWhenFull, ResumesOnQueue
  <1> QED
    BY <1>5, <1>6

\* shutdown() and deinit: of a request that is with libnfs when the last reference
\* goes, nobody waits for the answer.
LEMMA ShutdownOpen ==
    ASSUME Inv, OpenInv, Transition, Shutdown \/ \E onQueue \in BOOLEAN : Deinit(onQueue)
    PROVE  OpenInv' /\ ~context' /\ RecordsCounted
  <1>1. ~context'
    BY DEF Shutdown, Deinit
  <1>2. loop' = loop \/ loop' \in PerformShutdown(loop)
    BY DEF Shutdown, Deinit
  <1>3. RecordsCounted
    <2>1. CASE loop' = loop
      BY <1>1, <2>1, QuietSettled, SettledRecords
    <2>2. CASE loop' \in PerformShutdown(loop)
      <3>1. PICK u : loop' = [u EXCEPT !.controller = [c \in Categories |-> Reset],
                                       !.inFlight = [c \in Categories |-> 0]]
        BY <2>2 DEF PerformShutdown
      <3>2. \A c \in Categories : loop'.controller[c] = Reset
        BY <3>1
      <3> QED
        BY <1>1, <3>2 DEF RecordsCounted
    <2> QED
      BY <1>2, <2>1, <2>2
  <1>4. ResumesOnQueue'
    <2>1. CASE Shutdown
      BY <2>1 DEF Shutdown, ResumesOnQueue
    <2>2. CASE \E onQueue \in BOOLEAN : Deinit(onQueue)
      <3> SUFFICES ASSUME process' = "trapped"
                   PROVE  \E o \in Ops : loop'.reply[o] = "ETIMEDOUT"
        BY DEF ResumesOnQueue
      <3>1. PICK o \in Sent(loop) : loop'.rpc[o] = "done"
        BY <2>2 DEF Deinit
      <3>2. Waiting(loop) = {} /\ (~(context \/ loop.active # {}) => loop' = loop)
        BY <2>2 DEF Deinit
      <3>3. o \in Ops /\ loop.rpc[o] = "sent"
        BY DEF Sent
      <3>4. context
        <4>1. ~context => loop.active = {}
          BY DEF Inv, ClosedIsQuiet
        <4> QED
          BY <3>1, <3>2, <3>3, <4>1
      <3>5. rpcExports = {}
        BY <3>2, <3>4 DEF OpenInv, ExportsReleased
      <3>6. o \in NfsOps
        BY <3>3, <3>5, InvParts DEF Ops
      <3>7. loop.reply[o] = "ETIMEDOUT"
        <4>1. Told(loop, o) /\ loop.reply[o] # "waiting"
          BY <3>2, <3>3 DEF Inv, Consistent, Waiting
        <4> QED
          BY <3>6, <4>1 DEF Told
      <3> QED
        BY <3>3, <3>7, TimedOutStays
    <2> QED
      BY <2>1, <2>2
  <1> QED
    BY <1>1, <1>3, <1>4 DEF OpenInv, ExportsReleased, QueuedWhenFull

\* The loop starts with an empty queue and no requests.
LEMMA OpenInvInit == Init => OpenInv
  <1> SUFFICES ASSUME Init PROVE OpenInv
    OBVIOUS
  <1>1. loop.pending = <<>> /\ loop.inFlight = [c \in Categories |-> 0]
    BY DEF Init
  <1>2. rpcExports = {} /\ process = "live"
    BY DEF Init
  <1>3. Counted(loop, 1)
    <2>1. /\ Cardinality(Slotted(loop, "metadata")) \in Nat
          /\ Cardinality(Slotted(loop, "bulk")) \in Nat
      BY SlottedFacts
    <2>2. loop.inFlight["metadata"] = 0 /\ loop.inFlight["bulk"] = 0
      BY <1>1 DEF Categories
    <2> QED
      BY <2>1, <2>2 DEF Counted
  <1> QED
    BY <1>1, <1>2, <1>3 DEF OpenInv, ExportsReleased, QueuedWhenFull, ResumesOnQueue

\* Every block preserves the second layer and settles its records and counts, or
\* gives the context up.
LEMMA OpenInvStep ==
    Inv /\ OpenInv /\ [Next]_vars => OpenInv' /\ (Settled \/ (~context' /\ RecordsCounted))
  <1> SUFFICES ASSUME Inv, OpenInv, [Next]_vars
               PROVE  OpenInv' /\ (Settled \/ (~context' /\ RecordsCounted))
    OBVIOUS
  <1>0. Inv' /\ Transition
    BY InvStep
  <1>1. CASE UNCHANGED vars
    <2>1. OpenInv'
      BY <1>1 DEF vars, OpenInv, ExportsReleased, Counted, QueuedWhenFull, ResumesOnQueue
    <2>2. loop' = loop
      BY <1>1 DEF vars
    <2>3. \A c \in Categories : Loses(loop, loop', c, 0)
      BY <2>2, SameSlots
    <2>4. Settled
      BY <2>2, <2>3, QuietSettled
    <2> QED
      BY <2>1, <2>4
  <1>2. CASE \E o \in SubmitOps : Submit(o)
    BY <1>0, <1>2, SubmitOpen
  <1>3. CASE \E o \in BulkOps \cup HandleOps :
                 HandleOpRefused(o) \/ HandleOp(o)
    BY <1>0, <1>3, HandleOpOpen
  <1>4. CASE \E o \in HandleOps : HandleOpAnsweredInline(o)
    BY <1>0, <1>4, AnsweredInlineOpen
  <1>5. CASE \E o \in MountOps : Mount(o)
    BY <1>0, <1>5, MountOpen
  <1>6. CASE \E o \in ExportOps : GetExports(o)
    BY <1>0, <1>6, GetExportsOpen
  <1>7. CASE (\E o \in NfsOps : HandleIOEvent(o)) \/ HandleIOEventIdle
    BY <1>0, <1>7, HandleIOEventOpen
  <1>8. CASE ShutdownWithError
    BY <1>0, <1>8, ShutdownWithErrorOpen
  <1>9. CASE \E e \in ExportOps : HandleRpcExportsEvent(e)
    BY <1>0, <1>9, HandleRpcExportsEventOpen
  <1>10. CASE \E T \in SUBSET loop.active : ScanForTimeouts(T)
    BY <1>0, <1>10, ScanForTimeoutsOpen
  <1>11. CASE Shutdown \/ \E onQueue \in BOOLEAN : Deinit(onQueue)
    BY <1>0, <1>11, ShutdownOpen
  <1> QED
    BY <1>1, <1>2, <1>3, <1>4, <1>5, <1>6, <1>7, <1>8, <1>9, <1>10, <1>11 DEF Next

-----------------------------------------------------------------------------
(* The theorems of the second layer.                                        *)

\* The second layer of the invariant holds in every reachable state, for any
\* number of calls and any bounds: while the context is open the counts follow the
\* requests, the queue is only kept while the pipeline is full, and the RPC context
\* of an export query belongs to a caller who waits.
THEOREM OpenInvariant == Spec => []OpenInv
  <1>1. Init => OpenInv
    BY OpenInvInit
  <1>2. Inv /\ OpenInv /\ [Next]_vars => OpenInv'
    BY OpenInvStep
  <1> QED
    BY <1>1, <1>2, LoopInvariant, PTL DEF Spec

\* A result means what it says about the request: "ok" only after its answer, and
\* a caller turned away for want of room never reaches libnfs.
THEOREM OutcomesAreDefinite == Spec => []DefiniteOutcomes
  <1>1. Inv => DefiniteOutcomes
    BY DEF Inv, Consistent, Told, DefiniteOutcomes
  <1> QED
    BY <1>1, LoopInvariant, PTL

\* The export query's RPC context is given up as soon as the query is over.
THEOREM ExportContextReleased == Spec => []ExportsReleased
  <1>1. OpenInv => ExportsReleased
    BY DEF OpenInv
  <1> QED
    BY <1>1, OpenInvariant, PTL

\* An inline callback makes the loop count one request too many, and however many
\* of them run, in whatever order with timeouts and late answers, never two.
THEOREM CountsStayClose == Spec => []OvercountAtMostOne
  <1>1. OpenInv => OvercountAtMostOne
    BY DEF OpenInv, Counted, OvercountAtMostOne
  <1> QED
    BY <1>1, OpenInvariant, PTL

\* Until a call times out the queue is only kept while the pipeline is full, but
\* for the one slot that an inline callback may have cost.
THEOREM LoopConservesWork == Spec => []WorkConserving
  <1>1. Inv /\ OpenInv => WorkConserving
    <2> SUFFICES ASSUME Inv, OpenInv, context, loop.pending # <<>>,
                        \A o \in Ops : loop.reply[o] # "ETIMEDOUT"
                 PROVE  Cardinality(Slotted(loop, "metadata")) + 1
                           >= EffectiveDepth(loop.controller["metadata"])
      BY DEF WorkConserving
    <2>1. loop \in LoopType
      BY InvParts
    <2>2. /\ loop.inFlight["metadata"] \in Nat
          /\ Cardinality(Slotted(loop, "metadata")) \in Nat
          /\ EffectiveDepth(loop.controller["metadata"]) \in Nat
      BY <2>1, InFlightFacts, SlottedFacts, EffectiveDepthType DEF LoopType, Categories
    <2>3. loop.inFlight["metadata"] <= Cardinality(Slotted(loop, "metadata")) + 1
      BY DEF OpenInv, Counted
    <2>4. ~(loop.inFlight["metadata"] < EffectiveDepth(loop.controller["metadata"]))
      BY DEF OpenInv, QueuedWhenFull, HasSlot
    <2> QED
      BY <2>2, <2>3, <2>4
  <1> QED
    BY <1>1, LoopInvariant, OpenInvariant, PTL

\* Dropping the last reference off the queue can trip the precondition of
\* CallbackData.resume only for the request of a call that has timed out.
THEOREM TrapsNeedATimeout == Spec => []ResumesOnQueue
  <1>1. OpenInv => ResumesOnQueue
    BY DEF OpenInv
  <1> QED
    BY <1>1, OpenInvariant, PTL

\* The depth of a pipeline moves once for each callback of its category and once
\* for each of its calls that times out, with the outcome the caller is told, and
\* for nothing else; or it is reset by a shutdown.
THEOREM DepthsFollowCompletions == Spec => OneRecordPerEvent
  <1>1. Inv /\ OpenInv /\ [Next]_vars => [RecordsCounted]_vars
    BY OpenInvStep, SettledRecords
  <1> QED
    BY <1>1, LoopInvariant, OpenInvariant, PTL DEF Spec, OneRecordPerEvent

\* No block reopens the loop.
LEMMA ContextStaysClosed == [Next]_vars /\ context' => context
  BY DEF Next, vars, lifecycle, Called, Submit, HandleOpRefused, HandleOp,
         HandleOpAnsweredInline, Mount, GetExports, HandleIOEvent, HandleIOEventIdle,
         ShutdownWithError, HandleRpcExportsEvent, ScanForTimeouts, Shutdown, Deinit

\* The calls that a block adds to those that explain an undercount are the ones it
\* times out and the mounts and export queries it answers.
LEMMA UndercountGrows ==
    ASSUME NEW A \in SUBSET Ops, NEW T \in SUBSET Ops, NEW success,
           Advances(loop, loop', A, T, success), NEW c \in Categories
    PROVE  /\ Cardinality(Overpaid(loop', c)) =
                 Cardinality(Overpaid(loop, c)) + Cardinality(InCategory(T, c))
           /\ Cardinality(Unslotted(loop', c)) = Cardinality(Unslotted(loop, c)) + Free(A, c)
           /\ Cardinality(Overpaid(loop, c)) \in Nat /\ Cardinality(Unslotted(loop, c)) \in Nat
           /\ Cardinality(InCategory(T, c)) \in Nat /\ Free(A, c) \in Nat
  <1> DEFINE M == MountOps \cup ExportOps
             P == {o \in Ops : loop.reply[o] = "ETIMEDOUT"}
             Q == {o \in M : loop.rpc[o] = "done"}
  <1>1. M \subseteq Ops /\ P \in SUBSET Ops /\ Q \in SUBSET Ops /\ A \cap M \in SUBSET Ops
    BY OpsFacts DEF Ops, NfsOps
  <1>2. Overpaid(loop, c) = InCategory(P, c) /\ Overpaid(loop', c) = InCategory(P \cup T, c)
    BY DEF Overpaid, InCategory, Advances
  <1>3. P \cap T = {}
    BY DEF Advances
  <1>4. Unslotted(loop, c) = InCategory(Q, c)
    BY DEF Unslotted, InCategory
  <1>5. Unslotted(loop', c) = InCategory(Q \cup (A \cap M), c)
    BY <1>1 DEF Unslotted, InCategory, Advances
  <1>6. Q \cap (A \cap M) = {}
    BY <1>1 DEF Advances
  <1>7. Free(A, c) = Cardinality(InCategory(A \cap M, c))
    BY DEF Free
  <1> HIDE DEF M, P, Q
  <1>8. Cardinality(InCategory(P \cup T, c)) =
            Cardinality(InCategory(P, c)) + Cardinality(InCategory(T, c))
    BY <1>1, <1>3, DisjointCounts
  <1>9. Cardinality(InCategory(Q \cup (A \cap M), c)) =
            Cardinality(InCategory(Q, c)) + Cardinality(InCategory(A \cap M, c))
    BY <1>1, <1>6, DisjointCounts
  <1>10. /\ Cardinality(InCategory(P, c)) \in Nat /\ Cardinality(InCategory(Q, c)) \in Nat
         /\ Cardinality(InCategory(T, c)) \in Nat /\ Cardinality(InCategory(A \cap M, c)) \in Nat
    BY <1>1, CountType
  <1> QED
    BY <1>2, <1>4, <1>5, <1>7, <1>8, <1>9, <1>10

\* The loop counts too few requests only for calls that timed out and for mounts
\* and export queries that were answered, one for each: whatever the order of
\* timeouts, late answers, refusals and inline callbacks, no other path lets more
\* requests into a pipeline than its depth allows.
THEOREM CountsFallBehindByKnownCalls == Spec => []UndercountExplained
  <1>1. Init => UndercountExplained
    <2> SUFFICES ASSUME Init, NEW c \in Categories
                 PROVE  Cardinality(Slotted(loop, c)) <=
                            loop.inFlight[c] + Cardinality(Overpaid(loop, c))
                                             + Cardinality(Unslotted(loop, c))
      BY DEF UndercountExplained
    <2>1. loop.inFlight = [k \in Categories |-> 0]
      BY DEF Init
    <2>2. loop.rpc = [o \in Ops |-> "none"]
      BY DEF Init
    <2>3. loop.inFlight[c] = 0
      BY <2>1
    <2>4. Slotted(loop, c) = {}
      BY <2>2 DEF Slotted, InCategory, Sent
    <2>5. Cardinality(Slotted(loop, c)) = 0
      BY <2>4, FS_EmptySet
    <2>6. Overpaid(loop, c) \in SUBSET Ops /\ Unslotted(loop, c) \in SUBSET Ops
      BY DEF Overpaid, Unslotted, InCategory, Ops, NfsOps
    <2>7. Cardinality(Overpaid(loop, c)) \in Nat /\ Cardinality(Unslotted(loop, c)) \in Nat
      BY <2>6, CountType
    <2> QED
      BY <2>3, <2>5, <2>7
  <1>2. Inv /\ OpenInv /\ UndercountExplained /\ [Next]_vars => UndercountExplained'
    <2> SUFFICES ASSUME Inv, OpenInv, UndercountExplained, [Next]_vars, context',
                        NEW c \in Categories
                 PROVE  Cardinality(Slotted(loop', c)) <=
                            loop'.inFlight[c] + Cardinality(Overpaid(loop', c))
                                              + Cardinality(Unslotted(loop', c))
      BY DEF UndercountExplained
    <2>1. context /\ Settled
      BY OpenInvStep, ContextStaysClosed
    <2>2. PICK A, T \in SUBSET Ops, success \in BOOLEAN :
              /\ Advances(loop, loop', A, T, success)
              /\ Loses(loop, loop', c, Cardinality(InCategory(T, c)) + Free(A, c))
      BY <2>1 DEF Settled
    <2> DEFINE x == Cardinality(Overpaid(loop, c))
               y == Cardinality(Unslotted(loop, c))
               m == Cardinality(InCategory(T, c))
               n == Free(A, c)
    <2>3. /\ Cardinality(Overpaid(loop', c)) = x + m
          /\ Cardinality(Unslotted(loop', c)) = y + n
          /\ x \in Nat /\ y \in Nat /\ m \in Nat /\ n \in Nat
      BY <2>2, UndercountGrows
    <2>4. Cardinality(Slotted(loop, c)) <= loop.inFlight[c] + x + y
      BY <2>1 DEF UndercountExplained
    <2>5. Loses(loop, loop', c, m + n)
      BY <2>2
    <2>7. loop.inFlight[c] \in Nat /\ loop'.inFlight[c] \in Nat
      <3>1. loop \in LoopType /\ loop' \in LoopType
        BY InvStep DEF Inv, TypeOK
      <3> QED
        BY <3>1 DEF LoopType
    <2> HIDE DEF x, y, m, n
    <2>8. x + y \in Nat /\ Cardinality(Slotted(loop, c)) <= loop.inFlight[c] + (x + y)
      BY <2>3, <2>4, <2>7
    <2>9. Cardinality(Slotted(loop', c)) <= loop'.inFlight[c] + ((x + y) + (m + n))
      BY <2>5, <2>8 DEF Loses
    <2>10. Cardinality(Slotted(loop', c)) \in Nat
      BY SlottedFacts
    <2> QED
      BY <2>3, <2>7, <2>9, <2>10
  <1> QED
    BY <1>1, <1>2, LoopInvariant, OpenInvariant, PTL DEF Spec
=============================================================================
