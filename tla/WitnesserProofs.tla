--------------------------- MODULE WitnesserProofs ---------------------------
(***************************************************************************)
(* Proofs about Witnesser, for every set of validators, calls and epochs.  *)
(*                                                                         *)
(* The steps come first and assume what they need of counting votes        *)
(* (CountingFacts); it is proved after them, with the library's theorems   *)
(* on finite sets.                                                         *)
(***************************************************************************)
EXTENDS Witnesser, TLAPS

-----------------------------------------------------------------------------
(* Sequences and counters.                                                 *)

\* Appending adds one element to the range of a sequence.
LEMMA RangeAppend ==
  ASSUME NEW S, NEW s \in Seq(S), NEW x \in S
  PROVE  /\ Append(s, x) \in Seq(S)
         /\ Range(Append(s, x)) = Range(s) \cup {x}
<1> DEFINE t == Append(s, x)
<1>1. /\ t \in Seq(S) /\ Len(t) = Len(s) + 1 /\ Len(s) \in Nat
      /\ DOMAIN t = 1..Len(t) /\ DOMAIN s = 1..Len(s)
      /\ \A i \in 1..Len(s) : t[i] = s[i]
      /\ t[Len(s) + 1] = x
  OBVIOUS
<1> HIDE DEF t
<1>2. Range(t) \subseteq Range(s) \cup {x}
  BY <1>1 DEF Range
<1>3. Range(s) \cup {x} \subseteq Range(t)
  BY <1>1 DEF Range
<1> QED BY <1>1, <1>2, <1>3 DEF t

\* The range of a non-empty sequence is its head and the range of its tail.
LEMMA RangeHeadTail ==
  ASSUME NEW S, NEW s \in Seq(S), s # <<>>
  PROVE  /\ Head(s) \in S /\ Tail(s) \in Seq(S)
         /\ Range(s) = {Head(s)} \cup Range(Tail(s))
<1> DEFINE t == Tail(s)
<1>1. /\ Head(s) \in S /\ t \in Seq(S) /\ Len(t) = Len(s) - 1 /\ Len(s) \in Nat \ {0}
      /\ DOMAIN t = 1..Len(t) /\ DOMAIN s = 1..Len(s) /\ Head(s) = s[1]
      /\ \A i \in 1..Len(t) : t[i] = s[i + 1]
  OBVIOUS
<1> HIDE DEF t
<1>2. Range(s) \subseteq {Head(s)} \cup Range(t)
  <2> SUFFICES ASSUME NEW i \in 1..Len(s), i # 1 PROVE s[i] \in Range(t)
    BY <1>1 DEF Range
  <2>1. i - 1 \in 1..Len(t) /\ t[i - 1] = s[i]
    BY <1>1
  <2> QED BY <1>1, <2>1 DEF Range
<1>3. {Head(s)} \cup Range(t) \subseteq Range(s)
  <2>1. \A i \in 1..Len(t) : i + 1 \in 1..Len(s)
    BY <1>1
  <2>2. Range(t) \subseteq Range(s)
    BY <1>1, <2>1 DEF Range
  <2>3. Head(s) \in Range(s)
    BY <1>1 DEF Range
  <2> QED BY Zenon, <2>2, <2>3
<1> QED BY <1>1, <1>2, <1>3 DEF t

\* The range of a non-empty sequence is its last element and the range of the rest.
LEMMA RangeFrontLast ==
  ASSUME NEW S, NEW s \in Seq(S), s # <<>>
  PROVE  /\ s[Len(s)] \in S
         /\ SubSeq(s, 1, Len(s) - 1) \in Seq(S)
         /\ Range(s) = Range(SubSeq(s, 1, Len(s) - 1)) \cup {s[Len(s)]}
<1> DEFINE t == SubSeq(s, 1, Len(s) - 1)
<1>1. Len(s) \in Nat \ {0} /\ s \in [1..Len(s) -> S] /\ DOMAIN s = 1..Len(s)
  OBVIOUS
<1>2. /\ t \in Seq(S) /\ Len(t) = Len(s) - 1 /\ DOMAIN t = 1..Len(t)
      /\ \A i \in 1..Len(t) : t[i] = s[i]
  BY <1>1
<1> HIDE DEF t
<1>3. Range(s) \subseteq Range(t) \cup {s[Len(s)]}
  BY <1>1, <1>2 DEF Range
<1>4. Range(t) \cup {s[Len(s)]} \subseteq Range(s)
  BY <1>1, <1>2 DEF Range
<1> QED BY <1>1, <1>2, <1>3, <1>4 DEF t

\* The empty sequence is one of any elements, and a sequence's elements are of its kind.
LEMMA EmptySeq == ASSUME NEW S PROVE <<>> \in Seq(S)
OBVIOUS

LEMMA RangeOfSeq == ASSUME NEW S, NEW s \in Seq(S) PROVE Range(s) \in SUBSET S
BY DEF Range

\* Arithmetic on counters, stated apart so that it can be cited where the
\* context is large.
LEMMA CounterFacts ==
  /\ \A a, b \in Nat : (a + 1) + b > 0 /\ a + (b + 1) > 0
  /\ \A n, q \in Nat : ~(n >= q) /\ n + 1 >= q => n + 1 = q
  /\ \A n \in Nat : n \in 0..n /\ n >= n
OBVIOUS

-----------------------------------------------------------------------------
(* Votes.                                                                  *)

\* What the steps use of counting votes and of combining data.
CountingFacts ==
  /\ \A s \in Seq(Data) : s # <<>> => select_median(s) \in Data
  /\ \A e \in Epochs : QuorumOf(e) \in Nat \ {0}
  /\ Cardinality({}) = 0
  /\ \A e \in Epochs : \A S \in SUBSET AuthoritiesAt[e] :
       /\ Cardinality(S) \in Nat
       /\ \A T \in SUBSET S : Cardinality(T) <= Cardinality(S)
       /\ \A v \in AuthoritiesAt[e] \ S : Cardinality(S \cup {v}) = Cardinality(S) + 1

\* What combine_and_inject makes of the data of a call is data or nothing.
LEMMA CombineType ==
  ASSUME CountingFacts, NEW s \in Seq(Data)
  PROVE  combine_and_inject(s) \in MaybeData
BY DEF CountingFacts, combine_and_inject, MaybeData

\* A quorum is a positive number.
LEMMA QuorumPositive ==
  ASSUME CountingFacts, NEW e \in Epochs
  PROVE  QuorumOf(e) \in Nat \ {0}
BY Zenon DEF CountingFacts

\* Votes can be counted.
LEMMA VotesFinite ==
  ASSUME CountingFacts, VotesFromAuthorities, NEW e \in Epochs, NEW c \in Calls
  PROVE  Cardinality(Votes[e][c]) \in Nat
BY Zenon DEF CountingFacts, VotesFromAuthorities

\* The bounds of the epoch counters.
LEMMA EpochBounds ==
  ASSUME TypeOK
  PROVE  /\ MaxEpoch \in Nat
         /\ epoch_index \in Nat /\ 1 <= epoch_index /\ epoch_index <= MaxEpoch
         /\ last_expired_epoch \in Nat /\ last_expired_epoch < epoch_index
         /\ \A e : e \in Epochs <=> e \in Nat /\ 1 <= e /\ e <= MaxEpoch
<1>1. MaxEpoch \in Nat /\ epoch_index \in 1..MaxEpoch
      /\ last_expired_epoch \in 0..(epoch_index - 1)
  BY WitnesserAssumption DEF TypeOK, Epochs
<1> QED BY <1>1 DEF Epochs

\* Every pending call is a scheduled call.
LEMMA PendingType ==
  ASSUME TypeOK, NEW p \in PendingCalls
  PROVE  p.epoch \in Epochs /\ p.call \in Calls /\ p.data \in MaybeData
<1>1. WitnessedCallsScheduledForDispatch \in Seq(ScheduledCall)
      /\ idle.todo \in Seq(ScheduledCall)
  BY DEF TypeOK
<1>2. p \in ScheduledCall
  BY <1>1, RangeOfSeq DEF PendingCalls
<1> QED BY <1>2 DEF ScheduledCall

\* No vote is short of a quorum.
LEMMA EmptyBelowQuorum ==
  ASSUME CountingFacts, NEW e \in Epochs
  PROVE  ~(Cardinality({}) >= QuorumOf(e))
BY QuorumPositive DEF CountingFacts

\* The last key of WitnessDeadline.
LEMMA GraceInDomain == LateWitnessGracePeriod \in 0..LateWitnessGracePeriod
BY SMTT(40), WitnesserAssumption

\* The invariant holds initially.
LEMMA InitInv == CountingFacts /\ Init => WitnesserInv
<1> SUFFICES ASSUME CountingFacts, Init PROVE WitnesserInv
  OBVIOUS
<1>1. TypeOK
  BY WitnesserAssumption DEF Init, TypeOK, PerCall, NotIdle, Epochs, MaybeData
<1>2. PendingCalls = {} /\ Range(EpochsToCull) = {}
  BY DEF Init, PendingCalls, NotIdle, Range
<1>3. \A e \in Epochs, c \in Calls :
         /\ Votes[e][c] = {} /\ ExtraCallData[e][c] = <<>> /\ ~CallHashExecuted[e][c]
         /\ dispatches[e][c] = 0 /\ forced[e][c] = 0
  BY DEF Init, PerCall
<1>4. WitnessedCallNotLost
  BY Zenon, <1>3, EmptyBelowQuorum DEF WitnessedCallNotLost
<1>5. /\ VotesFromAuthorities /\ FutureEpochsEmpty /\ PendingCallsHaveQuorum
      /\ ExecutedIsDispatched /\ DispatchedIsExecuted /\ CullingExpiredOnly
      /\ DispatchedWithQuorum /\ EveryAuthorityAccountedFor /\ CulledVotesStayGone
  BY <1>2, <1>3 DEF VotesFromAuthorities, FutureEpochsEmpty, PendingCallsHaveQuorum,
     ExecutedIsDispatched, DispatchedIsExecuted, CullingExpiredOnly,
     DispatchedWithQuorum, EveryAuthorityAccountedFor, CulledVotesStayGone
<1>6. NothingInFlight
  BY DEF Init, NothingInFlight
<1> QED BY <1>1, <1>4, <1>5, <1>6 DEF WitnesserInv

\* A new epoch starts without votes and without dispatches.
LEMMA NewEpochInv == CountingFacts /\ WitnesserInv /\ NewEpoch => WitnesserInv'
<1> SUFFICES ASSUME CountingFacts, WitnesserInv, NewEpoch PROVE WitnesserInv'
  OBVIOUS
<1> USE DEF NewEpoch, storage, history
<1>0. TypeOK
  BY DEF WitnesserInv
<1>1. epoch_index' \in Epochs /\ last_expired_epoch' \in 0..(epoch_index' - 1)
  BY <1>0, EpochBounds
<1>2. TypeOK'
  BY Zenon, <1>0, <1>1 DEF TypeOK
<1>3. PendingCalls' = PendingCalls
  BY DEF PendingCalls
<1>4. ASSUME NEW e \in Epochs, Active(e)', ~Active(e)
      PROVE  \A c \in Calls : Votes[e][c] = {} /\ dispatches[e][c] = 0 /\ forced[e][c] = 0
  BY <1>0, <1>4, EpochBounds DEF WitnesserInv, Active, FutureEpochsEmpty
<1>5. WitnessedCallNotLost'
  BY Zenon, <1>3, <1>4, EmptyBelowQuorum DEF WitnesserInv, WitnessedCallNotLost, QuorumOf
<1>6. PendingCallsHaveQuorum'
  <2> SUFFICES ASSUME NEW p \in PendingCalls
               PROVE  /\ p.epoch <= epoch_index'
                      /\ Active(p.epoch)' =>
                           Cardinality(Votes[p.epoch][p.call]) >= QuorumOf(p.epoch)
    BY <1>3 DEF PendingCallsHaveQuorum, QuorumOf
  <2>1. p.epoch \in Epochs /\ p.epoch <= epoch_index
    BY <1>0, PendingType DEF WitnesserInv, PendingCallsHaveQuorum
  <2>2. Active(p.epoch)' => Active(p.epoch)
    BY <2>1 DEF Active
  <2>3. p.epoch <= epoch_index'
    BY <2>1, <1>0, EpochBounds
  <2> QED BY <2>2, <2>3 DEF WitnesserInv, PendingCallsHaveQuorum
<1>7. FutureEpochsEmpty'
  BY <1>0, EpochBounds DEF WitnesserInv, FutureEpochsEmpty
<1>8. VotesFromAuthorities' /\ ExecutedIsDispatched'
      /\ CullingExpiredOnly' /\ CulledVotesStayGone' /\ NothingInFlight'
  BY DEF WitnesserInv, VotesFromAuthorities, ExecutedIsDispatched,
     CullingExpiredOnly, CulledVotesStayGone, IsCulled, NothingInFlight, NotIdle
<1>9. DispatchedIsExecuted' /\ DispatchedWithQuorum' /\ EveryAuthorityAccountedFor'
  BY <1>4 DEF WitnesserInv, DispatchedIsExecuted, DispatchedWithQuorum,
     EveryAuthorityAccountedFor, QuorumOf
<1> QED BY <1>2, <1>5, <1>6, <1>7, <1>8, <1>9 DEF WitnesserInv

\* Expiring an epoch only shrinks the set of active epochs.
LEMMA ExpiredEpochInv == WitnesserInv /\ on_expired_epoch => WitnesserInv'
<1> SUFFICES ASSUME WitnesserInv, on_expired_epoch PROVE WitnesserInv'
  OBVIOUS
<1> USE DEF on_expired_epoch, history
<1>0. TypeOK
  BY DEF WitnesserInv
<1>1. last_expired_epoch + 1 \in Epochs /\ last_expired_epoch' \in 0..(epoch_index' - 1)
  BY <1>0, EpochBounds
<1>2. /\ EpochsToCull' \in Seq(Epochs)
      /\ Range(EpochsToCull') = Range(EpochsToCull) \cup {last_expired_epoch'}
  <2>1. EpochsToCull \in Seq(Epochs)
    BY <1>0 DEF TypeOK
  <2> QED BY <2>1, <1>1, RangeAppend
<1>3. TypeOK'
  BY Zenon, <1>0, <1>1, <1>2 DEF TypeOK
<1>4. PendingCalls' = PendingCalls
  BY DEF PendingCalls
<1>5. \A e \in Epochs : Active(e)' => Active(e)
  BY <1>0, EpochBounds DEF Active
<1>6. PendingCallsHaveQuorum'
  <2> SUFFICES ASSUME NEW p \in PendingCalls
               PROVE  /\ p.epoch <= epoch_index
                      /\ Active(p.epoch)' =>
                           Cardinality(Votes[p.epoch][p.call]) >= QuorumOf(p.epoch)
    BY <1>4 DEF PendingCallsHaveQuorum, QuorumOf
  <2>1. p.epoch \in Epochs
    BY <1>0, PendingType
  <2> QED BY <2>1, <1>5 DEF WitnesserInv, PendingCallsHaveQuorum
<1>7. CullingExpiredOnly'
  <2>1. \A e \in Range(EpochsToCull) : e \in Epochs /\ e <= last_expired_epoch
    BY <1>0, RangeOfSeq DEF TypeOK, WitnesserInv, CullingExpiredOnly
  <2> QED BY <2>1, <1>0, <1>2, EpochBounds DEF CullingExpiredOnly
<1>8. CulledVotesStayGone'
  <2>1. \A e \in Epochs : IsCulled(e)' => IsCulled(e)
    BY <1>0, <1>2, EpochBounds DEF IsCulled
  <2> QED BY <2>1 DEF WitnesserInv, CulledVotesStayGone
<1>9. /\ VotesFromAuthorities' /\ FutureEpochsEmpty' /\ ExecutedIsDispatched'
      /\ NothingInFlight'
  BY DEF WitnesserInv, FutureEpochsEmpty, VotesFromAuthorities,
     ExecutedIsDispatched, NothingInFlight, NotIdle
<1>10. /\ DispatchedIsExecuted' /\ DispatchedWithQuorum'
       /\ EveryAuthorityAccountedFor' /\ WitnessedCallNotLost'
  BY <1>4, <1>5 DEF WitnesserInv, DispatchedIsExecuted, DispatchedWithQuorum,
     EveryAuthorityAccountedFor, WitnessedCallNotLost, QuorumOf
<1> QED BY <1>3, <1>6, <1>7, <1>8, <1>9, <1>10 DEF WitnesserInv

\* Starting a block, changing the safe mode and stuttering touch no record.
LEMMA RecordsUnchangedInv ==
  ASSUME WitnesserInv, UNCHANGED <<storage, epochs, idle, history>>,
         safe_mode' \in SafeModes, phase' \in {"initialize", "execute", "idle", "finalize"},
         phase' = "idle" <=> phase = "idle"
  PROVE  WitnesserInv'
<1> USE DEF storage, epochs, history
<1>1. TypeOK'
  BY ZenonT(60) DEF WitnesserInv, TypeOK
<1>2. PendingCalls' = PendingCalls /\ \A e \in Epochs : Active(e)' <=> Active(e)
  BY DEF PendingCalls, Active
<1>3. PendingCallsHaveQuorum' /\ NothingInFlight'
  BY <1>2 DEF WitnesserInv, PendingCallsHaveQuorum, Active, QuorumOf, NothingInFlight, NotIdle
<1>4. /\ VotesFromAuthorities' /\ FutureEpochsEmpty' /\ ExecutedIsDispatched'
      /\ CullingExpiredOnly' /\ CulledVotesStayGone'
  BY DEF WitnesserInv, FutureEpochsEmpty, VotesFromAuthorities,
     ExecutedIsDispatched, CullingExpiredOnly, CulledVotesStayGone, IsCulled
<1>5. /\ DispatchedIsExecuted' /\ DispatchedWithQuorum'
      /\ EveryAuthorityAccountedFor' /\ WitnessedCallNotLost'
  BY <1>2 DEF WitnesserInv, DispatchedIsExecuted, DispatchedWithQuorum,
     EveryAuthorityAccountedFor, WitnessedCallNotLost, QuorumOf
<1> QED BY <1>1, <1>3, <1>4, <1>5 DEF WitnesserInv

\* on_idle takes over the scheduled calls: the pending calls stay the same.
LEMMA OnIdleInv ==
  ASSUME WitnesserInv, NEW w \in 0..MaxWeight, on_idle(w)
  PROVE  WitnesserInv'
<1> USE DEF on_idle, history, epochs
<1>1. TypeOK'
  <2>1. idle' \in [todo : Seq(ScheduledCall), used : Nat, limit : 0..MaxWeight]
    BY DEF WitnesserInv, TypeOK
  <2>2. WitnessedCallsScheduledForDispatch' \in Seq(ScheduledCall)
    BY EmptySeq
  <2> QED BY Zenon, <2>1, <2>2 DEF WitnesserInv, TypeOK
<1>2. PendingCalls' = PendingCalls
  <2>1. idle.todo = <<>> /\ idle'.todo = WitnessedCallsScheduledForDispatch
    BY DEF WitnesserInv, NothingInFlight, NotIdle
  <2>2. Range(<<>>) = {}
    BY DEF Range
  <2> QED BY <2>1, <2>2 DEF PendingCalls
<1>3. \A e \in Epochs : Active(e)' <=> Active(e)
  BY DEF Active
<1>4. PendingCallsHaveQuorum' /\ NothingInFlight'
  BY <1>2 DEF WitnesserInv, PendingCallsHaveQuorum, Active, QuorumOf, NothingInFlight
<1>5. /\ VotesFromAuthorities' /\ FutureEpochsEmpty' /\ ExecutedIsDispatched'
      /\ CullingExpiredOnly' /\ CulledVotesStayGone'
  BY ZenonT(60) DEF WitnesserInv, FutureEpochsEmpty, VotesFromAuthorities,
     ExecutedIsDispatched, CullingExpiredOnly, CulledVotesStayGone, IsCulled
<1>6. /\ DispatchedIsExecuted' /\ DispatchedWithQuorum'
      /\ EveryAuthorityAccountedFor' /\ WitnessedCallNotLost'
  BY ZenonT(60), <1>2, <1>3 DEF WitnesserInv, DispatchedIsExecuted, DispatchedWithQuorum,
     EveryAuthorityAccountedFor, WitnessedCallNotLost, QuorumOf
<1> QED BY <1>1, <1>4, <1>5, <1>6 DEF WitnesserInv

\* on_finalize reports every authority that the deadline found missing.
LEMMA OnFinalizeInv == WitnesserInv /\ on_finalize => WitnesserInv'
<1> SUFFICES ASSUME WitnesserInv, on_finalize PROVE WitnesserInv'
  OBVIOUS
<1> USE DEF on_finalize, epochs
<1>0. LateWitnessGracePeriod \in Nat
  BY WitnesserAssumption
<1>1. WitnessDeadline' \in [0..LateWitnessGracePeriod -> Seq(Epochs \X Calls)]
  <2>1. \A n \in 0..LateWitnessGracePeriod :
           n < LateWitnessGracePeriod => n + 1 \in 0..LateWitnessGracePeriod
    BY <1>0
  <2>2. <<>> \in Seq(Epochs \X Calls)
    BY EmptySeq
  <2> QED BY <2>1, <2>2 DEF WitnesserInv, TypeOK
<1>2. missed' \subseteq Epochs \X Calls \X Validators
  BY DEF WitnesserInv, TypeOK
<1>3. TypeOK'
  BY Zenon, <1>1, <1>2 DEF WitnesserInv, TypeOK
<1>4. PendingCalls' = PendingCalls /\ \A e \in Epochs : Active(e)' <=> Active(e)
  BY DEF PendingCalls, Active
<1>5. PendingCallsHaveQuorum' /\ NothingInFlight'
  BY <1>4 DEF WitnesserInv, PendingCallsHaveQuorum, Active, QuorumOf, NothingInFlight, NotIdle
<1>6. /\ VotesFromAuthorities' /\ FutureEpochsEmpty' /\ ExecutedIsDispatched'
      /\ CullingExpiredOnly' /\ CulledVotesStayGone'
  BY ZenonT(60) DEF WitnesserInv, FutureEpochsEmpty, VotesFromAuthorities,
     ExecutedIsDispatched, CullingExpiredOnly, CulledVotesStayGone, IsCulled
<1>7. DispatchedIsExecuted' /\ DispatchedWithQuorum' /\ WitnessedCallNotLost'
  BY ZenonT(60), <1>4 DEF WitnesserInv, DispatchedIsExecuted, DispatchedWithQuorum,
     WitnessedCallNotLost, QuorumOf
<1>8. EveryAuthorityAccountedFor'
  <2> SUFFICES ASSUME NEW e \in Epochs, NEW c \in Calls, NEW v \in AuthoritiesAt[e],
                      Active(e), dispatches[e][c] + forced[e][c] > 0,
                      \A n \in 0..LateWitnessGracePeriod :
                        <<e, c>> \notin Range(WitnessDeadline'[n])
               PROVE  v \in Votes[e][c] \/ <<e, c, v>> \in missed'
    BY <1>4 DEF EveryAuthorityAccountedFor
  <2>1. CASE <<e, c>> \in Range(WitnessDeadline[0])
    <3>1. Votes[e][c] # {} /\ v \in Validators
      BY ZenonT(60), WitnesserAssumption DEF WitnesserInv, DispatchedIsExecuted
    <3>2. v \notin Votes[e][c] => v \in FailedWitnessers(e, c)
      BY Zenon, <3>1 DEF FailedWitnessers
    <3> QED BY <2>1, <3>1, <3>2
  <2>2. CASE <<e, c>> \notin Range(WitnessDeadline[0])
    <3>1. ASSUME NEW n \in 0..LateWitnessGracePeriod
          PROVE  <<e, c>> \notin Range(WitnessDeadline[n])
      <4>1. CASE n = 0
        BY <4>1, <2>2
      <4>2. CASE n # 0
        <5>1. n - 1 \in 0..LateWitnessGracePeriod /\ n - 1 < LateWitnessGracePeriod /\ (n - 1) + 1 = n
          BY <4>2, <1>0
        <5>2. WitnessDeadline'[n - 1] = WitnessDeadline[n]
          BY <5>1
        <5> QED BY <5>1, <5>2
      <4> QED BY <4>1, <4>2
    <3> QED BY <3>1 DEF WitnesserInv, EveryAuthorityAccountedFor
  <2> QED BY Zenon, <2>1, <2>2
<1> QED BY ZenonT(60), <1>3, <1>5, <1>6, <1>7, <1>8 DEF WitnesserInv

\* What dispatch_call does to the executed flags and the deadlines.
LEMMA DispatchRecords ==
  ASSUME TypeOK, NEW e \in Epochs, NEW c \in Calls, dispatch_call(e, c)
  PROVE  /\ CallHashExecuted' \in [Epochs -> [Calls -> BOOLEAN]]
         /\ \A f \in Epochs, k \in Calls :
              CallHashExecuted'[f][k] <=> CallHashExecuted[f][k] \/ <<f, k>> = <<e, c>>
         /\ WitnessDeadline' \in [0..LateWitnessGracePeriod -> Seq(Epochs \X Calls)]
         /\ \A n \in 0..LateWitnessGracePeriod :
              Range(WitnessDeadline[n]) \subseteq Range(WitnessDeadline'[n])
         /\ <<e, c>> \in Range(WitnessDeadline'[LateWitnessGracePeriod])
<1>1. /\ CallHashExecuted' \in [Epochs -> [Calls -> BOOLEAN]]
      /\ \A f \in Epochs, k \in Calls :
           CallHashExecuted'[f][k] <=> CallHashExecuted[f][k] \/ <<f, k>> = <<e, c>>
  BY Zenon DEF TypeOK, dispatch_call
<1>2. LateWitnessGracePeriod \in 0..LateWitnessGracePeriod
  BY Zenon, GraceInDomain
<1> DEFINE old == WitnessDeadline[LateWitnessGracePeriod]
           new == Append(old, <<e, c>>)
<1>3. old \in Seq(Epochs \X Calls) /\ <<e, c>> \in Epochs \X Calls
  BY <1>2 DEF TypeOK
<1>4. new \in Seq(Epochs \X Calls) /\ Range(new) = Range(old) \cup {<<e, c>>}
  BY <1>3, RangeAppend
<1>5. WitnessDeadline' = [WitnessDeadline EXCEPT ![LateWitnessGracePeriod] = new]
  BY DEF dispatch_call
<1> HIDE DEF new
<1>6. WitnessDeadline' \in [0..LateWitnessGracePeriod -> Seq(Epochs \X Calls)]
  BY <1>2, <1>4, <1>5 DEF TypeOK
<1>7. \A n \in 0..LateWitnessGracePeriod :
         WitnessDeadline'[n] = IF n = LateWitnessGracePeriod THEN new ELSE WitnessDeadline[n]
  BY ZenonT(60), <1>2, <1>5 DEF TypeOK
<1> QED BY <1>1, <1>2, <1>4, <1>6, <1>7

\* The history of a dispatch.
LEMMA RecordedDispatch ==
  ASSUME TypeOK, NEW e \in Epochs, NEW c \in Calls, NEW d \in MaybeData,
         RecordDispatch(e, c, d)
  PROVE  /\ dispatches' \in [Epochs -> [Calls -> Nat]]
         /\ delivered' \in [Epochs -> [Calls -> MaybeData]]
         /\ dispatches'[e][c] = dispatches[e][c] + 1
         /\ \A f \in Epochs, k \in Calls :
              <<f, k>> # <<e, c>> => dispatches'[f][k] = dispatches[f][k]
<1>1. /\ dispatches \in [Epochs -> [Calls -> Nat]]
      /\ delivered \in [Epochs -> [Calls -> MaybeData]]
      /\ dispatches' = [dispatches EXCEPT ![e][c] = dispatches[e][c] + 1]
      /\ delivered' = [delivered EXCEPT ![e][c] = d]
  BY DEF TypeOK, RecordDispatch
<1>2. dispatches' \in [Epochs -> [Calls -> Nat]]
  BY <1>1
<1>3. delivered' \in [Epochs -> [Calls -> MaybeData]]
  BY <1>1
<1>4. dispatches'[e][c] = dispatches[e][c] + 1
  BY <1>1
<1>5. ASSUME NEW f \in Epochs, NEW k \in Calls, <<f, k>> # <<e, c>>
      PROVE  dispatches'[f][k] = dispatches[f][k]
  BY ZenonT(60), <1>1, <1>5
<1> QED BY <1>2, <1>3, <1>4, <1>5

\* A step that adds votes of authorities to active epochs, and dispatches the
\* calls of a set D of which each has a quorum or is forced, keeps the
\* invariant; that no call is lost and what on_idle carries are shown apart.
LEMMA DispatchStep ==
  ASSUME CountingFacts, WitnesserInv, TypeOK', NothingInFlight', WitnessedCallNotLost',
         UNCHANGED <<epochs, EpochsToCull, missed>>,
         NEW D \in SUBSET (Epochs \X Calls),
         \A f \in Epochs, k \in Calls : Votes[f][k] \subseteq Votes'[f][k],
         \A f \in Epochs, k \in Calls : Votes'[f][k] \subseteq AuthoritiesAt[f],
         \A f \in Epochs, k \in Calls : ~Active(f) =>
           Votes'[f][k] = Votes[f][k] /\ ExtraCallData'[f][k] = ExtraCallData[f][k],
         \A f \in Epochs, k \in Calls :
           CallHashExecuted'[f][k] <=> CallHashExecuted[f][k] \/ <<f, k>> \in D,
         \A f \in Epochs, k \in Calls : <<f, k>> \notin D =>
           dispatches'[f][k] = dispatches[f][k] /\ forced'[f][k] = forced[f][k],
         \A f \in Epochs, k \in Calls : <<f, k>> \in D =>
           /\ f <= epoch_index
           /\ dispatches'[f][k] + forced'[f][k] > 0
           /\ Active(f) => Votes'[f][k] # {}
           /\ <<f, k>> \in Range(WitnessDeadline'[LateWitnessGracePeriod]),
         \A f \in Epochs, k \in Calls :
           Active(f) /\ dispatches'[f][k] # dispatches[f][k] =>
             Cardinality(Votes'[f][k]) >= QuorumOf(f),
         \A n \in 0..LateWitnessGracePeriod :
           Range(WitnessDeadline[n]) \subseteq Range(WitnessDeadline'[n]),
         \A p \in PendingCalls' : p \in PendingCalls \/
           /\ p.epoch <= epoch_index
           /\ Cardinality(Votes'[p.epoch][p.call]) >= QuorumOf(p.epoch)
  PROVE  WitnesserInv'
<1> USE DEF epochs
<1>0. TypeOK /\ VotesFromAuthorities /\ VotesFromAuthorities'
  BY ZenonT(60) DEF WitnesserInv, VotesFromAuthorities
<1>1. \A f \in Epochs : Active(f)' <=> Active(f)
  BY ZenonT(60) DEF Active
<1>2. \A f \in Epochs, k \in Calls :
         Cardinality(Votes[f][k]) >= QuorumOf(f) => Cardinality(Votes'[f][k]) >= QuorumOf(f)
  <2> TAKE f \in Epochs, k \in Calls
  <2>1. Votes[f][k] \in SUBSET Votes'[f][k] /\ Votes'[f][k] \in SUBSET AuthoritiesAt[f]
    BY ZenonT(60)
  <2>2. Cardinality(Votes[f][k]) <= Cardinality(Votes'[f][k])
        /\ Cardinality(Votes'[f][k]) \in Nat
    BY <2>1, Zenon DEF CountingFacts
  <2> QED BY <2>2, <1>0, VotesFinite, QuorumPositive
<1>3. FutureEpochsEmpty'
  <2> SUFFICES ASSUME NEW f \in Epochs, NEW k \in Calls, f > epoch_index
               PROVE  Votes'[f][k] = {} /\ dispatches'[f][k] = 0 /\ forced'[f][k] = 0
    BY DEF FutureEpochsEmpty
  <2>1. ~Active(f) /\ ~(f <= epoch_index)
    BY SMTT(40), <1>0, EpochBounds DEF Active
  <2>2. Votes[f][k] = {} /\ dispatches[f][k] = 0 /\ forced[f][k] = 0
    BY ZenonT(60) DEF WitnesserInv, FutureEpochsEmpty
  <2>3. <<f, k>> \notin D
    BY <2>1
  <2> QED BY SMTT(40), <2>1, <2>2, <2>3
<1>4. PendingCallsHaveQuorum'
  <2> SUFFICES ASSUME NEW p \in PendingCalls'
               PROVE  /\ p.epoch <= epoch_index
                      /\ Active(p.epoch) => Cardinality(Votes'[p.epoch][p.call]) >= QuorumOf(p.epoch)
    BY ZenonT(60) DEF PendingCallsHaveQuorum, QuorumOf, Active
  <2>1. CASE p \in PendingCalls
    BY <2>1, <1>0, <1>2, PendingType DEF WitnesserInv, PendingCallsHaveQuorum
  <2> QED BY ZenonT(60), <2>1
<1>5. ExecutedIsDispatched'
  BY ZenonT(60) DEF WitnesserInv, ExecutedIsDispatched
<1>6. DispatchedIsExecuted'
  <2> SUFFICES ASSUME NEW f \in Epochs, NEW k \in Calls, Active(f),
                      dispatches'[f][k] + forced'[f][k] > 0
               PROVE  CallHashExecuted'[f][k] /\ Votes'[f][k] # {}
    BY ZenonT(60), <1>1 DEF DispatchedIsExecuted
  <2>1. CASE <<f, k>> \in D
    BY <2>1
  <2>2. CASE <<f, k>> \notin D
    <3>1. CallHashExecuted[f][k] /\ Votes[f][k] # {}
      BY SMTT(40), <2>2 DEF WitnesserInv, DispatchedIsExecuted
    <3> QED BY ZenonT(60), <3>1
  <2> QED BY ZenonT(60), <2>1, <2>2
<1>7. CullingExpiredOnly'
  BY ZenonT(60) DEF WitnesserInv, CullingExpiredOnly
<1>8. DispatchedWithQuorum'
  BY Zenon, <1>1, <1>2 DEF WitnesserInv, DispatchedWithQuorum, QuorumOf
<1>9. EveryAuthorityAccountedFor'
  <2> SUFFICES ASSUME NEW f \in Epochs, NEW k \in Calls, NEW v \in AuthoritiesAt[f],
                      Active(f), dispatches'[f][k] + forced'[f][k] > 0,
                      \A n \in 0..LateWitnessGracePeriod :
                        <<f, k>> \notin Range(WitnessDeadline'[n])
               PROVE  v \in Votes'[f][k] \/ <<f, k, v>> \in missed
    BY Zenon, <1>1 DEF EveryAuthorityAccountedFor
  <2>1. LateWitnessGracePeriod \in 0..LateWitnessGracePeriod
    BY Zenon, GraceInDomain
  <2>2. <<f, k>> \notin D
    BY ZenonT(30), <2>1
  <2>3. \A n \in 0..LateWitnessGracePeriod : <<f, k>> \notin Range(WitnessDeadline[n])
    BY ZenonT(30)
  <2> QED BY ZenonT(60), <2>2, <2>3 DEF WitnesserInv, EveryAuthorityAccountedFor
<1>10. CulledVotesStayGone'
  <2>1. \A f \in Epochs : IsCulled(f)' => IsCulled(f) /\ ~Active(f)
    BY SMTT(40), <1>0, EpochBounds DEF IsCulled, Active
  <2> SUFFICES ASSUME NEW f \in Epochs, NEW k \in Calls, IsCulled(f), ~Active(f)
               PROVE  Votes'[f][k] = {} /\ ExtraCallData'[f][k] = <<>>
    BY ZenonT(60), <2>1 DEF CulledVotesStayGone
  <2>2. Votes[f][k] = {} /\ ExtraCallData[f][k] = <<>>
    BY ZenonT(60) DEF WitnesserInv, CulledVotesStayGone
  <2>3. Votes'[f][k] = Votes[f][k] /\ ExtraCallData'[f][k] = ExtraCallData[f][k]
    OBVIOUS
  <2> QED BY ZenonT(60), <2>2, <2>3
<1> QED BY ZenonT(60), <1>0, <1>3, <1>4, <1>5, <1>6, <1>7, <1>8, <1>9, <1>10 DEF WitnesserInv

\* A call marked as executed was dispatched.
LEMMA ExecutedSomewhere ==
  ASSUME ExecutedIsDispatched, NEW c \in Calls, ~NotExecuted(c)
  PROVE  \E f \in Epochs : dispatches[f][c] + forced[f][c] > 0
BY DEF ExecutedIsDispatched, NotExecuted

\* A call that no epoch has marked as executed was dispatched in no active epoch.
LEMMA NotExecutedNotDispatched ==
  ASSUME TypeOK, DispatchedIsExecuted, NEW c \in Calls, NotExecuted(c),
         NEW f \in Epochs, Active(f)
  PROVE  dispatches[f][c] + forced[f][c] = 0
<1>1. f \in Epochs \cap (last_expired_epoch..epoch_index)
  BY EpochBounds DEF Active
<1>2. ~(dispatches[f][c] + forced[f][c] > 0)
  BY <1>1 DEF NotExecuted, DispatchedIsExecuted
<1>3. dispatches[f][c] \in Nat /\ forced[f][c] \in Nat
  BY DEF TypeOK
<1> QED BY <1>2, <1>3

\* force_witness dispatches a call of an active epoch that has votes.
LEMMA ForceWitnessInv ==
  ASSUME CountingFacts, WitnesserInv, NEW c \in Calls, NEW e \in Epochs, force_witness(c, e)
  PROVE  WitnesserInv'
<1> USE DEF force_witness
<1>0. TypeOK
  BY DEF WitnesserInv
<1>1. /\ forced' \in [Epochs -> [Calls -> Nat]]
      /\ forced'[e][c] = forced[e][c] + 1
      /\ \A f \in Epochs, k \in Calls : <<f, k>> # <<e, c>> => forced'[f][k] = forced[f][k]
  <2>1. /\ forced \in [Epochs -> [Calls -> Nat]]
        /\ forced' = [forced EXCEPT ![e][c] = forced[e][c] + 1]
    BY <1>0 DEF TypeOK
  <2>2. ASSUME NEW f \in Epochs, NEW k \in Calls, <<f, k>> # <<e, c>>
        PROVE  forced'[f][k] = forced[f][k]
    BY <2>1, <2>2
  <2>3. forced' \in [Epochs -> [Calls -> Nat]] /\ forced'[e][c] = forced[e][c] + 1
    BY <2>1
  <2> QED BY <2>2, <2>3
<1>2. dispatch_call(e, c)
  OBVIOUS
<1>3. TypeOK'
  BY Zenon, <1>0, <1>1, <1>2, DispatchRecords DEF TypeOK, epochs
<1>4. NothingInFlight' /\ PendingCalls' = PendingCalls
  BY DEF WitnesserInv, NothingInFlight, NotIdle, PendingCalls
<1>5. e <= epoch_index
  BY SMTT(40), <1>0, EpochBounds DEF WitnesserInv, FutureEpochsEmpty
<1>6. forced'[e][c] \in Nat /\ dispatches'[e][c] \in Nat /\ forced[e][c] \in Nat
  BY <1>0, <1>1 DEF TypeOK
<1>7. WitnessedCallNotLost'
  <2> SUFFICES ASSUME NEW f \in Epochs, NEW k \in Calls, Active(f),
                      Cardinality(Votes[f][k]) >= QuorumOf(f)
               PROVE  \/ \E g \in Epochs : dispatches'[g][k] + forced'[g][k] > 0
                      \/ \E p \in PendingCalls' : p.call = k
    BY DEF WitnessedCallNotLost, Active, epochs, QuorumOf
  <2>1. CASE k = c
    <3>1. dispatches'[e][c] + forced'[e][c] > 0
      <4> HIDE DEF force_witness
      <4>1. forced'[e][c] = forced[e][c] + 1
        BY Zenon, <1>1
      <4> QED BY ZenonT(60), <4>1, <1>6, CounterFacts
    <3> QED BY ZenonT(60), <3>1, <2>1
  <2>2. CASE k # c
    <3>1. \A g \in Epochs : forced'[g][k] = forced[g][k] /\ dispatches'[g][k] = dispatches[g][k]
      BY Zenon, <2>2, <1>1
    <3> QED BY <3>1, <1>4 DEF WitnesserInv, WitnessedCallNotLost
  <2> QED BY <2>1, <2>2
<1> DEFINE D == {<<e, c>>}
<1>8. D \in SUBSET (Epochs \X Calls)
  OBVIOUS
<1>9. \A f \in Epochs, k \in Calls : <<f, k>> \in D <=> f = e /\ k = c
  OBVIOUS
<1>10. VotesFromAuthorities
  BY DEF WitnesserInv
<1> HIDE DEF D
<1> QED
  <2>1. \A f \in Epochs, k \in Calls :
           CallHashExecuted'[f][k] <=> CallHashExecuted[f][k] \/ <<f, k>> \in D
    <3>1. \A f \in Epochs, k \in Calls :
             CallHashExecuted'[f][k] <=> CallHashExecuted[f][k] \/ <<f, k>> = <<e, c>>
      BY Zenon, <1>0, <1>2, DispatchRecords
    <3>2. \A f, k : <<f, k>> \in D <=> <<f, k>> = <<e, c>>
      BY DEF D
    <3> QED BY <3>1, <3>2, Zenon
  <2>2. \A f \in Epochs, k \in Calls : <<f, k>> \notin D =>
           dispatches'[f][k] = dispatches[f][k] /\ forced'[f][k] = forced[f][k]
    BY ZenonT(60), <1>1, <1>9
  <2>3. \A f \in Epochs, k \in Calls : <<f, k>> \in D =>
           /\ f <= epoch_index
           /\ dispatches'[f][k] + forced'[f][k] > 0
           /\ Active(f) => Votes'[f][k] # {}
           /\ <<f, k>> \in Range(WitnessDeadline'[LateWitnessGracePeriod])
    BY <1>0, <1>1, <1>2, <1>5, <1>6, <1>9, DispatchRecords
  <2>4. \A n \in 0..LateWitnessGracePeriod :
           Range(WitnessDeadline[n]) \subseteq Range(WitnessDeadline'[n])
    BY Zenon, <1>0, <1>2, DispatchRecords
  <2>5. UNCHANGED <<epochs, EpochsToCull, missed, Votes, ExtraCallData, dispatches>>
    OBVIOUS
  <2>6. \A f \in Epochs, k \in Calls : Votes'[f][k] \subseteq AuthoritiesAt[f]
    BY <1>10, <2>5 DEF VotesFromAuthorities
  <2> HIDE DEF force_witness
  <2> QED BY Zenon, <1>3, <1>4, <1>7, <1>8, <2>1, <2>2, <2>3, <2>4, <2>5, <2>6, DispatchStep

\* A round of the loop over the scheduled calls keeps the call or dispatches
\* it, unless it was executed in the meantime.
LEMMA DispatchScheduledInv == CountingFacts /\ WitnesserInv /\ DispatchScheduled => WitnesserInv'
<1> SUFFICES ASSUME CountingFacts, WitnesserInv, DispatchScheduled PROVE WitnesserInv'
  OBVIOUS
<1> DEFINE s == Head(idle.todo)
           e == s.epoch
           c == s.call
           next_weight == idle.used + Weight[s.call]
           extracted == Extractable(s, next_weight)
<1>0. TypeOK
  BY DEF WitnesserInv
<1>1. /\ idle.todo \in Seq(ScheduledCall) /\ idle.todo # <<>>
      /\ WitnessedCallsScheduledForDispatch \in Seq(ScheduledCall)
      /\ idle.used \in Nat /\ idle.limit \in 0..MaxWeight
      /\ phase = "idle" /\ phase' = "idle"
      /\ UNCHANGED <<Votes, ExtraCallData, EpochsToCull, epochs, safe_mode>>
  BY <1>0 DEF TypeOK, DispatchScheduled
<1>2. /\ s \in ScheduledCall /\ Tail(idle.todo) \in Seq(ScheduledCall)
      /\ Range(idle.todo) = {s} \cup Range(Tail(idle.todo))
  BY <1>1, RangeHeadTail
<1>3. e \in Epochs /\ c \in Calls /\ s.data \in MaybeData /\ s \in PendingCalls
  BY <1>2 DEF ScheduledCall, PendingCalls
<1>4. e <= epoch_index /\ (Active(e) => Cardinality(Votes[e][c]) >= QuorumOf(e))
  BY <1>3 DEF WitnesserInv, PendingCallsHaveQuorum
<1>5. next_weight \in Nat
  BY <1>1, <1>3, WitnesserAssumption
<1>6. NothingInFlight'
  BY <1>1 DEF NothingInFlight
<1>7. \A f : Active(f)' <=> Active(f)
  BY <1>1 DEF Active, epochs
<1> HIDE DEF s, next_weight
<1>8. CASE ~extracted
  <2>1. /\ WitnessedCallsScheduledForDispatch' = Append(WitnessedCallsScheduledForDispatch, s)
        /\ idle' = [idle EXCEPT !.todo = Tail(idle.todo)]
        /\ UNCHANGED <<CallHashExecuted, WitnessDeadline, history>>
    BY <1>8 DEF DispatchScheduled, KeepScheduled, s, next_weight
  <2>2. /\ WitnessedCallsScheduledForDispatch' \in Seq(ScheduledCall)
        /\ Range(WitnessedCallsScheduledForDispatch') =
             Range(WitnessedCallsScheduledForDispatch) \cup {s}
    BY <2>1, <1>1, <1>2, RangeAppend
  <2>3. /\ idle' \in [todo : Seq(ScheduledCall), used : Nat, limit : 0..MaxWeight]
        /\ idle'.todo = Tail(idle.todo)
    BY Zenon, <2>1, <1>0, <1>2 DEF TypeOK
  <2>4. TypeOK'
    BY Zenon, <2>1, <2>2, <2>3, <1>0, <1>1 DEF TypeOK, epochs, history
  <2>5. PendingCalls' = PendingCalls
    BY ZenonT(60), <2>2, <2>3, <1>2 DEF PendingCalls
  <2>6. PendingCallsHaveQuorum'
    BY <2>5, <1>1, <1>7 DEF WitnesserInv, PendingCallsHaveQuorum, QuorumOf, epochs
  <2>7. /\ VotesFromAuthorities' /\ FutureEpochsEmpty' /\ ExecutedIsDispatched'
        /\ CullingExpiredOnly' /\ CulledVotesStayGone'
    BY <2>1, <1>1 DEF WitnesserInv, FutureEpochsEmpty, VotesFromAuthorities, history,
       ExecutedIsDispatched, CullingExpiredOnly, CulledVotesStayGone, IsCulled, epochs
  <2>8. /\ DispatchedIsExecuted' /\ DispatchedWithQuorum'
        /\ EveryAuthorityAccountedFor' /\ WitnessedCallNotLost'
    BY Zenon, <2>1, <2>5, <1>1, <1>7 DEF WitnesserInv, DispatchedIsExecuted, DispatchedWithQuorum,
       EveryAuthorityAccountedFor, WitnessedCallNotLost, QuorumOf, epochs, history
  <2> QED BY <2>4, <2>6, <2>7, <2>8, <1>6 DEF WitnesserInv
<1>9. CASE extracted
  <2>1. /\ idle' = [idle EXCEPT !.todo = Tail(idle.todo), !.used = next_weight]
        /\ UNCHANGED WitnessedCallsScheduledForDispatch
        /\ \/ /\ NotExecuted(c)
              /\ dispatch_call(e, c)
              /\ RecordDispatch(e, c, s.data)
           \/ /\ ~NotExecuted(c)
              /\ UNCHANGED <<CallHashExecuted, WitnessDeadline, history>>
    BY <1>9 DEF DispatchScheduled, s, next_weight
  <2>2. /\ idle' \in [todo : Seq(ScheduledCall), used : Nat, limit : 0..MaxWeight]
        /\ idle'.todo = Tail(idle.todo)
    BY Zenon, <2>1, <1>0, <1>2, <1>5 DEF TypeOK
  <2>3. PendingCalls' \subseteq PendingCalls /\ PendingCalls \subseteq PendingCalls' \cup {s}
    BY <2>1, <2>2, <1>2 DEF PendingCalls
  <2>4. CASE NotExecuted(c)
    <3>1. dispatch_call(e, c) /\ RecordDispatch(e, c, s.data)
      BY <2>1, <2>4
    <3>2. /\ CallHashExecuted' \in [Epochs -> [Calls -> BOOLEAN]]
          /\ \A f \in Epochs, k \in Calls :
               CallHashExecuted'[f][k] <=> CallHashExecuted[f][k] \/ <<f, k>> = <<e, c>>
          /\ WitnessDeadline' \in [0..LateWitnessGracePeriod -> Seq(Epochs \X Calls)]
          /\ \A n \in 0..LateWitnessGracePeriod :
               Range(WitnessDeadline[n]) \subseteq Range(WitnessDeadline'[n])
          /\ <<e, c>> \in Range(WitnessDeadline'[LateWitnessGracePeriod])
      BY Zenon, <3>1, <1>0, <1>3, DispatchRecords
    <3>3. /\ dispatches' \in [Epochs -> [Calls -> Nat]]
          /\ delivered' \in [Epochs -> [Calls -> MaybeData]]
          /\ dispatches'[e][c] = dispatches[e][c] + 1
          /\ \A f \in Epochs, k \in Calls :
               <<f, k>> # <<e, c>> => dispatches'[f][k] = dispatches[f][k]
          /\ UNCHANGED <<forced, missed>>
      BY ZenonT(60), <3>1, <1>0, <1>3, RecordedDispatch DEF RecordDispatch
    <3>4. TypeOK'
      BY Zenon, <2>1, <2>2, <3>2, <3>3, <1>0, <1>1 DEF TypeOK, epochs
    <3>5. dispatches'[e][c] + forced'[e][c] > 0
      <4>1. dispatches[e][c] \in Nat /\ forced[e][c] \in Nat
        BY <1>0, <1>3 DEF TypeOK
      <4>2. dispatches'[e][c] = dispatches[e][c] + 1 /\ forced'[e][c] = forced[e][c]
        BY Zenon, <3>3
      <4> QED BY Zenon, <4>1, <4>2, CounterFacts
    <3>6. WitnessedCallNotLost'
      <4> SUFFICES ASSUME NEW f \in Epochs, NEW k \in Calls, Active(f),
                          Cardinality(Votes[f][k]) >= QuorumOf(f)
                   PROVE  \/ \E g \in Epochs : dispatches'[g][k] + forced'[g][k] > 0
                          \/ \E p \in PendingCalls' : p.call = k
        BY ZenonT(60), <1>1, <1>7 DEF WitnessedCallNotLost, QuorumOf
      <4>1. CASE k = c
        BY <4>1, <3>5, <1>3
      <4>2. CASE k # c
        <5>1. \A g \in Epochs : forced'[g][k] = forced[g][k] /\ dispatches'[g][k] = dispatches[g][k]
          BY <4>2, <3>3
        <5>2. \A p \in PendingCalls : p.call = k => p \in PendingCalls'
          BY <4>2, <2>3
        <5> QED BY ZenonT(60), <5>1, <5>2 DEF WitnesserInv, WitnessedCallNotLost
      <4> QED BY ZenonT(60), <4>1, <4>2
    <3> DEFINE D == {<<e, c>>}
    <3>7. D \in SUBSET (Epochs \X Calls)
      BY <1>3
    <3>8. \A f, k : <<f, k>> \in D <=> <<f, k>> = <<e, c>>
      OBVIOUS
    <3> HIDE DEF D
    <3>9. \A f \in Epochs, k \in Calls :
             CallHashExecuted'[f][k] <=> CallHashExecuted[f][k] \/ <<f, k>> \in D
      BY <3>2, <3>8, Zenon
    <3>10. \A f \in Epochs, k \in Calls : <<f, k>> \notin D =>
             dispatches'[f][k] = dispatches[f][k] /\ forced'[f][k] = forced[f][k]
      BY <3>3, <3>8
    <3>11. Active(e) => Votes'[e][c] # {} /\ Cardinality(Votes'[e][c]) >= QuorumOf(e)
      BY ZenonT(60), <1>1, <1>3, <1>4, EmptyBelowQuorum
    <3>12. \A f \in Epochs, k \in Calls : <<f, k>> \in D =>
             /\ f <= epoch_index
             /\ dispatches'[f][k] + forced'[f][k] > 0
             /\ Active(f) => Votes'[f][k] # {}
             /\ <<f, k>> \in Range(WitnessDeadline'[LateWitnessGracePeriod])
      <4> SUFFICES ASSUME NEW f \in Epochs, NEW k \in Calls, f = e /\ k = c
                   PROVE  /\ f <= epoch_index
                          /\ dispatches'[f][k] + forced'[f][k] > 0
                          /\ Active(f) => Votes'[f][k] # {}
                          /\ <<f, k>> \in Range(WitnessDeadline'[LateWitnessGracePeriod])
        BY ZenonT(60), <3>8
      <4> QED BY ZenonT(60), <3>2, <3>5, <3>11, <1>4
    <3>13. \A f \in Epochs, k \in Calls :
             Active(f) /\ dispatches'[f][k] # dispatches[f][k] =>
               Cardinality(Votes'[f][k]) >= QuorumOf(f)
      BY ZenonT(30), <3>3, <3>11
    <3>14. \A f \in Epochs, k \in Calls : Votes'[f][k] \subseteq AuthoritiesAt[f]
      BY <1>1 DEF WitnesserInv, VotesFromAuthorities
    <3> QED BY ZenonT(60), <1>1, <1>6, <2>3, <3>2, <3>3, <3>4, <3>6, <3>7, <3>9, <3>10, <3>12, <3>13,
               <3>14, DispatchStep
  <2>5. CASE ~NotExecuted(c)
    <3>1. UNCHANGED <<CallHashExecuted, WitnessDeadline, history>>
      BY <2>1, <2>5
    <3>2. TypeOK'
      BY ZenonT(60), <2>1, <2>2, <3>1, <1>0, <1>1 DEF TypeOK, epochs, history
    <3>3. WitnessedCallNotLost'
      <4> SUFFICES ASSUME NEW f \in Epochs, NEW k \in Calls, Active(f),
                          Cardinality(Votes[f][k]) >= QuorumOf(f)
                   PROVE  \/ \E g \in Epochs : dispatches[g][k] + forced[g][k] > 0
                          \/ \E p \in PendingCalls' : p.call = k
        BY <3>1, <1>1, <1>7 DEF WitnessedCallNotLost, QuorumOf, history
      <4>1. CASE k = c
        BY <4>1, <2>5, <1>3, ExecutedSomewhere DEF WitnesserInv
      <4>2. CASE k # c
        <5>1. \A p \in PendingCalls : p.call = k => p \in PendingCalls'
          BY <4>2, <2>3
        <5> QED BY <5>1 DEF WitnesserInv, WitnessedCallNotLost
      <4> QED BY <4>1, <4>2
    <3>4. PendingCallsHaveQuorum'
      BY ZenonT(60), <2>3, <1>1, <1>7 DEF WitnesserInv, PendingCallsHaveQuorum, QuorumOf, epochs
    <3>5. /\ VotesFromAuthorities' /\ FutureEpochsEmpty' /\ ExecutedIsDispatched'
          /\ CullingExpiredOnly' /\ CulledVotesStayGone'
      BY <3>1, <1>1 DEF WitnesserInv, FutureEpochsEmpty, VotesFromAuthorities, history,
         ExecutedIsDispatched, CullingExpiredOnly, CulledVotesStayGone, IsCulled, epochs
    <3>6. DispatchedIsExecuted' /\ DispatchedWithQuorum' /\ EveryAuthorityAccountedFor'
      BY Zenon, <3>1, <1>1, <1>7 DEF WitnesserInv, DispatchedIsExecuted, DispatchedWithQuorum,
         EveryAuthorityAccountedFor, QuorumOf, epochs, history
    <3> QED BY <3>2, <3>3, <3>4, <3>5, <3>6, <1>6 DEF WitnesserInv
  <2> QED BY <2>4, <2>5
<1> QED BY <1>8, <1>9

\* A vote adds an authority to an active epoch; a vote that reaches the
\* threshold dispatches or schedules the call, unless it was executed.
LEMMA WitnessInv ==
  ASSUME CountingFacts, WitnesserInv, NEW who \in Validators, NEW c \in Calls, NEW d \in MaybeData,
         NEW e \in Epochs, witness_at_epoch(who, c, d, e)
  PROVE  WitnesserInv'
<1> DEFINE num_votes == Cardinality(Votes[e][c]) + 1
           reached == num_votes = QuorumOf(e) /\ NotExecuted(c)
           data == combine_and_inject(ExtraCallData'[e][c])
           sched == [epoch |-> e, call |-> c, data |-> data]
<1>0. TypeOK /\ VotesFromAuthorities
  BY DEF WitnesserInv
<1>1. /\ MayWitness(who, c, e)
      /\ Votes' = [Votes EXCEPT ![e][c] = Votes[e][c] \cup {who}]
      /\ UNCHANGED <<EpochsToCull, epochs, safe_mode, phase, idle>>
  BY DEF witness_at_epoch
<1>2. /\ Active(e) /\ e <= epoch_index
      /\ who \in AuthoritiesAt[e] /\ who \notin Votes[e][c]
  BY <1>1 DEF MayWitness, Active
<1>3. Votes \in [Epochs -> [Calls -> SUBSET Validators]]
  BY <1>0 DEF TypeOK
<1>4. /\ Votes' \in [Epochs -> [Calls -> SUBSET Validators]]
      /\ Votes'[e][c] = Votes[e][c] \cup {who}
      /\ \A f \in Epochs, k \in Calls : <<f, k>> # <<e, c>> => Votes'[f][k] = Votes[f][k]
  <2>1. Votes' \in [Epochs -> [Calls -> SUBSET Validators]]
        /\ Votes'[e][c] = Votes[e][c] \cup {who}
    BY <1>1, <1>3
  <2>2. ASSUME NEW f \in Epochs, NEW k \in Calls, <<f, k>> # <<e, c>>
        PROVE  Votes'[f][k] = Votes[f][k]
    BY <1>1, <1>3, <2>2
  <2> QED BY <2>1, <2>2
<1>5. Cardinality(Votes[e][c]) \in Nat /\ Cardinality(Votes'[e][c]) = num_votes
  <2>1. Votes[e][c] \in SUBSET AuthoritiesAt[e] /\ who \in AuthoritiesAt[e] \ Votes[e][c]
    BY <1>0, <1>2 DEF VotesFromAuthorities
  <2>2. Cardinality(Votes[e][c] \cup {who}) = Cardinality(Votes[e][c]) + 1
    BY <2>1, Zenon DEF CountingFacts
  <2> QED BY <1>0, <1>2, <1>4, <2>2, VotesFinite
<1>6. /\ ExtraCallData' \in [Epochs -> [Calls -> Seq(Data)]]
      /\ \A f \in Epochs, k \in Calls : f # e => ExtraCallData'[f][k] = ExtraCallData[f][k]
  <2>0. ExtraCallData \in [Epochs -> [Calls -> Seq(Data)]]
    BY <1>0 DEF TypeOK
  <2>1. CASE c \in ExtraCalls
    <3>1. d \in Data /\ ExtraCallData' = [ExtraCallData EXCEPT ![e][c] = Append(ExtraCallData[e][c], d)]
      BY ZenonT(60), <2>1, WitnesserAssumption DEF witness_at_epoch
    <3>2. Append(ExtraCallData[e][c], d) \in Seq(Data)
      BY <3>1, <2>0
    <3> QED BY ZenonT(60), <3>1, <3>2, <2>0
  <2>2. CASE c \notin ExtraCalls
    BY <2>0, <2>2 DEF witness_at_epoch
  <2> QED BY <2>1, <2>2
<1>7. data \in MaybeData /\ sched \in ScheduledCall
  <2>1. data \in MaybeData
    BY ZenonT(60), <1>6, CombineType
  <2> HIDE DEF data
  <2> QED BY <2>1 DEF ScheduledCall
<1> HIDE DEF data, sched
<1>8. \/ /\ reached
         /\ dispatch_call(e, c)
         /\ RecordDispatch(e, c, data)
         /\ UNCHANGED WitnessedCallsScheduledForDispatch
      \/ /\ reached
         /\ WitnessedCallsScheduledForDispatch' =
              Append(WitnessedCallsScheduledForDispatch, sched)
         /\ UNCHANGED <<CallHashExecuted, WitnessDeadline, history>>
      \/ /\ ~reached
         /\ UNCHANGED <<CallHashExecuted, WitnessDeadline, history,
                        WitnessedCallsScheduledForDispatch>>
  BY DEF witness_at_epoch, data, sched, QuorumOf
<1>9. \A f : Active(f)' <=> Active(f)
  BY <1>1 DEF Active, epochs
<1>10. NothingInFlight'
  BY <1>1 DEF WitnesserInv, NothingInFlight, NotIdle
<1>11. /\ \A f \in Epochs, k \in Calls : Votes[f][k] \subseteq Votes'[f][k]
       /\ \A f \in Epochs, k \in Calls : Votes'[f][k] \subseteq AuthoritiesAt[f]
  <2> SUFFICES ASSUME NEW f \in Epochs, NEW k \in Calls
               PROVE  Votes[f][k] \subseteq Votes'[f][k] /\ Votes'[f][k] \subseteq AuthoritiesAt[f]
    BY ZenonT(60)
  <2>1. Votes[f][k] \subseteq AuthoritiesAt[f]
    BY ZenonT(60), <1>0 DEF VotesFromAuthorities
  <2>2. CASE f = e /\ k = c
    BY ZenonT(60), <2>1, <2>2, <1>2, <1>4
  <2>3. CASE ~(f = e /\ k = c)
    BY Zenon, <2>1, <2>3, <1>4
  <2> QED BY Zenon, <2>2, <2>3
<1>12. \A f \in Epochs, k \in Calls : ~Active(f) =>
           Votes'[f][k] = Votes[f][k] /\ ExtraCallData'[f][k] = ExtraCallData[f][k]
  BY Zenon, <1>2, <1>4, <1>6
\* A call that was not lost before can only be lost by the vote of this step.
<1>13. ASSUME \A p \in PendingCalls : p \in PendingCalls',
              \A g \in Epochs, k \in Calls : dispatches[g][k] + forced[g][k] > 0 =>
                dispatches'[g][k] + forced'[g][k] > 0,
              num_votes = QuorumOf(e) =>
                \/ \E g \in Epochs : dispatches'[g][c] + forced'[g][c] > 0
                \/ \E p \in PendingCalls' : p.call = c
       PROVE  WitnessedCallNotLost'
  <2> SUFFICES ASSUME NEW f \in Epochs, NEW k \in Calls, Active(f),
                      Cardinality(Votes'[f][k]) >= QuorumOf(f)
               PROVE  \/ \E g \in Epochs : dispatches'[g][k] + forced'[g][k] > 0
                      \/ \E p \in PendingCalls' : p.call = k
    BY ZenonT(60), <1>9 DEF WitnessedCallNotLost, QuorumOf
  <2>1. CASE Cardinality(Votes[f][k]) >= QuorumOf(f)
    <3>1. \/ \E g \in Epochs : dispatches[g][k] + forced[g][k] > 0
          \/ \E p \in PendingCalls : p.call = k
      BY ZenonT(60), <2>1 DEF WitnesserInv, WitnessedCallNotLost
    <3> QED BY ZenonT(60), <3>1, <1>13
  <2>2. CASE ~(Cardinality(Votes[f][k]) >= QuorumOf(f))
    <3>1. f = e /\ k = c
      BY ZenonT(60), <2>2, <1>4
    <3>2. num_votes = QuorumOf(e)
      <4>1. ~(Cardinality(Votes[e][c]) >= QuorumOf(e)) /\ num_votes >= QuorumOf(e)
        BY ZenonT(60), <2>2, <3>1, <1>5
      <4>2. QuorumOf(e) \in Nat /\ Cardinality(Votes[e][c]) \in Nat
        BY <1>5, QuorumPositive
      <4> QED BY ZenonT(60), <4>1, <4>2, CounterFacts
    <3> QED BY ZenonT(60), <3>1, <3>2, <1>13
  <2> QED BY Zenon, <2>1, <2>2
<1> HIDE DEF reached, num_votes
<1>14. CASE /\ reached
            /\ dispatch_call(e, c)
            /\ RecordDispatch(e, c, data)
            /\ UNCHANGED WitnessedCallsScheduledForDispatch
  <2>1. /\ CallHashExecuted' \in [Epochs -> [Calls -> BOOLEAN]]
        /\ \A f \in Epochs, k \in Calls :
             CallHashExecuted'[f][k] <=> CallHashExecuted[f][k] \/ <<f, k>> = <<e, c>>
        /\ WitnessDeadline' \in [0..LateWitnessGracePeriod -> Seq(Epochs \X Calls)]
        /\ \A n \in 0..LateWitnessGracePeriod :
             Range(WitnessDeadline[n]) \subseteq Range(WitnessDeadline'[n])
        /\ <<e, c>> \in Range(WitnessDeadline'[LateWitnessGracePeriod])
    BY Zenon, <1>14, <1>0, DispatchRecords
  <2>2. /\ dispatches' \in [Epochs -> [Calls -> Nat]]
        /\ delivered' \in [Epochs -> [Calls -> MaybeData]]
        /\ dispatches'[e][c] = dispatches[e][c] + 1
        /\ \A f \in Epochs, k \in Calls :
             <<f, k>> # <<e, c>> => dispatches'[f][k] = dispatches[f][k]
        /\ UNCHANGED <<forced, missed>>
    BY ZenonT(60), <1>14, <1>0, <1>7, RecordedDispatch DEF RecordDispatch
  <2>3. TypeOK'
    BY Zenon, <2>1, <2>2, <1>0, <1>1, <1>4, <1>6, <1>14 DEF TypeOK, epochs
  <2>4. PendingCalls' = PendingCalls
    BY <1>1, <1>14 DEF PendingCalls
  <2>5. \A f \in Epochs, k \in Calls : dispatches[f][k] \in Nat /\ forced[f][k] \in Nat
    BY <1>0 DEF TypeOK
  <2>6. dispatches'[e][c] + forced'[e][c] > 0
    <3>1. dispatches'[e][c] = dispatches[e][c] + 1 /\ forced'[e][c] = forced[e][c]
      BY Zenon, <2>2
    <3>2. dispatches[e][c] \in Nat /\ forced[e][c] \in Nat
      BY ZenonT(60), <2>5
    <3> QED BY <3>1, <3>2
  <2>7. WitnessedCallNotLost'
    <3>1. ASSUME NEW g \in Epochs, NEW k \in Calls, dispatches[g][k] + forced[g][k] > 0
          PROVE  dispatches'[g][k] + forced'[g][k] > 0
      <4>1. CASE g = e /\ k = c
        BY ZenonT(60), <4>1, <2>6
      <4>2. CASE ~(g = e /\ k = c)
        BY ZenonT(60), <4>2, <2>2, <3>1
      <4> QED BY <4>1, <4>2
    <3> QED BY ZenonT(60), <3>1, <2>4, <2>6, <1>13
  <2>8. Votes'[e][c] # {} /\ Cardinality(Votes'[e][c]) >= QuorumOf(e)
    <3>1. Votes'[e][c] # {}
      BY Zenon, <1>4
    <3>2. Cardinality(Votes'[e][c]) = QuorumOf(e)
      BY Zenon, <1>5, <1>14 DEF reached
    <3>3. QuorumOf(e) \in Nat
      BY QuorumPositive
    <3> QED BY <3>1, <3>2, <3>3
  <2> DEFINE D == {<<e, c>>}
  <2>9. D \in SUBSET (Epochs \X Calls) /\ \A f, k : <<f, k>> \in D <=> <<f, k>> = <<e, c>>
    OBVIOUS
  <2> HIDE DEF D
  <2>10. \A f \in Epochs, k \in Calls :
           CallHashExecuted'[f][k] <=> CallHashExecuted[f][k] \/ <<f, k>> \in D
    BY ZenonT(60), <2>1, <2>9, Zenon
  <2>11. \A f \in Epochs, k \in Calls : <<f, k>> \notin D =>
           dispatches'[f][k] = dispatches[f][k] /\ forced'[f][k] = forced[f][k]
    BY <2>2, <2>9
  <2>12. \A f \in Epochs, k \in Calls : <<f, k>> \in D =>
           /\ f <= epoch_index
           /\ dispatches'[f][k] + forced'[f][k] > 0
           /\ Active(f) => Votes'[f][k] # {}
           /\ <<f, k>> \in Range(WitnessDeadline'[LateWitnessGracePeriod])
    <3> SUFFICES ASSUME NEW f \in Epochs, NEW k \in Calls, f = e /\ k = c
                 PROVE  /\ f <= epoch_index
                        /\ dispatches'[f][k] + forced'[f][k] > 0
                        /\ Active(f) => Votes'[f][k] # {}
                        /\ <<f, k>> \in Range(WitnessDeadline'[LateWitnessGracePeriod])
      BY Zenon, <2>9
    <3> QED BY Zenon, <2>1, <2>6, <2>8, <1>2
  <2>13. \A f \in Epochs, k \in Calls :
           Active(f) /\ dispatches'[f][k] # dispatches[f][k] =>
             Cardinality(Votes'[f][k]) >= QuorumOf(f)
    BY Zenon, <2>2, <2>8
  <2> QED BY ZenonT(60), <1>1, <1>10, <1>11, <1>12, <2>1, <2>2, <2>3, <2>4, <2>7, <2>9, <2>10,
             <2>11, <2>12, <2>13, DispatchStep
<1>15. ASSUME UNCHANGED <<CallHashExecuted, WitnessDeadline, history>>,
              WitnessedCallsScheduledForDispatch' \in Seq(ScheduledCall),
              PendingCalls \subseteq PendingCalls',
              \A p \in PendingCalls' : p \in PendingCalls \/ (p = sched /\ reached),
              num_votes = QuorumOf(e) => ~NotExecuted(c) \/ sched \in PendingCalls'
       PROVE  WitnesserInv'
  <2>1. TypeOK'
    BY Zenon, <1>0, <1>1, <1>4, <1>6, <1>15 DEF TypeOK, epochs, history
  <2>2. WitnessedCallNotLost'
    <3>1. sched.call = c
      BY ZenonT(60) DEF sched
    <3>2. ~NotExecuted(c) => \E g \in Epochs : dispatches[g][c] + forced[g][c] > 0
      BY ZenonT(60), ExecutedSomewhere DEF WitnesserInv
    <3> QED BY Zenon, <3>1, <3>2, <1>13, <1>15 DEF history
  <2>3. \A p \in PendingCalls' : p \in PendingCalls \/
          /\ p.epoch <= epoch_index
          /\ Cardinality(Votes'[p.epoch][p.call]) >= QuorumOf(p.epoch)
    <3>1. reached => Cardinality(Votes'[e][c]) >= QuorumOf(e)
      BY <1>5, QuorumPositive DEF reached
    <3>2. sched.epoch = e /\ sched.call = c
      BY DEF sched
    <3> QED BY ZenonT(60), <3>1, <3>2, <1>2, <1>15
  <2> DEFINE D == {}
  <2>4. D \in SUBSET (Epochs \X Calls) /\ \A x : x \notin D
    BY ZenonT(60)
  <2> HIDE DEF D
  <2>5. \A f \in Epochs, k \in Calls :
           CallHashExecuted'[f][k] <=> CallHashExecuted[f][k] \/ <<f, k>> \in D
    BY <2>4, <1>15
  <2>6. UNCHANGED <<dispatches, forced, missed, WitnessDeadline>>
    BY <1>15 DEF history
  <2> QED BY Zenon, <1>1, <1>10, <1>11, <1>12, <2>1, <2>2, <2>3, <2>4, <2>5, <2>6, DispatchStep
<1>16. CASE /\ reached
            /\ WitnessedCallsScheduledForDispatch' =
                 Append(WitnessedCallsScheduledForDispatch, sched)
            /\ UNCHANGED <<CallHashExecuted, WitnessDeadline, history>>
  <2>1. WitnessedCallsScheduledForDispatch \in Seq(ScheduledCall)
    BY <1>0 DEF TypeOK
  <2>2. /\ WitnessedCallsScheduledForDispatch' \in Seq(ScheduledCall)
        /\ Range(WitnessedCallsScheduledForDispatch') =
             Range(WitnessedCallsScheduledForDispatch) \cup {sched}
    BY <2>1, <1>7, <1>16, RangeAppend
  <2>3. PendingCalls' = PendingCalls \cup {sched}
    BY <2>2, <1>1 DEF PendingCalls
  <2> QED BY <2>2, <2>3, <1>15, <1>16
<1>17. CASE /\ ~reached
            /\ UNCHANGED <<CallHashExecuted, WitnessDeadline, history,
                           WitnessedCallsScheduledForDispatch>>
  <2>1. PendingCalls' = PendingCalls
    BY <1>1, <1>17 DEF PendingCalls
  <2>2. WitnessedCallsScheduledForDispatch' \in Seq(ScheduledCall)
    BY <1>0, <1>17 DEF TypeOK
  <2>3. num_votes = QuorumOf(e) => ~NotExecuted(c)
    BY <1>17 DEF reached
  <2> QED BY <2>1, <2>2, <2>3, <1>15, <1>17
<1> QED BY <1>8, <1>14, <1>16, <1>17

\* Culling touches only the records of an expired epoch, and takes the epoch
\* off the queue only when its votes and its extra data are gone.
LEMMA CullEpochInv == WitnesserInv /\ CullEpoch => WitnesserInv'
<1> SUFFICES ASSUME WitnesserInv, CullEpoch PROVE WitnesserInv'
  OBVIOUS
<1> DEFINE budget == (idle.limit - idle.used) \div DeletionWeight
           e == EpochsToCull[Len(EpochsToCull)]
           votes == {c \in Calls : Votes[e][c] # {}}
           extra == {c \in Calls : ExtraCallData[e][c] # <<>>}
           executed == {c \in Calls : CallHashExecuted[e][c]}
<1>0. TypeOK
  BY DEF WitnesserInv
<1>1. /\ idle.todo = <<>> /\ phase' = "finalize" /\ idle' = NotIdle
      /\ UNCHANGED <<WitnessedCallsScheduledForDispatch, WitnessDeadline, epochs,
                     safe_mode, history>>
  BY Zenon DEF CullEpoch
<1>2. idle' \in [todo : Seq(ScheduledCall), used : Nat, limit : 0..MaxWeight]
  BY <1>1, WitnesserAssumption, EmptySeq DEF NotIdle
<1>3. PendingCalls' = PendingCalls /\ NothingInFlight'
  <2>1. idle'.todo = <<>>
    BY <1>1 DEF NotIdle
  <2> QED BY ZenonT(60), <2>1, <1>1 DEF PendingCalls, NothingInFlight
<1>4. \A f : Active(f)' <=> Active(f)
  BY <1>1 DEF Active, epochs
<1>5. ASSUME UNCHANGED <<Votes, ExtraCallData, CallHashExecuted, EpochsToCull>>
      PROVE  WitnesserInv'
  <2>1. TypeOK'
    BY Zenon, <1>0, <1>1, <1>2, <1>5 DEF TypeOK, epochs, history
  <2>2. PendingCallsHaveQuorum'
    BY Zenon, <1>1, <1>3, <1>4, <1>5 DEF WitnesserInv, PendingCallsHaveQuorum, QuorumOf, epochs
  <2>3. /\ VotesFromAuthorities' /\ FutureEpochsEmpty' /\ ExecutedIsDispatched'
        /\ CullingExpiredOnly' /\ CulledVotesStayGone'
    BY Zenon, <1>1, <1>5 DEF WitnesserInv, FutureEpochsEmpty, VotesFromAuthorities, history,
       ExecutedIsDispatched, CullingExpiredOnly, CulledVotesStayGone, IsCulled, epochs
  <2>4. /\ DispatchedIsExecuted' /\ DispatchedWithQuorum'
        /\ EveryAuthorityAccountedFor' /\ WitnessedCallNotLost'
    BY ZenonT(60), <1>1, <1>3, <1>4, <1>5 DEF WitnesserInv, DispatchedIsExecuted, DispatchedWithQuorum,
       EveryAuthorityAccountedFor, WitnessedCallNotLost, QuorumOf, epochs, history
  <2> QED BY <1>3, <2>1, <2>2, <2>3, <2>4 DEF WitnesserInv
<1> DEFINE Cull(dv, dd, de, left) ==
             /\ Votes' = [Votes EXCEPT ![e] =
                  [c \in Calls |-> IF c \in dv THEN {} ELSE Votes[e][c]]]
             /\ ExtraCallData' = [ExtraCallData EXCEPT ![e] =
                  [c \in Calls |-> IF c \in dd THEN <<>> ELSE ExtraCallData[e][c]]]
             /\ CallHashExecuted' = [CallHashExecuted EXCEPT ![e] =
                  [c \in Calls |-> IF c \in de THEN FALSE ELSE CallHashExecuted[e][c]]]
             /\ EpochsToCull' = IF Culled(dv = votes, dd = extra, de = executed, left)
                                THEN SubSeq(EpochsToCull, 1, Len(EpochsToCull) - 1)
                                ELSE EpochsToCull
<1>6. ASSUME EpochsToCull # <<>>, NEW dv, NEW dd, NEW de, NEW left, Cull(dv, dd, de, left)
      PROVE  WitnesserInv'
  <2>0. EpochsToCull \in Seq(Epochs)
    BY ZenonT(60), <1>0 DEF TypeOK
  <2>1. /\ e \in Epochs
        /\ SubSeq(EpochsToCull, 1, Len(EpochsToCull) - 1) \in Seq(Epochs)
        /\ Range(EpochsToCull) = Range(SubSeq(EpochsToCull, 1, Len(EpochsToCull) - 1)) \cup {e}
    BY <2>0, <1>6, RangeFrontLast
  <2>2. e <= last_expired_epoch /\ ~Active(e) /\ ~(e > epoch_index)
    <3>1. e <= last_expired_epoch
      BY <2>1 DEF WitnesserInv, CullingExpiredOnly
    <3> QED BY <3>1, <2>1, <1>0, EpochBounds DEF Active
  <2> HIDE DEF e
  <2>3. /\ Votes \in [Epochs -> [Calls -> SUBSET Validators]]
        /\ ExtraCallData \in [Epochs -> [Calls -> Seq(Data)]]
        /\ CallHashExecuted \in [Epochs -> [Calls -> BOOLEAN]]
    BY ZenonT(60), <1>0 DEF TypeOK
  <2>4. /\ \A f \in Epochs, c \in Calls : f # e =>
             /\ Votes'[f][c] = Votes[f][c]
             /\ ExtraCallData'[f][c] = ExtraCallData[f][c]
             /\ CallHashExecuted'[f][c] = CallHashExecuted[f][c]
        /\ \A c \in Calls :
             /\ Votes'[e][c] = IF c \in dv THEN {} ELSE Votes[e][c]
             /\ ExtraCallData'[e][c] = IF c \in dd THEN <<>> ELSE ExtraCallData[e][c]
             /\ CallHashExecuted'[e][c] = IF c \in de THEN FALSE ELSE CallHashExecuted[e][c]
    BY ZenonT(60), <2>1, <2>3, <1>6
  <2>5. Votes' \in [Epochs -> [Calls -> SUBSET Validators]]
    BY ZenonT(60), <2>1, <2>3, <1>6
  <2>6. ExtraCallData' \in [Epochs -> [Calls -> Seq(Data)]]
    <3>1. <<>> \in Seq(Data)
      BY EmptySeq
    <3> QED BY <3>1, <2>1, <2>3, <1>6
  <2>7. CallHashExecuted' \in [Epochs -> [Calls -> BOOLEAN]]
    BY Zenon, <2>1, <2>3, <1>6
  <2>8. EpochsToCull' \in Seq(Epochs) /\ Range(EpochsToCull') \subseteq Range(EpochsToCull)
    BY <2>0, <2>1, <1>6
  <2>9. TypeOK'
    BY ZenonT(60), <2>5, <2>6, <2>7, <2>8, <1>0, <1>1, <1>2 DEF TypeOK, epochs, history
  <2>10. \A f \in Epochs : Active(f) => f # e
    BY <2>2
  <2>11. PendingCallsHaveQuorum'
    <3> SUFFICES ASSUME NEW p \in PendingCalls
                 PROVE  /\ p.epoch <= epoch_index
                        /\ Active(p.epoch) => Cardinality(Votes'[p.epoch][p.call]) >= QuorumOf(p.epoch)
      BY Zenon, <1>1, <1>3, <1>4 DEF PendingCallsHaveQuorum, QuorumOf, epochs
    <3>1. p.epoch \in Epochs /\ p.call \in Calls
      BY <1>0, PendingType
    <3> QED BY Zenon, <3>1, <2>4, <2>10 DEF WitnesserInv, PendingCallsHaveQuorum
  <2>12. VotesFromAuthorities'
    BY Zenon, <2>4 DEF WitnesserInv, VotesFromAuthorities
  <2>13. FutureEpochsEmpty'
    <3>1. \A f \in Epochs : f > epoch_index => f # e
      BY <2>2
    <3> QED BY Zenon, <3>1, <2>4, <1>1 DEF WitnesserInv, FutureEpochsEmpty, history, epochs
  <2>14. ExecutedIsDispatched'
    BY ZenonT(60), <2>4, <1>1 DEF WitnesserInv, ExecutedIsDispatched, history
  <2>15. CullingExpiredOnly'
    BY <2>8, <1>1 DEF WitnesserInv, CullingExpiredOnly, epochs
  <2>16. /\ DispatchedIsExecuted' /\ DispatchedWithQuorum'
         /\ EveryAuthorityAccountedFor' /\ WitnessedCallNotLost'
    <3>1. \A f \in Epochs, c \in Calls : Active(f)' =>
             Active(f) /\ Votes'[f][c] = Votes[f][c] /\ CallHashExecuted'[f][c] = CallHashExecuted[f][c]
      BY Zenon, <2>4, <2>10, <1>4
    <3> QED BY ZenonT(60), <3>1, <1>1, <1>3 DEF WitnesserInv, DispatchedIsExecuted, DispatchedWithQuorum,
               EveryAuthorityAccountedFor, WitnessedCallNotLost, QuorumOf, history
  <2>17. CulledVotesStayGone'
    <3> SUFFICES ASSUME NEW f \in Epochs, NEW c \in Calls,
                        f <= last_expired_epoch, f \notin Range(EpochsToCull')
                 PROVE  Votes'[f][c] = {} /\ ExtraCallData'[f][c] = <<>>
      BY <1>1 DEF CulledVotesStayGone, IsCulled, epochs
    <3>1. CASE f \notin Range(EpochsToCull)
      <4>1. Votes[f][c] = {} /\ ExtraCallData[f][c] = <<>>
        BY <3>1 DEF WitnesserInv, CulledVotesStayGone, IsCulled
      <4>2. f # e
        BY <3>1, <2>1
      <4> QED BY ZenonT(60), <4>1, <4>2, <2>4
    <3>2. CASE f \in Range(EpochsToCull)
      <4>1. f = e /\ dv = votes /\ dd = extra
        BY <3>2, <2>1, <1>6 DEF Culled
      <4> QED BY ZenonT(60), <4>1, <2>4
    <3> QED BY Zenon, <3>1, <3>2
  <2> QED BY ZenonT(60), <1>3, <2>9, <2>11, <2>12, <2>13, <2>14, <2>15, <2>16, <2>17 DEF WitnesserInv
<1> HIDE DEF e, votes, extra, executed, budget
<1>7. CASE ~(UNCHANGED <<Votes, ExtraCallData, CallHashExecuted, EpochsToCull>>)
  <2>1. /\ EpochsToCull # <<>>
        /\ \E dv \in ClearPrefix(votes, budget) :
             \E dd \in ClearPrefix(extra, budget - Cardinality(dv)) :
               \E de \in ClearPrefix(executed, (budget - Cardinality(dv)) - Cardinality(dd)) :
                 Cull(dv, dd, de, (budget - Cardinality(dv)) - Cardinality(dd))
    BY <1>7, Zenon DEF CullEpoch, e, votes, extra, executed, budget
  <2> HIDE DEF Cull
  <2> QED BY <2>1, <1>6, Zenon
<1> QED BY <1>5, <1>7

\* Every step keeps the invariant.
LEMMA NextInv == CountingFacts /\ WitnesserInv /\ [Next]_vars => WitnesserInv'
<1> SUFFICES ASSUME CountingFacts, WitnesserInv, [Next]_vars PROVE WitnesserInv'
  OBVIOUS
<1>1. CASE StartBlock
  BY Zenon, <1>1, RecordsUnchangedInv DEF StartBlock, WitnesserInv, TypeOK
<1>2. ASSUME NEW m \in SafeModes, SetSafeMode(m) PROVE WitnesserInv'
  BY Zenon, <1>2, RecordsUnchangedInv DEF SetSafeMode, WitnesserInv, TypeOK
<1>3. CASE UNCHANGED vars
  BY Zenon, <1>3, RecordsUnchangedInv DEF vars, WitnesserInv, TypeOK
<1> QED
  BY ZenonT(60), <1>1, <1>2, <1>3, NewEpochInv, ExpiredEpochInv, WitnessInv, ForceWitnessInv, OnIdleInv,
     DispatchScheduledInv, CullEpochInv, OnFinalizeInv DEF Next

\* A step whose votes dispatch a call finds it executed in no active epoch.
LEMMA NoReplayStep ==
  ASSUME CountingFacts, WitnesserInv, [Next]_vars, NEW e \in Epochs, NEW c \in Calls,
         dispatches'[e][c] # dispatches[e][c], NEW f \in Epochs, Active(f)
  PROVE  dispatches[f][c] + forced[f][c] = 0
<1>0. TypeOK /\ DispatchedIsExecuted
  BY ZenonT(60) DEF WitnesserInv
<1>1. SUFFICES NotExecuted(c)
  BY <1>0, NotExecutedNotDispatched
<1>2. ASSUME NEW g \in Epochs, NEW k \in Calls, NEW d \in MaybeData,
             NotExecuted(k), RecordDispatch(g, k, d)
      PROVE  NotExecuted(c)
  <2>0. \A i \in Epochs, j \in Calls :
           <<i, j>> # <<g, k>> => dispatches'[i][j] = dispatches[i][j]
    BY ZenonT(60), <1>0, <1>2, RecordedDispatch
  <2>1. <<e, c>> # <<g, k>> => dispatches'[e][c] = dispatches[e][c]
    BY Zenon, <2>0
  <2>2. c = k
    BY <2>1
  <2> QED BY ZenonT(60), <2>2, <1>2
<1>3. ASSUME NEW who \in Validators, NEW k \in Calls, NEW d \in MaybeData, NEW g \in Epochs,
             witness_at_epoch(who, k, d, g)
      PROVE  NotExecuted(c)
  <2>1. /\ NotExecuted(k)
        /\ RecordDispatch(g, k, combine_and_inject(ExtraCallData'[g][k]))
    BY ZenonT(60), <1>3 DEF witness_at_epoch, history
  <2>2. ExtraCallData'[g][k] \in Seq(Data)
    <3>1. TypeOK'
      BY Zenon, NextInv DEF WitnesserInv
    <3>2. ExtraCallData' \in [Epochs -> [Calls -> Seq(Data)]]
      BY ZenonT(60), <3>1 DEF TypeOK
    <3> QED BY Zenon, <3>2
  <2>3. combine_and_inject(ExtraCallData'[g][k]) \in MaybeData
    BY <2>2, CombineType
  <2> QED BY Zenon, <2>1, <2>3, <1>2
<1>4. CASE DispatchScheduled
  <2>1. idle.todo \in Seq(ScheduledCall) /\ idle.todo # <<>>
    BY ZenonT(60), <1>0, <1>4 DEF TypeOK, DispatchScheduled
  <2>2. Head(idle.todo) \in ScheduledCall
    BY <2>1, RangeHeadTail
  <2>3. /\ NotExecuted(Head(idle.todo).call)
        /\ RecordDispatch(Head(idle.todo).epoch, Head(idle.todo).call, Head(idle.todo).data)
    BY <1>4 DEF DispatchScheduled, history
  <2> QED BY Zenon, <2>2, <2>3, <1>2 DEF ScheduledCall
<1>5. ASSUME UNCHANGED dispatches PROVE NotExecuted(c)
  BY <1>5
<1> QED BY ZenonT(60), <1>3, <1>4, <1>5 DEF Next, vars, NewEpoch, on_expired_epoch, StartBlock,
           force_witness, SetSafeMode, on_idle, CullEpoch, on_finalize, history

-----------------------------------------------------------------------------
(* Counting, from the library's theorems.                                  *)

INSTANCE FiniteSetTheorems

\* A non-empty set of naturals has a least element.
LEMMA NatMin ==
  ASSUME NEW T \in SUBSET Nat, T # {}
  PROVE  \E x \in T : \A y \in T : x <= y
<1>1. PICK x \in T : \A y \in T : ~(<<y, x>> \in OpToRel(<, Nat))
  BY Zenon, NatLessThanWellFounded, WFMin
<1>2. \A y \in T : ~(y < x)
  BY Zenon, <1>1 DEF OpToRel
<1>3. \A y \in T : x <= y
  BY <1>2
<1> QED BY <1>3

\* A function into the naturals has a greatest value on a finite set.
LEMMA MaxIndex ==
  ASSUME NEW I, I # {}, IsFiniteSet(I), NEW f \in [I -> Nat]
  PROVE  \E i \in I : \A j \in I : f[j] <= f[i]
<1> DEFINE G(i) == {j \in I : f[j] > f[i]}
           T == {n \in Nat : \E i \in I : n = Cardinality(G(i))}
<1>1. \A i \in I : IsFiniteSet(G(i)) /\ Cardinality(G(i)) \in Nat
  <2> TAKE i \in I
  <2>1. G(i) \in SUBSET I
    OBVIOUS
  <2>2. IsFiniteSet(G(i))
    BY <2>1, FS_Subset
  <2> QED BY <2>2, FS_CardinalityType
<1>2. T # {} /\ T \in SUBSET Nat
  BY Zenon, <1>1
<1>3. PICK n \in T : \A m \in T : n <= m
  BY Zenon, <1>2, NatMin
<1>4. PICK i \in I : n = Cardinality(G(i))
  OBVIOUS
<1>5. \A j \in I : ~(f[j] > f[i])
  <2> SUFFICES ASSUME NEW j \in I, f[j] > f[i] PROVE FALSE
    OBVIOUS
  <2>1. G(j) \in SUBSET G(i) /\ j \in G(i) /\ j \notin G(j)
    OBVIOUS
  <2>2. Cardinality(G(j)) <= Cardinality(G(i)) /\ Cardinality(G(j)) # Cardinality(G(i))
    <3> HIDE DEF G
    <3> QED BY <2>1, <1>1, FS_Subset
  <2>3. Cardinality(G(j)) \in T
    BY Zenon, <1>1
  <2> HIDE DEF G, T
  <2> QED BY <2>2, <2>3, <1>1, <1>3, <1>4
<1> QED BY <1>5

\* The thresholds of utilities/src/lib.rs for a non-negative share count: a
\* quorum is at least one share, and more than two thirds of the shares.
LEMMA ThresholdBounds ==
  ASSUME NEW n \in Nat
  PROVE  /\ threshold_from_share_count(n) \in Nat
         /\ success_threshold_from_share_count(n) \in Nat \ {0}
         /\ n > 0 => success_threshold_from_share_count(n) <= n
         /\ 3 * success_threshold_from_share_count(n) >= 2 * n
BY DEF threshold_from_share_count, success_threshold_from_share_count

\* The element select_median (decompose_recompose.rs) returns exists: it is
\* one of the reported values.
LEMMA MedianExists ==
  ASSUME NEW s \in Seq(Data), s # <<>>
  PROVE  select_median(s) \in Data
<1> USE WitnesserAssumption
<1> DEFINE n == Len(s)
           k == (n - 1) \div 2
           L(v) == {i \in DOMAIN s : s[i] < v}
           U(v) == {i \in DOMAIN s : s[i] <= v}
           T == {v \in Range(s) : k < Cardinality(U(v))}
<1>1. n \in Nat \ {0} /\ DOMAIN s = 1..n /\ s \in [1..n -> Nat]
  <2>1. n \in Nat /\ DOMAIN s = 1..n /\ s \in [1..n -> Data]
    OBVIOUS
  <2>2. n # 0
    OBVIOUS
  <2>3. s \in [1..n -> Nat]
    BY Zenon, <2>1
  <2> QED BY <2>1, <2>2, <2>3
<1>2. k \in Nat /\ k < n
  BY <1>1
<1>3. Range(s) = {s[i] : i \in 1..n} /\ Range(s) \subseteq Data
  BY <1>1, RangeOfSeq DEF Range
<1>4. IsFiniteSet(1..n) /\ Cardinality(1..n) = n
  BY <1>1, FS_Interval
<1>5. \A v : /\ IsFiniteSet(L(v)) /\ Cardinality(L(v)) \in Nat
             /\ IsFiniteSet(U(v)) /\ Cardinality(U(v)) \in Nat
  <2> TAKE v
  <2>1. L(v) \in SUBSET (1..n) /\ U(v) \in SUBSET (1..n)
    BY <1>1
  <2>2. IsFiniteSet(L(v)) /\ IsFiniteSet(U(v))
    BY <2>1, <1>4, FS_Subset
  <2> QED BY <2>2, FS_CardinalityType
<1>6. T # {} /\ T \in SUBSET Nat
  <2>1. PICK i \in 1..n : \A j \in 1..n : s[j] <= s[i]
    <3>1. 1..n # {}
      BY <1>1
    <3> HIDE DEF n
    <3> QED BY Zenon, <3>1, <1>1, <1>4, MaxIndex
  <2>2. U(s[i]) = 1..n
    BY <2>1, <1>1
  <2>3. s[i] \in T
    BY Zenon, <2>2, <1>2, <1>3, <1>4
  <2> QED BY Zenon, <2>3, <1>3
<1>7. PICK v \in T : \A w \in T : v <= w
  BY Zenon, <1>6, NatMin
<1>8. ASSUME Cardinality(L(v)) > k PROVE FALSE
  <2>1. L(v) # {} /\ L(v) \in SUBSET (1..n)
    <3>1. Cardinality(L(v)) # 0
      <4> HIDE DEF L, k
      <4> QED BY <1>8, <1>2
    <3> QED BY Zenon, <3>1, <1>1, FS_EmptySet
  <2>2. [j \in L(v) |-> s[j]] \in [L(v) -> Nat]
    BY <2>1, <1>1
  <2>3. PICK i \in L(v) : \A j \in L(v) : s[j] <= s[i]
    <3> DEFINE f == [j \in L(v) |-> s[j]]
    <3>1. PICK i \in L(v) : \A j \in L(v) : f[j] <= f[i]
      <4> HIDE DEF L, f
      <4> QED BY Zenon, <2>1, <2>2, <1>5, MaxIndex DEF f
    <3> QED BY <3>1
  <2>4. L(v) \in SUBSET U(s[i])
    BY <2>1, <2>3, <1>1
  <2>5. Cardinality(L(v)) <= Cardinality(U(s[i]))
    <3> HIDE DEF L, U
    <3> QED BY <2>4, <1>5, FS_Subset
  <2>6. s[i] \in T
    <3>1. s[i] \in Range(s)
      BY <2>1, <1>3
    <3>2. k < Cardinality(U(s[i]))
      <4> HIDE DEF L, U, k
      <4> QED BY <2>5, <1>8, <1>5, <1>2
    <3> QED BY <3>1, <3>2
  <2>7. s[i] < v
    BY <2>3
  <2>8. v \in Nat /\ s[i] \in Nat /\ v <= s[i]
    <3> HIDE DEF T
    <3> QED BY Zenon, <2>6, <1>7, <1>6
  <2> QED BY <2>7, <2>8
<1>9. v \in Range(s) /\ Cardinality(L(v)) <= k /\ k < Cardinality(U(v))
  <2> HIDE DEF L, U, k
  <2> QED BY <1>8, <1>7, <1>5, <1>2
<1>10. select_median(s) \in Range(s)
  BY Zenon, <1>9 DEF select_median
<1> QED BY <1>10, <1>3

LEMMA CountingHolds == CountingFacts
<1>1. ASSUME NEW e \in Epochs, NEW S \in SUBSET AuthoritiesAt[e]
      PROVE  /\ Cardinality(S) \in Nat
             /\ \A T \in SUBSET S : Cardinality(T) <= Cardinality(S)
             /\ \A v \in AuthoritiesAt[e] \ S : Cardinality(S \cup {v}) = Cardinality(S) + 1
  <2>1. IsFiniteSet(S)
    BY WitnesserAssumption, FS_Subset
  <2> QED BY <2>1, FS_CardinalityType, FS_Subset, FS_AddElement
<1>2. ASSUME NEW e \in Epochs PROVE QuorumOf(e) \in Nat \ {0}
  <2>1. Cardinality(AuthoritiesAt[e]) \in Nat
    BY <1>1
  <2> QED BY <2>1, ThresholdBounds DEF QuorumOf
<1> QED BY <1>1, <1>2, MedianExists, FS_EmptySet DEF CountingFacts

\* The invariant holds in every reachable state of the witnesser pallet.
THEOREM WitnesserInvariance == Spec => []WitnesserInv
BY CountingHolds, InitInv, NextInv, PTL DEF Spec

\* A call dispatched after a vote has the votes of a quorum of the authorities
\* of its epoch for as long as that epoch is active.
THEOREM DispatchNeedsQuorum == Spec => []DispatchedWithQuorum
<1>1. WitnesserInv => DispatchedWithQuorum
  BY DEF WitnesserInv
<1> QED BY <1>1, WitnesserInvariance, PTL

\* A call whose votes reach the threshold is dispatched or stays scheduled.
THEOREM QuorumIsNotLost == Spec => []WitnessedCallNotLost
<1>1. WitnesserInv => WitnessedCallNotLost
  BY DEF WitnesserInv
<1> QED BY <1>1, WitnesserInvariance, PTL

\* Every storage item keeps its type; after the grace period every authority has
\* witnessed the call or is reported; votes and extra data of a culled epoch are gone
\* and stay gone.
THEOREM VotesAreKept == Spec => []VotesAreAccountedFor
<1>1. WitnesserInv => VotesAreAccountedFor
  BY Zenon DEF WitnesserInv, VotesAreAccountedFor
<1> QED BY <1>1, WitnesserInvariance, PTL

\* Votes never dispatch again what was dispatched for a still active epoch.
THEOREM NoReplay == Spec => NoReplayWhileActive
<1>1. WitnesserInv /\ [Next]_vars =>
        [\A e \in Epochs, c \in Calls :
           dispatches'[e][c] # dispatches[e][c] =>
             \A f \in Epochs : Active(f) => dispatches[f][c] + forced[f][c] = 0]_vars
  BY CountingHolds, NoReplayStep
<1> QED BY <1>1, WitnesserInvariance, PTL DEF Spec, NoReplayWhileActive
=============================================================================
