----------------------------- MODULE SigningSteps -----------------------------
(***************************************************************************)
(* What a call of ThresholdSigning does to a request and to what carries   *)
(* it, for every set of validators, epochs and keys and any number of      *)
(* requests and ceremonies.                                                *)
(*                                                                         *)
(* The centre of the argument is Carried: each unanswered request is       *)
(* carried by one ceremony or by one waiting instruction, and what carries *)
(* it is the instruction it was made with.  A step takes the carrier away, *)
(* puts a new one in its place, or answers the request.                    *)
(***************************************************************************)
EXTENDS ThresholdSigning, TLAPS

-----------------------------------------------------------------------------
(* Queues.                                                                 *)

LEMMA RangeAppend ==
  ASSUME NEW S, NEW s \in Seq(S), NEW x \in S
  PROVE  /\ Append(s, x) \in Seq(S)
         /\ Range(Append(s, x)) = Range(s) \cup {x}
<1> DEFINE t == Append(s, x)
<1>1. /\ t \in Seq(S) /\ Len(t) = Len(s) + 1 /\ Len(s) \in Nat
      /\ DOMAIN t = 1..Len(t) /\ DOMAIN s = 1..Len(s)
      /\ \A i \in 1..Len(s) : t[i] = s[i]
      /\ t[Len(s) + 1] = x
  OBVIOUS
<1> HIDE DEF t
<1>2. Range(t) \subseteq Range(s) \cup {x}
  BY <1>1 DEF Range
<1>3. Range(s) \cup {x} \subseteq Range(t)
  BY <1>1 DEF Range
<1> QED BY <1>1, <1>2, <1>3 DEF t

LEMMA RangeHeadTail ==
  ASSUME NEW S, NEW s \in Seq(S), s # <<>>
  PROVE  /\ Head(s) \in S /\ Tail(s) \in Seq(S)
         /\ Range(s) = {Head(s)} \cup Range(Tail(s))
<1> DEFINE t == Tail(s)
<1>1. /\ Head(s) \in S /\ t \in Seq(S) /\ Len(t) = Len(s) - 1 /\ Len(s) \in Nat \ {0}
      /\ DOMAIN t = 1..Len(t) /\ DOMAIN s = 1..Len(s) /\ Head(s) = s[1]
      /\ \A i \in 1..Len(t) : t[i] = s[i + 1]
  OBVIOUS
<1> HIDE DEF t
<1>2. Range(s) \subseteq {Head(s)} \cup Range(t)
  <2> SUFFICES ASSUME NEW i \in 1..Len(s), i # 1 PROVE s[i] \in Range(t)
    BY <1>1 DEF Range
  <2>1. i - 1 \in 1..Len(t) /\ t[i - 1] = s[i]
    BY <1>1
  <2> QED BY <1>1, <2>1 DEF Range
<1>3. {Head(s)} \cup Range(t) \subseteq Range(s)
  <2>1. \A i \in 1..Len(t) : i + 1 \in 1..Len(s)
    BY <1>1
  <2>2. Range(t) \subseteq Range(s)
    BY <1>1, <2>1 DEF Range
  <2>3. Head(s) \in Range(s)
    BY <1>1 DEF Range
  <2> QED BY Zenon, <2>2, <2>3
<1> QED BY <1>1, <1>2, <1>3 DEF t

\* The requests in live, and no others, have one carrier each among the ceremonies pc
\* and the waiting instructions pri; K[r] is the instruction of request r.
Carried(pc, pri, live, n, K) ==
  /\ pc \in [Ceremonies -> CeremonyContext \cup {None}]
  /\ pri \in [Requests -> RequestInstruction \cup {None}]
  /\ \A c \in Ceremonies : pc[c] # None =>
       LET r == pc[c].instruction.request_id
       IN /\ c <= n
          /\ pc[c].instruction = K[r]
          /\ r \in live /\ pri[r] = None
  /\ \A c, d \in Ceremonies :
       /\ pc[c] # None /\ pc[d] # None
       /\ pc[c].instruction.request_id = pc[d].instruction.request_id
       => c = d
  /\ \A r \in Requests : pri[r] # None =>
       pri[r] = K[r] /\ pri[r].request_id = r /\ pri[r].type = "Standard" /\ r \in live
  /\ \A r \in live :
       \/ pri[r] # None
       \/ \E c \in Ceremonies : pc[c] # None /\ pc[c].instruction.request_id = r

\* The instruction that carries a request.
CarrierOf(pc, pri, r) ==
  IF pri[r] # None THEN pri[r]
  ELSE pc[CHOOSE c \in {d \in Ceremonies : pc[d] # None
                                           /\ pc[d].instruction.request_id = r} : TRUE].instruction

\* It is the one the request was made with.
LEMMA CarrierIs ==
  ASSUME NEW pc, NEW pri, NEW live \in SUBSET Requests, NEW n, NEW K,
         Carried(pc, pri, live, n, K), NEW r \in live
  PROVE  CarrierOf(pc, pri, r) = K[r]
<1>1. CASE pri[r] # None
  BY <1>1 DEF Carried, CarrierOf
<1>2. CASE pri[r] = None
  <2> DEFINE S == {d \in Ceremonies : pc[d] # None /\ pc[d].instruction.request_id = r}
             c == CHOOSE d \in S : TRUE
  <2>1. S # {}
    BY <1>2 DEF Carried
  <2>2. c \in S
    BY <2>1
  <2>3. pc[c].instruction = K[r]
    BY <2>2 DEF Carried
  <2> QED BY <1>2, <2>3 DEF CarrierOf
<1> QED BY <1>1, <1>2

\* Only the instructions of unanswered requests matter.
LEMMA CarriedBySame ==
  ASSUME NEW pc, NEW pri, NEW live \in SUBSET Requests, NEW n, NEW K, NEW L,
         Carried(pc, pri, live, n, K), \A r \in live : L[r] = K[r]
  PROVE  Carried(pc, pri, live, n, L)
BY DEF Carried

\* Storage with an entry removed or replaced.
Without(map, key) == [map EXCEPT ![key] = None]
With(map, key, value) == [map EXCEPT ![key] = value]

\* A ceremony that ends leaves its request without a carrier.
LEMMA DropCeremony ==
  ASSUME NEW pc, NEW pri, NEW live \in SUBSET Requests, NEW n, NEW K,
         Carried(pc, pri, live, n, K), NEW c \in Ceremonies, pc[c] # None
  PROVE  Carried(Without(pc, c), pri, live \ {pc[c].instruction.request_id}, n, K)
<1> DEFINE r == pc[c].instruction.request_id
           q == Without(pc, c)
<1>1. pri[r] = None
  BY DEF Carried
<1>2. q \in [Ceremonies -> CeremonyContext \cup {None}]
  BY DEF Carried, Without
<1>3. q[c] = None /\ \A d \in Ceremonies : d # c => q[d] = pc[d]
  BY DEF Carried, Without
<1> HIDE DEF q
<1>4. \A d \in Ceremonies : q[d] # None =>
        /\ d # c /\ q[d] = pc[d] /\ pc[d] # None
        /\ pc[d].instruction.request_id # r
  BY <1>3 DEF Carried
<1>5. Carried(q, pri, live \ {r}, n, K)
  <2>1. \A d \in Ceremonies : q[d] # None =>
          LET s == q[d].instruction.request_id
          IN d <= n /\ q[d].instruction = K[s] /\ s \in live \ {r} /\ pri[s] = None
    BY <1>4 DEF Carried
  <2>2. \A d, e \in Ceremonies :
          /\ q[d] # None /\ q[e] # None
          /\ q[d].instruction.request_id = q[e].instruction.request_id
          => d = e
    BY <1>4 DEF Carried
  <2>3. \A s \in live \ {r} : \/ pri[s] # None
                              \/ \E d \in Ceremonies :
                                   q[d] # None /\ q[d].instruction.request_id = s
    <3> TAKE s \in live \ {r}
    <3>1. CASE pri[s] # None
      BY <3>1
    <3>2. CASE pri[s] = None
      <4>1. PICK d \in Ceremonies : pc[d] # None /\ pc[d].instruction.request_id = s
        BY <3>2 DEF Carried
      <4>2. d # c
        BY <4>1
      <4> QED BY <1>3, <4>1, <4>2
    <3> QED BY <3>1, <3>2
  <2>4. \A s \in Requests : pri[s] # None =>
          /\ pri[s] = K[s] /\ pri[s].request_id = s /\ pri[s].type = "Standard"
          /\ s \in live \ {r}
    BY <1>1 DEF Carried
  <2>5. pri \in [Requests -> RequestInstruction \cup {None}]
    BY DEF Carried
  <2> QED BY <1>2, <2>1, <2>2, <2>3, <2>4, <2>5 DEF Carried
<1> QED BY <1>5 DEF q

\* So does an instruction that is taken to be attempted.
LEMMA DropInstruction ==
  ASSUME NEW pc, NEW pri, NEW live \in SUBSET Requests, NEW n, NEW K,
         Carried(pc, pri, live, n, K), NEW r \in Requests, pri[r] # None
  PROVE  Carried(pc, Without(pri, r), live \ {r}, n, K)
<1> DEFINE q == Without(pri, r)
<1>1. /\ q \in [Requests -> RequestInstruction \cup {None}]
      /\ q[r] = None /\ \A s \in Requests : s # r => q[s] = pri[s]
  BY DEF Carried, Without
<1> HIDE DEF q
<1>2. \A c \in Ceremonies : pc[c] # None =>
        LET s == pc[c].instruction.request_id
        IN c <= n /\ pc[c].instruction = K[s] /\ s \in live \ {r} /\ q[s] = None
  BY <1>1 DEF Carried
<1>3. \A s \in Requests : q[s] # None =>
        /\ q[s] = K[s] /\ q[s].request_id = s /\ q[s].type = "Standard" /\ s \in live \ {r}
  BY <1>1 DEF Carried
<1>4. \A s \in live \ {r} :
        \/ q[s] # None
        \/ \E c \in Ceremonies : pc[c] # None /\ pc[c].instruction.request_id = s
  BY <1>1 DEF Carried
<1>5. Carried(pc, q, live \ {r}, n, K)
  BY <1>1, <1>2, <1>3, <1>4 DEF Carried
<1> QED BY <1>5 DEF q

\* A ceremony that is told of a failure keeps its instruction.
LEMMA ReplaceContext ==
  ASSUME NEW pc, NEW pri, NEW live \in SUBSET Requests, NEW n, NEW K,
         Carried(pc, pri, live, n, K), NEW c \in Ceremonies, pc[c] # None,
         NEW context \in CeremonyContext, context.instruction = pc[c].instruction
  PROVE  Carried(With(pc, c, context), pri, live, n, K)
<1> DEFINE q == With(pc, c, context)
<1>1. /\ q \in [Ceremonies -> CeremonyContext \cup {None}]
      /\ \A d \in Ceremonies : q[d] = IF d = c THEN context ELSE pc[d]
      /\ context # None
  BY SigningAssumption DEF Carried, With
<1> HIDE DEF q
<1>2. \A d \in Ceremonies : /\ q[d] # None <=> pc[d] # None
                            /\ q[d].instruction = pc[d].instruction
  BY <1>1
<1>3. Carried(q, pri, live, n, K)
  BY <1>1, <1>2 DEF Carried
<1> QED BY <1>3 DEF q

\* new_ceremony_attempt gives a request without a carrier a new one, for the same
\* instruction: a ceremony with the next id, or the instruction itself.
LEMMA AttemptCarries ==
  ASSUME CeremonyIdCounter \in 0..MaxCeremonies,
         NEW pc, NEW pri, NEW live \in SUBSET Requests, NEW K,
         Carried(pc, pri, live, CeremonyIdCounter, K),
         NEW i \in RequestInstruction, i.request_id \notin live, K[i.request_id] = i,
         new_ceremony_attempt(i, pc, pri)
  PROVE  /\ CeremonyIdCounter' \in 0..MaxCeremonies
         /\ Carried(PendingCeremonies', PendingRequestInstructions',
                    live \cup {i.request_id}, CeremonyIdCounter', K)
<1> DEFINE r == i.request_id
<1>0. r \in Requests /\ i # None /\ MaxCeremonies \in Nat /\ K[r] = i
  BY SigningAssumption DEF RequestInstruction
<1>1. pri[r] = None /\ \A c \in Ceremonies : pc[c] # None => pc[c].instruction.request_id # r
  BY <1>0 DEF Carried
<1>2. ASSUME NEW candidates \in Participants(i),
             CeremonyStarted(i, candidates, pc, pri)
      PROVE  /\ CeremonyIdCounter' \in 0..MaxCeremonies
             /\ Carried(PendingCeremonies', PendingRequestInstructions',
                        live \cup {r}, CeremonyIdCounter', K)
  <2> DEFINE id == CeremonyIdCounter + 1
             context == [instruction |-> i, candidates |-> candidates,
                         remaining_respondents |-> candidates,
                         blame_counts |-> [v \in Validators |-> 0]]
  <2>1. /\ CeremonyIdCounter' = id /\ id \in Ceremonies
        /\ PendingCeremonies' = [pc EXCEPT ![id] = context]
        /\ PendingRequestInstructions' = pri
    BY <1>0, <1>2 DEF CeremonyStarted, increment_ceremony_id, Ceremonies
  <2>2. candidates \in SUBSET Validators
    BY SigningAssumption, Zenon DEF Participants, Nominations, RequestInstruction
  <2>3. context \in CeremonyContext /\ context # None
    BY <2>2, SigningAssumption DEF CeremonyContext
  <2>4. pc[id] = None
    BY <1>0, <2>1 DEF Carried
  <2> DEFINE q == [pc EXCEPT ![id] = context]
  <2>5. /\ q \in [Ceremonies -> CeremonyContext \cup {None}]
        /\ \A d \in Ceremonies : q[d] = IF d = id THEN context ELSE pc[d]
    BY <2>1, <2>3 DEF Carried
  <2>6. context.instruction = i
    OBVIOUS
  <2> HIDE DEF q, context
  <2>7. \A c \in Ceremonies : q[c] # None =>
          LET s == q[c].instruction.request_id
          IN c <= id /\ q[c].instruction = K[s] /\ s \in live \cup {r} /\ pri[s] = None
    <3> TAKE c \in Ceremonies
    <3>1. CASE c = id
      BY <1>0, <1>1, <2>1, <2>5, <2>6, <3>1 DEF Ceremonies
    <3>2. CASE c # id
      <4>1. pc[c] # None => c <= CeremonyIdCounter
        BY DEF Carried
      <4>2. pc[c] # None => c <= id
        BY <1>0, <4>1 DEF Ceremonies
      <4> QED BY <2>5, <3>2, <4>2 DEF Carried
    <3> QED BY <3>1, <3>2
  <2>8. \A c, d \in Ceremonies :
          /\ q[c] # None /\ q[d] # None
          /\ q[c].instruction.request_id = q[d].instruction.request_id
          => c = d
    <3> TAKE c, d \in Ceremonies
    <3>1. CASE c # id /\ d # id
      BY <2>5, <3>1 DEF Carried
    <3>2. CASE c = id \/ d = id
      BY <1>1, <2>5, <2>6, <3>2
    <3> QED BY <3>1, <3>2
  <2>9. \A s \in live \cup {r} :
          \/ pri[s] # None
          \/ \E c \in Ceremonies : q[c] # None /\ q[c].instruction.request_id = s
    <3> TAKE s \in live \cup {r}
    <3>1. CASE s = r
      BY <2>1, <2>3, <2>5, <2>6, <3>1
    <3>2. CASE s # r /\ pri[s] = None
      <4>1. PICK c \in Ceremonies : pc[c] # None /\ pc[c].instruction.request_id = s
        BY <3>2 DEF Carried
      <4> QED BY <2>4, <2>5, <4>1
    <3> QED BY <3>1, <3>2
  <2>10. \A s \in Requests : pri[s] # None =>
           /\ pri[s] = K[s] /\ pri[s].request_id = s /\ pri[s].type = "Standard"
           /\ s \in live \cup {r}
    BY DEF Carried
  <2>11. Carried(q, pri, live \cup {r}, id, K)
    <3>1. pri \in [Requests -> RequestInstruction \cup {None}]
      BY DEF Carried
    <3> QED BY <2>5, <2>7, <2>8, <2>9, <2>10, <3>1 DEF Carried
  <2> QED BY <1>0, <2>1, <2>11 DEF q, Ceremonies
<1>3. ASSUME i.type = "Standard", SignersUnavailable(i, pc, pri)
      PROVE  /\ CeremonyIdCounter' \in 0..MaxCeremonies
             /\ Carried(PendingCeremonies', PendingRequestInstructions',
                        live \cup {r}, CeremonyIdCounter', K)
  <2> DEFINE q == [pri EXCEPT ![r] = i]
  <2>1. CeremonyIdCounter' = CeremonyIdCounter /\ PendingCeremonies' = pc
          /\ PendingRequestInstructions' = q
    BY <1>3 DEF SignersUnavailable
  <2>2. /\ q \in [Requests -> RequestInstruction \cup {None}]
        /\ \A s \in Requests : q[s] = IF s = r THEN i ELSE pri[s]
    BY <1>0 DEF Carried
  <2> HIDE DEF q
  <2>3. \A c \in Ceremonies : pc[c] # None =>
          LET s == pc[c].instruction.request_id
          IN /\ c <= CeremonyIdCounter /\ pc[c].instruction = K[s]
             /\ s \in live \cup {r} /\ q[s] = None
    BY <1>1, <2>2 DEF Carried
  <2>4. \A s \in Requests : q[s] # None =>
          /\ q[s] = K[s] /\ q[s].request_id = s /\ q[s].type = "Standard"
          /\ s \in live \cup {r}
    BY <1>0, <1>3, <2>2 DEF Carried
  <2>5. \A s \in live \cup {r} :
          \/ q[s] # None
          \/ \E c \in Ceremonies : pc[c] # None /\ pc[c].instruction.request_id = s
    BY <1>0, <2>2 DEF Carried
  <2>6. Carried(pc, q, live \cup {r}, CeremonyIdCounter, K)
    BY <2>2, <2>3, <2>4, <2>5 DEF Carried
  <2> QED BY <2>1, <2>6
<1> QED BY <1>2, <1>3 DEF new_ceremony_attempt

-----------------------------------------------------------------------------
(* Requests and their answers.                                             *)

Unanswered == {r \in Requests : Signature[r] = Pending}
Carrier == [r \in Requests |-> CarrierOf(PendingCeremonies, PendingRequestInstructions, r)]

\* The unanswered requests are carried, ids that were not given out are unused, and
\* callbacks are registered for unanswered requests only.
CoreInv ==
  /\ ThresholdSignatureRequestIdCounter \in 0..MaxRequests
  /\ CeremonyIdCounter \in 0..MaxCeremonies
  /\ RequestCallback \in [Requests -> Callbacks \cup {NoCallback}]
  /\ Signature \in [Requests -> Results]
  /\ delivered \in [Requests -> Seq(Results)]
  /\ Carried(PendingCeremonies, PendingRequestInstructions, Unanswered, CeremonyIdCounter,
             Carrier)
  /\ \A r \in Requests : r > ThresholdSignatureRequestIdCounter =>
       Signature[r] = Void /\ delivered[r] = <<>> /\ RequestCallback[r] = NoCallback
  /\ CallbackRunsOnce

\* A step that answers no request and makes none keeps the invariant if it keeps every
\* request carried.
LEMMA CoreQuiet ==
  ASSUME CoreInv, CeremonyIdCounter' \in 0..MaxCeremonies,
         Carried(PendingCeremonies', PendingRequestInstructions', Unanswered,
                 CeremonyIdCounter', Carrier),
         UNCHANGED <<ThresholdSignatureRequestIdCounter, RequestCallback, Signature, delivered>>
  PROVE  /\ CoreInv'
         /\ Unanswered' = Unanswered
         /\ \A r \in Unanswered : Carrier'[r] = Carrier[r]
<1>1. Unanswered' = Unanswered /\ Unanswered \in SUBSET Requests
  BY DEF Unanswered, Pending, Result
<1>2. \A r \in Unanswered :
        CarrierOf(PendingCeremonies', PendingRequestInstructions', r) = Carrier[r]
  BY <1>1, CarrierIs
<1>3. \A r \in Unanswered : Carrier'[r] = Carrier[r]
  BY <1>1, <1>2 DEF Carrier
<1>4. Carried(PendingCeremonies', PendingRequestInstructions', Unanswered',
              CeremonyIdCounter', Carrier')
  BY <1>1, <1>3, CarriedBySame
<1> QED BY <1>1, <1>3, <1>4 DEF CoreInv, CallbackRunsOnce, Void, Pending, Result

\* inner_request_signature: the new request is carried by its instruction.
LEMMA CoreAsk ==
  ASSUME CoreInv, NEW i \in RequestInstruction, NEW callback \in Callbacks \cup {NoCallback},
         inner_request_signature(i, callback), UNCHANGED delivered
  PROVE  LET r == ThresholdSignatureRequestIdCounter + 1
         IN /\ CoreInv'
            /\ r \in Requests /\ ThresholdSignatureRequestIdCounter' = r
            /\ r \notin Unanswered /\ Unanswered' = Unanswered \cup {r}
            /\ Carrier'[r] = [i EXCEPT !.request_id = r]
            /\ \A s \in Unanswered : Carrier'[s] = Carrier[s]
<1> DEFINE r == ThresholdSignatureRequestIdCounter + 1
           j == [i EXCEPT !.request_id = r]
           K == [Carrier EXCEPT ![r] = j]
<1>1. /\ r \in Requests /\ ThresholdSignatureRequestIdCounter' = r
      /\ new_ceremony_attempt(j, PendingCeremonies, PendingRequestInstructions)
      /\ Signature' = [Signature EXCEPT ![r] = Pending]
      /\ RequestCallback' = [RequestCallback EXCEPT ![r] = callback]
  BY DEF inner_request_signature
<1>2. /\ j \in RequestInstruction /\ j.request_id = r
      /\ ThresholdSignatureRequestIdCounter \in Nat /\ MaxRequests \in Nat
      /\ CeremonyIdCounter \in 0..MaxCeremonies
  <2>1. j \in RequestInstruction /\ j.request_id = r
    BY <1>1 DEF RequestInstruction
  <2>2. /\ ThresholdSignatureRequestIdCounter \in Nat /\ MaxRequests \in Nat
        /\ CeremonyIdCounter \in 0..MaxCeremonies
    BY SigningAssumption DEF CoreInv
  <2> QED BY <2>1, <2>2
<1>3. /\ Signature[r] = Void /\ delivered[r] = <<>> /\ RequestCallback[r] = NoCallback
      /\ Signature \in [Requests -> Results]
  BY <1>1, <1>2 DEF CoreInv
<1>4. Void # Pending /\ Pending \in Results /\ Void \in Results
  BY DEF Void, Pending, Result, Results
<1>5. r \notin Unanswered /\ Unanswered \in SUBSET Requests
  BY <1>3, <1>4 DEF Unanswered
<1>6. Unanswered' = Unanswered \cup {r}
  <2>1. Pending' = Pending
    BY DEF Pending, Result
  <2> QED BY <1>1, <1>3, <2>1 DEF Unanswered
<1>7. K[r] = j /\ \A s \in Unanswered : K[s] = Carrier[s]
  BY <1>1, <1>5 DEF Carrier
<1> HIDE DEF j, K
<1>8. Carried(PendingCeremonies, PendingRequestInstructions, Unanswered, CeremonyIdCounter, K)
  BY <1>5, <1>7, CarriedBySame DEF CoreInv
<1>9. /\ CeremonyIdCounter' \in 0..MaxCeremonies
      /\ Carried(PendingCeremonies', PendingRequestInstructions', Unanswered \cup {r},
                 CeremonyIdCounter', K)
  <2>1. j.request_id \notin Unanswered /\ K[j.request_id] = j
    BY <1>2, <1>5, <1>7
  <2>2. /\ CeremonyIdCounter' \in 0..MaxCeremonies
        /\ Carried(PendingCeremonies', PendingRequestInstructions',
                   Unanswered \cup {j.request_id}, CeremonyIdCounter', K)
    BY <1>1, <1>2, <1>5, <1>8, <2>1, AttemptCarries
  <2> QED BY <1>2, <2>2
<1>10. \A s \in Unanswered' :
         CarrierOf(PendingCeremonies', PendingRequestInstructions', s) = K[s]
  BY <1>1, <1>5, <1>6, <1>9, CarrierIs
<1>11. \A s \in Unanswered' : Carrier'[s] = K[s]
  BY <1>1, <1>5, <1>6, <1>10 DEF Carrier
<1>12. Carried(PendingCeremonies', PendingRequestInstructions', Unanswered',
               CeremonyIdCounter', Carrier')
  <2> DEFINE live == Unanswered \cup {r}
  <2>1. live \in SUBSET Requests /\ \A s \in live : Carrier'[s] = K[s]
    BY <1>1, <1>5, <1>6, <1>11
  <2>2. Carried(PendingCeremonies', PendingRequestInstructions', live, CeremonyIdCounter', K)
    BY <1>9
  <2> HIDE DEF live
  <2>3. Carried(PendingCeremonies', PendingRequestInstructions', live, CeremonyIdCounter',
                Carrier')
    BY <2>1, <2>2, CarriedBySame
  <2> QED BY <1>6, <2>3 DEF live
<1>13. CallbackRunsOnce'
  <2> SUFFICES ASSUME NEW s \in Requests
               PROVE  /\ Len(delivered'[s]) <= 1
                      /\ RequestCallback'[s] # NoCallback =>
                           Signature'[s] = Pending' /\ delivered'[s] = <<>>
                      /\ delivered'[s] # <<>> => Signature'[s] = Void'
    BY DEF CallbackRunsOnce
  <2>1. CASE s = r
    BY <1>1, <1>3, <1>4, <2>1 DEF CoreInv, CallbackRunsOnce, Pending, Result
  <2>2. CASE s # r
    <3>1. Signature'[s] = Signature[s] /\ RequestCallback'[s] = RequestCallback[s]
      BY <1>1, <2>2 DEF CoreInv
    <3> QED BY <3>1 DEF CoreInv, CallbackRunsOnce, Void, Pending, Result
  <2> QED BY <2>1, <2>2
<1>14. \A s \in Requests : s > ThresholdSignatureRequestIdCounter' =>
         Signature'[s] = Void' /\ delivered'[s] = <<>> /\ RequestCallback'[s] = NoCallback
  <2> TAKE s \in Requests
  <2> HAVE s > ThresholdSignatureRequestIdCounter'
  <2>1. s > ThresholdSignatureRequestIdCounter /\ s # r
    BY <1>1, <1>2 DEF Requests
  <2> QED BY <1>1, <2>1 DEF CoreInv, Void, Result
<1>15. /\ RequestCallback' \in [Requests -> Callbacks \cup {NoCallback}]
       /\ Signature' \in [Requests -> Results]
       /\ ThresholdSignatureRequestIdCounter' \in 0..MaxRequests
  <2>1. RequestCallback' \in [Requests -> Callbacks \cup {NoCallback}]
    BY <1>1 DEF CoreInv
  <2>2. Signature' \in [Requests -> Results]
    BY <1>1, <1>3, <1>4
  <2>3. ThresholdSignatureRequestIdCounter' \in 0..MaxRequests
    BY <1>1, <1>2 DEF Requests
  <2> QED BY <2>1, <2>2, <2>3
<1>16. CoreInv'
  BY <1>9, <1>12, <1>13, <1>14, <1>15, Zenon DEF CoreInv, Results
<1> QED BY <1>1, <1>5, <1>6, <1>7, <1>11, <1>16 DEF j

\* maybe_dispatch_callback for the request of a ceremony that ends.
LEMMA CoreAnswer ==
  ASSUME CoreInv, NEW c \in Ceremonies, PendingCeremonies[c] # None,
         NEW result \in Results, result.status \in {"Ok", "Err"},
         PendingCeremonies' = [PendingCeremonies EXCEPT ![c] = None],
         UNCHANGED <<counters, PendingRequestInstructions>>,
         maybe_dispatch_callback(PendingCeremonies[c].instruction.request_id, result)
  PROVE  LET r == PendingCeremonies[c].instruction.request_id
         IN /\ CoreInv'
            /\ r \in Unanswered /\ Unanswered' = Unanswered \ {r}
            /\ PendingCeremonies[c].instruction = Carrier[r]
            /\ \A s \in Unanswered' : Carrier'[s] = Carrier[s]
<1> DEFINE r == PendingCeremonies[c].instruction.request_id
           live == Unanswered \ {r}
<1>1. /\ Unanswered \in SUBSET Requests
      /\ Carried(PendingCeremonies, PendingRequestInstructions, Unanswered,
                 CeremonyIdCounter, Carrier)
  BY DEF CoreInv, Unanswered
<1>2. /\ r \in Unanswered /\ PendingCeremonies[c].instruction = Carrier[r]
      /\ Carried(PendingCeremonies', PendingRequestInstructions,
                 live, CeremonyIdCounter, Carrier)
  <2>1. PendingCeremonies' = Without(PendingCeremonies, c)
    BY DEF Without
  <2>2. r \in Unanswered /\ PendingCeremonies[c].instruction = Carrier[r]
    BY <1>1 DEF Carried
  <2>3. Carried(Without(PendingCeremonies, c), PendingRequestInstructions, live,
                CeremonyIdCounter, Carrier)
    BY <1>1, DropCeremony
  <2> QED BY <2>1, <2>2, <2>3, Zenon
<1> HIDE DEF r
<1>3. r \in Requests /\ Signature[r] = Pending /\ delivered[r] = <<>>
  <2>1. r \in Requests /\ Signature[r] = Pending
    BY <1>2 DEF Unanswered
  <2>2. Pending # Void
    BY DEF Pending, Void, Result
  <2> QED BY <2>1, <2>2 DEF CoreInv, CallbackRunsOnce
<1>4. result # Pending /\ Void # Pending /\ Void \in Results /\ Pending' = Pending
        /\ Void' = Void
  BY DEF Pending, Void, Result, Results
<1>5. /\ RequestCallback' = [RequestCallback EXCEPT ![r] = NoCallback]
      /\ \/ /\ RequestCallback[r] = NoCallback
            /\ Signature' = [Signature EXCEPT ![r] = result]
            /\ delivered' = delivered
         \/ /\ Signature' = [Signature EXCEPT ![r] = Void]
            /\ delivered' = [delivered EXCEPT ![r] = Append(@, result)]
  BY DEF maybe_dispatch_callback, r
<1>6. /\ RequestCallback'[r] = NoCallback
      /\ \/ Signature'[r] = result /\ delivered'[r] = <<>>
         \/ Signature'[r] = Void /\ delivered'[r] = <<result>>
  BY <1>3, <1>5 DEF CoreInv
<1>7. \A s \in Requests : s # r =>
        /\ Signature'[s] = Signature[s] /\ RequestCallback'[s] = RequestCallback[s]
        /\ delivered'[s] = delivered[s]
  BY <1>5 DEF CoreInv
<1>8. /\ RequestCallback' \in [Requests -> Callbacks \cup {NoCallback}]
      /\ Signature' \in [Requests -> Results]
      /\ delivered' \in [Requests -> Seq(Results)]
  <2>1. \A s \in Requests : delivered'[s] \in Seq(Results)
    <3>1. <<result>> \in Seq(Results) /\ <<>> \in Seq(Results)
      OBVIOUS
    <3> QED BY <1>6, <1>7, <3>1, Zenon DEF CoreInv
  <2>2. delivered' \in [Requests -> Seq(Results)]
    BY <1>5, <2>1 DEF CoreInv
  <2>3. \A s \in Requests : Signature'[s] \in Results
    BY <1>4, <1>6, <1>7 DEF CoreInv
  <2>4. Signature' \in [Requests -> Results]
    BY <1>5, <2>3 DEF CoreInv
  <2>5. RequestCallback' \in [Requests -> Callbacks \cup {NoCallback}]
    BY <1>5, Zenon DEF CoreInv
  <2> QED BY <2>2, <2>4, <2>5
<1>9. Unanswered' = live
  BY <1>3, <1>4, <1>6, <1>7 DEF Unanswered
<1>10. CallbackRunsOnce'
  <2> SUFFICES ASSUME NEW s \in Requests
               PROVE  /\ Len(delivered'[s]) <= 1
                      /\ RequestCallback'[s] # NoCallback =>
                           Signature'[s] = Pending' /\ delivered'[s] = <<>>
                      /\ delivered'[s] # <<>> => Signature'[s] = Void'
    BY DEF CallbackRunsOnce
  <2>1. CASE s = r
    <3>1. CASE Signature'[r] = result /\ delivered'[r] = <<>>
      BY <1>6, <2>1, <3>1
    <3>2. CASE Signature'[r] = Void /\ delivered'[r] = <<result>>
      BY <1>4, <1>6, <2>1, <3>2
    <3> QED BY <1>6, <3>1, <3>2
  <2>2. CASE s # r
    BY <1>4, <1>7, <2>2 DEF CoreInv, CallbackRunsOnce
  <2> QED BY <2>1, <2>2
<1>11. \A s \in Requests : s > ThresholdSignatureRequestIdCounter' =>
         Signature'[s] = Void' /\ delivered'[s] = <<>> /\ RequestCallback'[s] = NoCallback
  <2> TAKE s \in Requests
  <2> HAVE s > ThresholdSignatureRequestIdCounter'
  <2>0. s > ThresholdSignatureRequestIdCounter
    BY DEF counters
  <2>1. Signature[s] = Void /\ delivered[s] = <<>> /\ RequestCallback[s] = NoCallback
    BY <2>0 DEF CoreInv
  <2>2. s # r
    BY <1>3, <1>4, <2>1
  <2> QED BY <1>4, <1>7, <2>1, <2>2
<1>12. /\ live \in SUBSET Requests /\ UNCHANGED counters
       /\ Carried(PendingCeremonies', PendingRequestInstructions', live,
                  CeremonyIdCounter', Carrier)
  BY <1>1, <1>2 DEF counters
<1> HIDE DEF live
<1>13. \A s \in live :
         CarrierOf(PendingCeremonies', PendingRequestInstructions', s) = Carrier[s]
  BY <1>12, CarrierIs
<1>14. \A s \in live : Carrier'[s] = Carrier[s]
  BY <1>12, <1>13, Zenon DEF Carrier
<1>15. Carried(PendingCeremonies', PendingRequestInstructions', live,
               CeremonyIdCounter', Carrier')
  BY <1>12, <1>14, CarriedBySame
<1>16. CoreInv'
  BY <1>8, <1>9, <1>10, <1>11, <1>12, <1>15, Zenon DEF CoreInv, counters, Results
<1> QED BY <1>2, <1>9, <1>14, <1>16 DEF live, r

-----------------------------------------------------------------------------
(* The actions.                                                            *)

\* The retry queues, what on_initialize takes from them, and the settings.
QueueType ==
  /\ CeremonyRetryQueues \in [Delays -> Seq(Ceremonies)]
  /\ RequestRetryQueue \in [Delays -> Seq(Requests)]
  /\ ThresholdSignatureResponseTimeout \in Timeouts
  /\ active_key \in EpochKey \cup {NoEpochKey}
  /\ retrying \in Seq(Ceremonies) /\ rerequesting \in Seq(Requests)

\* A queue with one more entry.
LEMMA QueueAppend ==
  ASSUME NEW S, NEW q \in [Delays -> Seq(S)], NEW d \in Delays, NEW x \in S
  PROVE  /\ [q EXCEPT ![d] = Append(@, x)] \in [Delays -> Seq(S)]
         /\ x \in Range([q EXCEPT ![d] = Append(@, x)][d])
         /\ \A e \in Delays : Range(q[e]) \subseteq Range([q EXCEPT ![d] = Append(@, x)][e])
<1> DEFINE p == [q EXCEPT ![d] = Append(@, x)]
<1>1. Append(q[d], x) \in Seq(S) /\ Range(Append(q[d], x)) = Range(q[d]) \cup {x}
  BY RangeAppend
<1>2. p \in [Delays -> Seq(S)] /\ p[d] = Append(q[d], x)
        /\ \A e \in Delays : e # d => p[e] = q[e]
  BY <1>1
<1> HIDE DEF p
<1>3. x \in Range(p[d]) /\ \A e \in Delays : Range(q[e]) \subseteq Range(p[e])
  BY <1>1, <1>2, Zenon
<1> QED BY <1>2, <1>3 DEF p

\* new_ceremony_attempt queues what it creates and nothing else.
LEMMA AttemptQueues ==
  ASSUME QueueType, CeremonyIdCounter \in 0..MaxCeremonies,
         NEW pc \in [Ceremonies -> CeremonyContext \cup {None}],
         NEW pri \in [Requests -> RequestInstruction \cup {None}],
         NEW i \in RequestInstruction, new_ceremony_attempt(i, pc, pri)
  PROVE  /\ CeremonyRetryQueues' \in [Delays -> Seq(Ceremonies)]
         /\ RequestRetryQueue' \in [Delays -> Seq(Requests)]
         /\ \A d \in Delays : /\ Range(CeremonyRetryQueues[d]) \subseteq Range(CeremonyRetryQueues'[d])
                              /\ Range(RequestRetryQueue[d]) \subseteq Range(RequestRetryQueue'[d])
         /\ \A c \in Ceremonies : PendingCeremonies'[c] # None =>
              \/ pc[c] # None
              \/ c \in Range(CeremonyRetryQueues'[ThresholdSignatureResponseTimeout])
         /\ \A r \in Requests : PendingRequestInstructions'[r] # None =>
              pri[r] # None \/ r \in Range(RequestRetryQueue'[CeremonyRetryDelay])
<1>0. /\ ThresholdSignatureResponseTimeout \in Delays /\ CeremonyRetryDelay \in Delays
      /\ i.request_id \in Requests /\ MaxCeremonies \in Nat
      /\ CeremonyRetryQueues \in [Delays -> Seq(Ceremonies)]
      /\ RequestRetryQueue \in [Delays -> Seq(Requests)]
  <2>1. ThresholdSignatureResponseTimeout \in Delays
    BY SigningAssumption DEF QueueType
  <2>2. CeremonyRetryDelay \in Delays /\ MaxCeremonies \in Nat
    BY SigningAssumption DEF Delays
  <2> QED BY <2>1, <2>2 DEF QueueType, RequestInstruction
<1>1. ASSUME NEW candidates \in Participants(i), CeremonyStarted(i, candidates, pc, pri)
      PROVE  /\ CeremonyRetryQueues' \in [Delays -> Seq(Ceremonies)]
             /\ UNCHANGED RequestRetryQueue
             /\ \A d \in Delays : Range(CeremonyRetryQueues[d]) \subseteq Range(CeremonyRetryQueues'[d])
             /\ PendingRequestInstructions' = pri
             /\ \A c \in Ceremonies : PendingCeremonies'[c] # None =>
                  \/ pc[c] # None
                  \/ c \in Range(CeremonyRetryQueues'[ThresholdSignatureResponseTimeout])
  <2> DEFINE id == CeremonyIdCounter + 1
  <2>1. id \in Ceremonies
    BY <1>0, <1>1 DEF CeremonyStarted, increment_ceremony_id, Ceremonies
  <2>2. CeremonyRetryQueues' = [CeremonyRetryQueues EXCEPT
                                  ![ThresholdSignatureResponseTimeout] = Append(@, id)]
    BY <1>1 DEF CeremonyStarted, schedule_ceremony_retry
  <2>3. \A c \in Ceremonies : c # id => PendingCeremonies'[c] = pc[c]
    BY <1>1 DEF CeremonyStarted
  <2>4. PendingRequestInstructions' = pri /\ UNCHANGED RequestRetryQueue
    BY <1>1 DEF CeremonyStarted
  <2> HIDE DEF id
  <2>5. /\ CeremonyRetryQueues' \in [Delays -> Seq(Ceremonies)]
        /\ id \in Range(CeremonyRetryQueues'[ThresholdSignatureResponseTimeout])
        /\ \A d \in Delays : Range(CeremonyRetryQueues[d]) \subseteq Range(CeremonyRetryQueues'[d])
    BY <1>0, <2>1, <2>2, QueueAppend, Zenon
  <2> QED BY <2>3, <2>4, <2>5
<1>2. ASSUME SignersUnavailable(i, pc, pri)
      PROVE  /\ RequestRetryQueue' \in [Delays -> Seq(Requests)]
             /\ UNCHANGED CeremonyRetryQueues
             /\ \A d \in Delays : Range(RequestRetryQueue[d]) \subseteq Range(RequestRetryQueue'[d])
             /\ PendingCeremonies' = pc
             /\ \A r \in Requests : PendingRequestInstructions'[r] # None =>
                  pri[r] # None \/ r \in Range(RequestRetryQueue'[CeremonyRetryDelay])
  <2> DEFINE id == i.request_id
  <2>1. RequestRetryQueue' = [RequestRetryQueue EXCEPT ![CeremonyRetryDelay] = Append(@, id)]
    BY <1>2 DEF SignersUnavailable
  <2>2. \A r \in Requests : r # id => PendingRequestInstructions'[r] = pri[r]
    BY <1>2 DEF SignersUnavailable
  <2>3. PendingCeremonies' = pc /\ UNCHANGED CeremonyRetryQueues /\ id \in Requests
    BY <1>0, <1>2 DEF SignersUnavailable
  <2> HIDE DEF id
  <2>4. /\ RequestRetryQueue' \in [Delays -> Seq(Requests)]
        /\ id \in Range(RequestRetryQueue'[CeremonyRetryDelay])
        /\ \A d \in Delays : Range(RequestRetryQueue[d]) \subseteq Range(RequestRetryQueue'[d])
    BY <1>0, <2>1, <2>3, QueueAppend, Zenon
  <2> QED BY <2>2, <2>3, <2>4
<1> QED BY <1>0, <1>1, <1>2 DEF new_ceremony_attempt

SigningInv == CoreInv /\ QueueType

\* The parts of the invariant that the steps use.
LEMMA SigningTypes ==
  ASSUME SigningInv
  PROVE  /\ PendingCeremonies \in [Ceremonies -> CeremonyContext \cup {None}]
         /\ PendingRequestInstructions \in [Requests -> RequestInstruction \cup {None}]
         /\ ThresholdSignatureRequestIdCounter \in 0..MaxRequests
         /\ CeremonyIdCounter \in 0..MaxCeremonies
         /\ RequestCallback \in [Requests -> Callbacks \cup {NoCallback}]
         /\ Signature \in [Requests -> Results]
         /\ delivered \in [Requests -> Seq(Results)]
         /\ QueueType
         /\ Unanswered \in SUBSET Requests
<1>1. /\ PendingCeremonies \in [Ceremonies -> CeremonyContext \cup {None}]
      /\ PendingRequestInstructions \in [Requests -> RequestInstruction \cup {None}]
  BY DEF SigningInv, CoreInv, Carried
<1> QED BY <1>1 DEF SigningInv, CoreInv, Unanswered

LEMMA CeremonyFacts ==
  ASSUME SigningInv, NEW c \in Ceremonies, PendingCeremonies[c] # None
  PROVE  LET i == PendingCeremonies[c].instruction
         IN /\ PendingCeremonies[c] \in CeremonyContext
            /\ i \in RequestInstruction /\ i.request_id \in Unanswered
            /\ i.request_id \in Requests
            /\ PendingRequestInstructions[i.request_id] = None
            /\ i = Carrier[i.request_id]
<1> DEFINE i == PendingCeremonies[c].instruction
<1>1. PendingCeremonies[c] \in CeremonyContext
  BY SigningTypes
<1>2. i.request_id \in Unanswered /\ PendingRequestInstructions[i.request_id] = None
        /\ i = Carrier[i.request_id]
  BY DEF SigningInv, CoreInv, Carried
<1>3. i \in RequestInstruction /\ i.request_id \in Requests
  BY <1>1 DEF CeremonyContext, RequestInstruction
<1> QED BY <1>1, <1>2, <1>3

LEMMA UnansweredFacts ==
  ASSUME SigningInv, NEW r \in Unanswered
  PROVE  /\ r \in Requests /\ Signature[r] = Pending /\ delivered[r] = <<>>
         /\ ~(r > ThresholdSignatureRequestIdCounter)
         /\ PendingRequestInstructions[r] # None =>
              Carrier[r].type = "Standard" /\ Attempts(r) = {}
         /\ PendingRequestInstructions[r] = None => Attempts(r) # {}
<1>1. r \in Requests /\ Signature[r] = Pending
  BY DEF Unanswered
<1>2. Pending # Void
  BY DEF Pending, Void, Result
<1>3. delivered[r] = <<>> /\ ~(r > ThresholdSignatureRequestIdCounter)
  BY <1>1, <1>2 DEF SigningInv, CoreInv, CallbackRunsOnce
<1>4. Carried(PendingCeremonies, PendingRequestInstructions, Unanswered, CeremonyIdCounter,
              Carrier)
  BY DEF SigningInv, CoreInv
<1>5. PendingRequestInstructions[r] # None => Carrier[r].type = "Standard"
  BY <1>1, <1>4 DEF Carried
<1>6. PendingRequestInstructions[r] # None => Attempts(r) = {}
  BY <1>1, <1>4 DEF Carried, Attempts
<1>7. PendingRequestInstructions[r] = None => Attempts(r) # {}
  BY <1>1, <1>4 DEF Carried, Attempts
<1> QED BY <1>1, <1>3, <1>5, <1>6, <1>7

\* What of a request stays the same in a step that neither makes nor answers it.
KeepsRequests ==
  /\ Unanswered' = Unanswered
  /\ \A r \in Unanswered : Carrier'[r] = Carrier[r]
  /\ UNCHANGED <<ThresholdSignatureRequestIdCounter, RequestCallback, Signature, delivered>>

LEMMA RetryCeremonyStep == SigningInv /\ RetryCeremony => SigningInv' /\ KeepsRequests
<1> SUFFICES ASSUME SigningInv, RetryCeremony PROVE SigningInv' /\ KeepsRequests
  OBVIOUS
<1> DEFINE c == Head(retrying)
           i == PendingCeremonies[c].instruction
           r == i.request_id
<1>1. /\ c \in Ceremonies /\ Tail(retrying) \in Seq(Ceremonies)
  BY RangeHeadTail DEF SigningInv, QueueType, RetryCeremony
<1>2. /\ PendingCeremonies[c] # None
      /\ new_ceremony_attempt(i, [PendingCeremonies EXCEPT ![c] = None],
                              PendingRequestInstructions)
      /\ retrying' = Tail(retrying)
      /\ UNCHANGED <<ThresholdSignatureRequestIdCounter, RequestCallback, Signature,
                     ThresholdSignatureResponseTimeout, active_key, rerequesting, delivered>>
  BY DEF RetryCeremony, RetryInstruction
<1> HIDE DEF c
<1>3. /\ Unanswered \in SUBSET Requests
      /\ Carried(PendingCeremonies, PendingRequestInstructions, Unanswered,
                 CeremonyIdCounter, Carrier)
      /\ CeremonyIdCounter \in 0..MaxCeremonies
  BY DEF SigningInv, CoreInv, Unanswered
<1>4. i \in RequestInstruction /\ r \in Unanswered /\ Carrier[r] = i
  BY <1>1, <1>2, <1>3 DEF Carried, CeremonyContext
<1>5. Carried(Without(PendingCeremonies, c), PendingRequestInstructions, Unanswered \ {r},
              CeremonyIdCounter, Carrier)
  BY <1>1, <1>2, <1>3, DropCeremony
<1>6. new_ceremony_attempt(i, Without(PendingCeremonies, c), PendingRequestInstructions)
  BY <1>2 DEF Without
<1>7. Unanswered \ {r} \in SUBSET Requests /\ (Unanswered \ {r}) \cup {r} = Unanswered
  BY <1>3, <1>4
<1> HIDE DEF i
<1>8. /\ CeremonyIdCounter' \in 0..MaxCeremonies
      /\ Carried(PendingCeremonies', PendingRequestInstructions', (Unanswered \ {r}) \cup {r},
                 CeremonyIdCounter', Carrier)
  BY <1>3, <1>4, <1>5, <1>6, <1>7, AttemptCarries
<1>9. CoreInv' /\ KeepsRequests
  <2>1. Carried(PendingCeremonies', PendingRequestInstructions', Unanswered,
                CeremonyIdCounter', Carrier)
    BY <1>7, <1>8
  <2> QED BY <1>2, <1>8, <2>1, CoreQuiet DEF SigningInv, KeepsRequests
<1>10. QueueType'
  <2>1. /\ Without(PendingCeremonies, c) \in [Ceremonies -> CeremonyContext \cup {None}]
        /\ PendingRequestInstructions \in [Requests -> RequestInstruction \cup {None}]
    BY <1>5 DEF Carried
  <2>2. /\ CeremonyRetryQueues' \in [Delays -> Seq(Ceremonies)]
        /\ RequestRetryQueue' \in [Delays -> Seq(Requests)]
    BY <1>3, <1>4, <1>6, <2>1, AttemptQueues DEF SigningInv
  <2> QED BY <1>1, <1>2, <2>2 DEF QueueType, SigningInv, c
<1> QED BY <1>9, <1>10 DEF SigningInv

LEMMA RetryRequestStep == SigningInv /\ RetryRequest => SigningInv' /\ KeepsRequests
<1> SUFFICES ASSUME SigningInv, RetryRequest PROVE SigningInv' /\ KeepsRequests
  OBVIOUS
<1> DEFINE r == Head(rerequesting)
           i == PendingRequestInstructions[r]
<1>1. /\ r \in Requests /\ Tail(rerequesting) \in Seq(Requests)
  BY RangeHeadTail DEF SigningInv, QueueType, RetryRequest
<1>2. /\ rerequesting' = Tail(rerequesting)
      /\ UNCHANGED <<ThresholdSignatureRequestIdCounter, RequestCallback, Signature,
                     ThresholdSignatureResponseTimeout, active_key, retrying, delivered>>
  BY DEF RetryRequest
<1>3. /\ Unanswered \in SUBSET Requests
      /\ Carried(PendingCeremonies, PendingRequestInstructions, Unanswered,
                 CeremonyIdCounter, Carrier)
      /\ CeremonyIdCounter \in 0..MaxCeremonies
  BY DEF SigningInv, CoreInv, Unanswered
<1>4. CASE i = None
  <2>1. UNCHANGED <<CeremonyIdCounter, PendingCeremonies, PendingRequestInstructions, queues>>
    BY <1>4 DEF RetryRequest
  <2>2. CoreInv' /\ KeepsRequests
    BY <1>2, <1>3, <2>1, CoreQuiet DEF SigningInv, KeepsRequests
  <2>3. QueueType'
    BY <1>1, <1>2, <2>1 DEF QueueType, SigningInv, queues
  <2> QED BY <2>2, <2>3 DEF SigningInv
<1>5. CASE i # None
  <2>1. new_ceremony_attempt(i, PendingCeremonies, Without(PendingRequestInstructions, r))
    BY <1>5 DEF RetryRequest, Without
  <2> HIDE DEF r
  <2>2. i \in RequestInstruction /\ i.request_id = r /\ r \in Unanswered /\ Carrier[r] = i
    BY <1>1, <1>3, <1>5 DEF Carried
  <2>3. Carried(PendingCeremonies, Without(PendingRequestInstructions, r), Unanswered \ {r},
                CeremonyIdCounter, Carrier)
    BY <1>1, <1>3, <1>5, DropInstruction
  <2>4. Unanswered \ {r} \in SUBSET Requests /\ (Unanswered \ {r}) \cup {r} = Unanswered
    BY <1>3, <2>2
  <2> HIDE DEF i
  <2>5. /\ CeremonyIdCounter' \in 0..MaxCeremonies
        /\ Carried(PendingCeremonies', PendingRequestInstructions',
                   (Unanswered \ {r}) \cup {i.request_id}, CeremonyIdCounter', Carrier)
    BY <1>3, <2>1, <2>2, <2>3, <2>4, AttemptCarries
  <2>6. CoreInv' /\ KeepsRequests
    <3>1. Carried(PendingCeremonies', PendingRequestInstructions', Unanswered,
                  CeremonyIdCounter', Carrier)
      BY <2>2, <2>4, <2>5
    <3> QED BY <1>2, <2>5, <3>1, CoreQuiet DEF SigningInv, KeepsRequests
  <2>7. QueueType'
    <3>1. /\ PendingCeremonies \in [Ceremonies -> CeremonyContext \cup {None}]
          /\ Without(PendingRequestInstructions, r) \in [Requests -> RequestInstruction \cup {None}]
      BY <2>3 DEF Carried
    <3>2. /\ CeremonyRetryQueues' \in [Delays -> Seq(Ceremonies)]
          /\ RequestRetryQueue' \in [Delays -> Seq(Requests)]
      BY <1>3, <2>1, <2>2, <3>1, AttemptQueues DEF SigningInv
    <3> QED BY <1>1, <1>2, <3>2 DEF QueueType, SigningInv, r
  <2> QED BY <2>6, <2>7 DEF SigningInv
<1> QED BY <1>4, <1>5

LEMMA ReportStep ==
  ASSUME SigningInv, NEW v \in Validators, NEW c \in Ceremonies, NEW blamed \in SUBSET Validators,
         report_signature_failed(v, c, blamed)
  PROVE  SigningInv' /\ KeepsRequests
<1> DEFINE old == PendingCeremonies[c]
           context == CountBlame(old, v, blamed)
<1>1. /\ old # None
      /\ PendingCeremonies' = With(PendingCeremonies, c, context)
      /\ \/ schedule_ceremony_retry(c, 1)
         \/ UNCHANGED CeremonyRetryQueues
      /\ UNCHANGED <<counters, PendingRequestInstructions, RequestCallback, Signature,
                     RequestRetryQueue, ThresholdSignatureResponseTimeout, active_key,
                     retrying, rerequesting, delivered>>
  BY DEF report_signature_failed, With
<1>2. /\ Unanswered \in SUBSET Requests
      /\ Carried(PendingCeremonies, PendingRequestInstructions, Unanswered,
                 CeremonyIdCounter, Carrier)
      /\ CeremonyIdCounter \in 0..MaxCeremonies
  BY DEF SigningInv, CoreInv, Unanswered
<1>3. old \in CeremonyContext
  BY <1>1, SigningTypes
<1>4. context \in CeremonyContext /\ context.instruction = old.instruction
  <2>1. [w \in Validators |-> IF w \in blamed \cap old.candidates
                              THEN old.blame_counts[w] + 1
                              ELSE old.blame_counts[w]] \in [Validators -> Nat]
    BY <1>3 DEF CeremonyContext
  <2> QED BY Zenon, <1>3, <2>1 DEF CeremonyContext, CountBlame
<1> HIDE DEF context
<1>5. Carried(PendingCeremonies', PendingRequestInstructions', Unanswered,
              CeremonyIdCounter', Carrier)
  <2>1. Carried(With(PendingCeremonies, c, context), PendingRequestInstructions, Unanswered,
                CeremonyIdCounter, Carrier)
    BY <1>1, <1>2, <1>4, ReplaceContext
  <2> QED BY <1>1, <2>1 DEF counters
<1>6. CoreInv' /\ KeepsRequests
  BY Zenon, <1>1, <1>2, <1>5, CoreQuiet DEF SigningInv, KeepsRequests, counters
<1>7. CeremonyRetryQueues' \in [Delays -> Seq(Ceremonies)]
  <2>1. CASE schedule_ceremony_retry(c, 1)
    <3>1. CeremonyRetryQueues \in [Delays -> Seq(Ceremonies)] /\ 1 \in Delays
      BY SigningAssumption DEF SigningInv, QueueType, Delays
    <3> QED BY <2>1, <3>1, QueueAppend DEF schedule_ceremony_retry
  <2>2. CASE UNCHANGED CeremonyRetryQueues
    BY <2>2 DEF SigningInv, QueueType
  <2> QED BY <1>1, <2>1, <2>2
<1> QED BY <1>1, <1>6, <1>7 DEF SigningInv, QueueType

\* A step that leaves requests and ceremonies alone.
LEMMA OtherStep ==
  ASSUME SigningInv, QueueType', CeremonyIdCounter' \in CeremonyIdCounter..MaxCeremonies,
         UNCHANGED <<ThresholdSignatureRequestIdCounter, PendingCeremonies,
                     PendingRequestInstructions, RequestCallback, Signature, delivered>>
  PROVE  SigningInv' /\ KeepsRequests
<1>1. /\ CeremonyIdCounter \in 0..MaxCeremonies /\ MaxCeremonies \in Nat
      /\ Carried(PendingCeremonies, PendingRequestInstructions, Unanswered,
                 CeremonyIdCounter, Carrier)
  BY SigningAssumption DEF SigningInv, CoreInv
<1>2. CeremonyIdCounter' \in 0..MaxCeremonies
  BY <1>1
<1>3. \A c \in Ceremonies : c <= CeremonyIdCounter => c <= CeremonyIdCounter'
  BY <1>1 DEF Ceremonies
<1>4. Carried(PendingCeremonies', PendingRequestInstructions', Unanswered,
              CeremonyIdCounter', Carrier)
  BY <1>1, <1>3 DEF Carried
<1> QED BY <1>2, <1>4, CoreQuiet DEF SigningInv, KeepsRequests

LEMMA NextBlockType ==
  ASSUME NEW S, NEW q \in [Delays -> Seq(S)]
  PROVE  NextBlock(q) \in [Delays -> Seq(S)]
<1>1. \A d \in Delays : d # MaxDelay => d + 1 \in Delays
  BY SigningAssumption DEF Delays
<1> QED BY <1>1 DEF NextBlock

LEMMA TakeQueuesType ==
  ASSUME QueueType, NEW p \in [Delays -> Seq(Ceremonies)], NEW q \in [Delays -> Seq(Requests)],
         TakeQueues(p, q), UNCHANGED <<ThresholdSignatureResponseTimeout, active_key>>
  PROVE  QueueType'
<1>1. 0 \in Delays
  BY SigningAssumption DEF Delays
<1> QED BY <1>1 DEF QueueType, TakeQueues

\* The start of a block, a stale entry and a change of the timeout.
LEMMA SettingsStep ==
  ASSUME SigningInv,
         \/ on_initialize \/ StaleCeremony
         \/ \E t \in Timeouts : set_threshold_signature_timeout(t)
  PROVE  SigningInv' /\ KeepsRequests
<1>0. CeremonyIdCounter \in 0..MaxCeremonies /\ MaxCeremonies \in Nat
  BY SigningAssumption DEF SigningInv, CoreInv
<1>1. CASE on_initialize
  <2>1. /\ NextBlock(CeremonyRetryQueues) \in [Delays -> Seq(Ceremonies)]
        /\ NextBlock(RequestRetryQueue) \in [Delays -> Seq(Requests)]
    BY NextBlockType DEF SigningInv, QueueType
  <2>2. QueueType'
    BY <1>1, <2>1, TakeQueuesType DEF on_initialize, SigningInv
  <2> QED BY <1>0, <1>1, <2>2, OtherStep DEF on_initialize, counters
<1>2. CASE StaleCeremony
  <2>1. Tail(retrying) \in Seq(Ceremonies)
    BY <1>2, RangeHeadTail DEF StaleCeremony, SigningInv, QueueType
  <2>2. QueueType'
    BY <1>2, <2>1 DEF StaleCeremony, SigningInv, QueueType, queues
  <2> QED BY <1>0, <1>2, <2>2, OtherStep DEF StaleCeremony, counters
<1>3. CASE \E t \in Timeouts : set_threshold_signature_timeout(t)
  <2>1. QueueType'
    BY <1>3 DEF set_threshold_signature_timeout, SigningInv, QueueType, queues
  <2> QED BY <1>0, <1>3, <2>1, OtherStep DEF set_threshold_signature_timeout, counters
<1> QED BY <1>1, <1>2, <1>3

LEMMA AskStep ==
  ASSUME SigningInv, NEW i \in RequestInstruction, NEW callback \in Callbacks \cup {NoCallback},
         inner_request_signature(i, callback),
         UNCHANGED <<ThresholdSignatureResponseTimeout, retrying, rerequesting, delivered>>,
         active_key' \in EpochKey \cup {NoEpochKey}
  PROVE  LET r == ThresholdSignatureRequestIdCounter + 1
         IN /\ SigningInv'
            /\ r \in Requests /\ ThresholdSignatureRequestIdCounter' = r
            /\ r \notin Unanswered /\ Unanswered' = Unanswered \cup {r}
            /\ Carrier'[r] = [i EXCEPT !.request_id = r]
            /\ \A s \in Unanswered : Carrier'[s] = Carrier[s]
<1> DEFINE r == ThresholdSignatureRequestIdCounter + 1
           j == [i EXCEPT !.request_id = r]
<1>1. /\ CoreInv'
      /\ r \in Requests /\ ThresholdSignatureRequestIdCounter' = r
      /\ r \notin Unanswered /\ Unanswered' = Unanswered \cup {r}
      /\ Carrier'[r] = j
      /\ \A s \in Unanswered : Carrier'[s] = Carrier[s]
  BY CoreAsk DEF SigningInv
<1>2. j \in RequestInstruction
  BY <1>1 DEF RequestInstruction
<1>3. new_ceremony_attempt(j, PendingCeremonies, PendingRequestInstructions)
  BY DEF inner_request_signature
<1>4. /\ PendingCeremonies \in [Ceremonies -> CeremonyContext \cup {None}]
      /\ PendingRequestInstructions \in [Requests -> RequestInstruction \cup {None}]
      /\ CeremonyIdCounter \in 0..MaxCeremonies
  BY SigningTypes
<1> HIDE DEF j
<1>5. /\ CeremonyRetryQueues' \in [Delays -> Seq(Ceremonies)]
      /\ RequestRetryQueue' \in [Delays -> Seq(Requests)]
  BY <1>2, <1>3, <1>4, AttemptQueues DEF SigningInv
<1>6. QueueType'
  BY <1>5 DEF QueueType, SigningInv
<1> QED BY <1>1, <1>6 DEF SigningInv, j

\* What an answer does to requests: one of them, which only fails if it is a key
\* verification, gets a result.
Answers(r, result) ==
  /\ r \in Unanswered /\ result \in Results
  /\ \/ result.status = "Ok"
     \/ result.status = "Err" /\ Carrier[r].type = "KeygenVerification"
  /\ maybe_dispatch_callback(r, result)
  /\ Unanswered' = Unanswered \ {r}
  /\ \A s \in Unanswered' : Carrier'[s] = Carrier[s]
  /\ UNCHANGED ThresholdSignatureRequestIdCounter

LEMMA SuccessStep ==
  ASSUME SigningInv, NEW c \in Ceremonies, signature_success(c)
  PROVE  SigningInv' /\ \E r \in Requests : Answers(r, Result("Ok", {}))
<1> DEFINE r == PendingCeremonies[c].instruction.request_id
           result == Result("Ok", {})
<1>1. /\ PendingCeremonies[c] # None
      /\ PendingCeremonies' = [PendingCeremonies EXCEPT ![c] = None]
      /\ PendingRequestInstructions' = [PendingRequestInstructions EXCEPT ![r] = None]
      /\ maybe_dispatch_callback(r, result)
      /\ UNCHANGED <<counters, queues, ThresholdSignatureResponseTimeout, active_key,
                     retrying, rerequesting>>
  BY DEF signature_success
<1>2. /\ PendingRequestInstructions \in [Requests -> RequestInstruction \cup {None}]
      /\ PendingRequestInstructions[r] = None
      /\ r \in Requests
  BY <1>1, SigningTypes, CeremonyFacts
<1>3. UNCHANGED PendingRequestInstructions
  BY <1>1, <1>2
<1>4. result \in Results /\ result.status = "Ok"
  BY DEF Result, Results
<1> HIDE DEF result
<1>5. /\ CoreInv'
      /\ r \in Unanswered /\ Unanswered' = Unanswered \ {r}
      /\ \A s \in Unanswered' : Carrier'[s] = Carrier[s]
  BY <1>1, <1>3, <1>4, CoreAnswer, Zenon DEF SigningInv
<1>6. QueueType'
  BY <1>1 DEF SigningInv, QueueType, queues
<1>7. Answers(r, result)
  BY Zenon, <1>1, <1>4, <1>5 DEF Answers, counters
<1> QED BY <1>2, <1>5, <1>6, <1>7 DEF SigningInv, result

LEMMA FailureStep ==
  ASSUME SigningInv, VerificationFailed
  PROVE  SigningInv' /\ \E r \in Requests, o \in SUBSET Validators : Answers(r, Result("Err", o))
<1> DEFINE c == Head(retrying)
           context == PendingCeremonies[c]
           r == context.instruction.request_id
           o == offenders(context)
           result == Result("Err", o)
<1>1. c \in Ceremonies /\ Tail(retrying) \in Seq(Ceremonies)
  BY RangeHeadTail DEF SigningInv, QueueType, VerificationFailed
<1>2. /\ PendingCeremonies[c] # None
      /\ context.instruction.type = "KeygenVerification"
      /\ maybe_dispatch_callback(r, result)
      /\ PendingCeremonies' = [PendingCeremonies EXCEPT ![c] = None]
      /\ retrying' = Tail(retrying)
      /\ UNCHANGED <<counters, PendingRequestInstructions, queues,
                     ThresholdSignatureResponseTimeout, active_key, rerequesting>>
  BY DEF VerificationFailed
<1> HIDE DEF c
<1>3. context \in CeremonyContext
  BY <1>1, <1>2, CeremonyFacts
<1>4. o \in SUBSET Validators
  <2> DEFINE n == Cardinality(context.candidates)
             to_report == {v \in Validators : context.blame_counts[v] > (2 * n) \div 3}
                            \cup context.remaining_respondents
  <2>1. to_report \in SUBSET Validators
    BY <1>3 DEF CeremonyContext
  <2>2. o = IF Cardinality(to_report) <= n \div 2 THEN to_report ELSE {}
    BY DEF offenders
  <2> HIDE DEF to_report, n, o
  <2> QED BY <2>1, <2>2
<1>5. result \in Results /\ result.status = "Err"
  BY <1>4 DEF Result, Results
<1> HIDE DEF result, o
<1>6. /\ CoreInv'
      /\ r \in Unanswered /\ Unanswered' = Unanswered \ {r}
      /\ context.instruction = Carrier[r]
      /\ \A s \in Unanswered' : Carrier'[s] = Carrier[s]
  BY <1>1, <1>2, <1>5, CoreAnswer, Zenon DEF SigningInv
<1>7. QueueType'
  BY <1>1, <1>2 DEF SigningInv, QueueType, queues, c
<1>8. Answers(r, result)
  <2>1. Carrier[r].type = "KeygenVerification"
    BY <1>2, <1>6
  <2> QED BY <1>2, <1>5, <1>6, <2>1 DEF Answers, counters
<1>9. r \in Requests
  BY <1>6 DEF Unanswered
<1> QED BY <1>4, <1>6, <1>7, <1>8, <1>9 DEF SigningInv, result
===============================================================================
