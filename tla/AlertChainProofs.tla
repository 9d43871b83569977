-------------------------- MODULE AlertChainProofs --------------------------
(* The chain of cache, labels and limiter answers truthfully and never     *)
(* writes its callers' label map, for any number of concurrent callers and *)
(* of keys, any TTL and any cooldown.                                      *)
EXTENDS AlertChain, FiniteSetTheorems, TLAPS

(* The constants as the code gives them: a duration that is not negative,  *)
(* and a name for the shared map that is no caller's.                      *)
ConstantsOK == TTL \in Nat /\ MaxTime \in Nat /\ Shared \notin Callers

Places == {"idle", "lookup", "label", "enrich", "transform", "allow", "post", "record"}

(* While something delivered lives in the cache its entry expires TTL      *)
(* later; without an entry, more than TTL has passed.                      *)
CacheFollows ==
  \A k \in Keys :
    /\ delivered[k] = Never => expiresAt[k] = Never
    /\ delivered[k] # Never =>
         \/ expiresAt[k] = delivered[k] + TTL
         \/ expiresAt[k] = Never /\ now - delivered[k] > TTL

(* A Send past the cache found nothing delivered within the TTL.           *)
MissJustified ==
  \A c \in Callers : pc[c] \notin {"idle", "lookup"} =>
    before[c] = Never \/ since[c] - before[c] > TTL

(* Which map a Send refers to, and what it has put into it so far.         *)
MapAndLabels(c) ==
  /\ pc[c] \in {"lookup", "label"} => map[c] = Shared
  /\ pc[c] \in {"enrich", "transform", "allow", "post"} => map[c] = c
  /\ pc[c] = "enrich" => labels[c] = GivenLabels \cup PolicyLabels
  /\ pc[c] = "transform" => labels[c] = GivenLabels \cup PolicyLabels \cup StaticLabels
  /\ pc[c] \in {"allow", "post"} =>
       labels[c] =
         (GivenLabels \cup PolicyLabels \cup StaticLabels \cup AddLabels) \ Sensitive

MapsPrivate == labels[Shared] = GivenLabels /\ \A c \in Callers : MapAndLabels(c)

Known == GivenLabels \cup PolicyLabels \cup StaticLabels \cup AddLabels

(* TypeOK by parts: what the cache and the clock are, and what a Send is.  *)
CacheTyped ==
  /\ now \in 0 .. MaxTime
  /\ expiresAt \in [Keys -> Times \cup {Never}]
  /\ delivered \in [Keys -> Times \cup {Never}]
  /\ since \in [Callers -> Times] /\ before \in [Callers -> Times \cup {Never}]
SendTyped ==
  /\ labels \in [Callers \cup {Shared} -> SUBSET Known]
  /\ pc \in [Callers -> Places]
  /\ sending \in [Callers -> Keys] /\ map \in [Callers -> Callers \cup {Shared}]
  /\ answer \in [Callers -> {"nil", "error"}]
GateTyped == last \in [Keys -> Times \cup {Never}] /\ posts \in [Keys -> Nat]

IInv == CacheTyped /\ SendTyped /\ GateTyped /\ CacheFollows /\ MissJustified /\ MapsPrivate

(* No time of the clock is Never.                                          *)
LEMMA NeverIsNoTime == Never = -1
BY DEF Never, Limiter!Never

(* The times that can be written down.                                     *)
LEMMA TimesAreNat ==
  ASSUME ConstantsOK
  PROVE  /\ Times \subseteq Nat /\ 0 .. MaxTime \subseteq Times
         /\ \A t \in 0 .. MaxTime : t + TTL \in Times
BY DEF ConstantsOK, Times

(* One step of a Send moves that Send alone.                               *)
LEMMA GoesAlone ==
  ASSUME SendTyped, NEW c \in Callers, NEW from, NEW to \in Places, Goes(c, from, to)
  PROVE  /\ pc[c] = from /\ pc'[c] = to /\ pc' \in [Callers -> Places]
         /\ \A e \in Callers : e # c => pc'[e] = pc[e]
BY DEF SendTyped, Goes

(* At the start nothing is cached and nobody sends.                        *)
LEMMA InitHolds == ConstantsOK /\ Init => IInv
<1>. SUFFICES ASSUME ConstantsOK, Init PROVE IInv
  OBVIOUS
<1>1. 0 \in Times /\ 0 \in 0 .. MaxTime
  BY DEF ConstantsOK, Times
<1>2. CacheTyped
  BY <1>1 DEF Init, CacheTyped
<1>3. SendTyped
  BY DEF Init, SendTyped, Places, Known
<1>4. GateTyped
  BY <1>1 DEF Init, GateTyped, Limiter!Init, Never
<1>5. CacheFollows /\ MissJustified
  BY DEF Init, CacheFollows, MissJustified
<1>6. MapsPrivate
  BY DEF Init, MapsPrivate, MapAndLabels
<1>. QED
  BY <1>2, <1>3, <1>4, <1>5, <1>6 DEF IInv

(* The steps of a Send after its look into the cache.                      *)
Later(c) == ApplyLabels(c) \/ Enrich(c) \/ Transform(c) \/ Allow(c) \/ Post(c)

(* All they do to pc and answer.                                           *)
LEMMA LaterMoves ==
  ASSUME SendTyped, NEW c \in Callers, Later(c)
  PROVE  /\ pc' \in [Callers -> Places] /\ pc[c] \notin {"idle", "lookup"}
         /\ pc'[c] = "idle" => answer'[c] = "error"
         /\ answer' \in [Callers -> {"nil", "error"}]
         /\ \A e \in Callers : e # c => pc'[e] = pc[e] /\ answer'[e] = answer[e]
         /\ UNCHANGED <<now, expiresAt, sending, since, before, delivered>>
<1>1. /\ pc \in [Callers -> Places] /\ answer \in [Callers -> {"nil", "error"}]
      /\ "label" \in Places /\ "enrich" \in Places /\ "transform" \in Places
      /\ "allow" \in Places /\ "post" \in Places /\ "record" \in Places /\ "idle" \in Places
  BY DEF SendTyped, Places
<1>2. CASE ApplyLabels(c)
  BY <1>1, <1>2 DEF ApplyLabels, Goes, history
<1>3. CASE Enrich(c)
  BY <1>1, <1>3 DEF Enrich, Goes, history
<1>4. CASE Transform(c)
  BY <1>1, <1>4 DEF Transform, Goes, history
<1>5. CASE Allow(c)
  BY <1>1, <1>5 DEF Allow, Goes, Answers, history
<1>6. CASE Post(c)
  BY <1>1, <1>6 DEF Post, Goes, Answers, chain
<1>. QED
  BY <1>2, <1>3, <1>4, <1>5, <1>6 DEF Later

(* Every step keeps what is said of the cache and of those past it.        *)
LEMMA CacheStep ==
  ASSUME ConstantsOK, IInv, [Next]_vars
  PROVE  CacheTyped' /\ CacheFollows' /\ MissJustified'
<1>1. CacheTyped /\ SendTyped /\ CacheFollows /\ MissJustified
  BY DEF IInv
<1>2. /\ now \in Times /\ now \in Nat /\ TTL \in Nat /\ Never = -1 /\ Times \subseteq Nat
      /\ now + TTL \in Times
  BY <1>1, TimesAreNat, NeverIsNoTime DEF CacheTyped, ConstantsOK
<1>3. CASE UNCHANGED vars
  BY <1>1, <1>3 DEF vars, CacheTyped, CacheFollows, MissJustified, Times
<1>4. ASSUME NEW c \in Callers, NEW k \in Keys, Send(c, k)
      PROVE  CacheTyped' /\ CacheFollows' /\ MissJustified'
  <2>1. UNCHANGED <<now, expiresAt, since, before, delivered>>
    BY <1>4 DEF Send, chain, history
  <2>2. pc'[c] = "lookup" /\ \A e \in Callers : e # c => pc'[e] = pc[e]
    BY <1>1, <1>4 DEF Send, Goes, SendTyped
  <2>. QED
    BY <1>1, <2>1, <2>2 DEF CacheTyped, CacheFollows, MissJustified, Times
<1>5. ASSUME NEW c \in Callers, Lookup(c)
      PROVE  CacheTyped' /\ CacheFollows' /\ MissJustified'
  <2>. DEFINE k == sending[c]
  <2>1. k \in Keys
    BY <1>1 DEF SendTyped
  <2>2. /\ now' = now /\ delivered' = delivered
        /\ since' = [since EXCEPT ![c] = now]
        /\ before' = [before EXCEPT ![c] = delivered[k]]
        /\ \A e \in Callers : e # c => pc'[e] = pc[e]
    BY <1>1, <1>5 DEF Lookup, Goes, Answers, SendTyped
  <2>3. \/ pc'[c] = "idle" /\ expiresAt' = expiresAt
        \/ ~Hit(k) /\ expiresAt' = [expiresAt EXCEPT ![k] = Never]
    BY <1>1, <1>5 DEF Lookup, Goes, Answers, SendTyped
  <2>4. CacheTyped'
    BY <1>1, <1>2, <2>1, <2>2, <2>3 DEF CacheTyped, Times
  <2>5. /\ expiresAt[k] \in Nat \cup {Never} /\ delivered[k] \in Nat \cup {Never}
    BY <1>1, <1>2, <2>1 DEF CacheTyped
  <2>6. ~Hit(k) => delivered[k] = Never \/ now - delivered[k] > TTL
    BY <1>1, <1>2, <2>1, <2>5 DEF CacheFollows, Hit
  <2>7. CacheFollows'
    BY <1>1, <2>1, <2>2, <2>3, <2>6 DEF CacheFollows, CacheTyped
  <2>8. MissJustified'
    <3>1. /\ since'[c] = now /\ before'[c] = delivered[k]
          /\ \A e \in Callers : e # c => since'[e] = since[e] /\ before'[e] = before[e]
      BY <1>1, <2>2 DEF CacheTyped
    <3>. QED
      BY <1>1, <2>2, <2>3, <2>6, <3>1 DEF MissJustified
  <2>. QED
    BY <2>4, <2>7, <2>8
<1>6. ASSUME NEW c \in Callers, Later(c)
      PROVE  CacheTyped' /\ CacheFollows' /\ MissJustified'
  <2>1. /\ UNCHANGED <<now, expiresAt, sending, since, before, delivered>>
        /\ pc[c] \notin {"idle", "lookup"}
        /\ \A e \in Callers : e # c => pc'[e] = pc[e]
    BY <1>1, <1>6, LaterMoves
  <2>. QED
    BY <1>1, <2>1 DEF CacheTyped, CacheFollows, MissJustified, Times
<1>7. ASSUME NEW c \in Callers, Record(c)
      PROVE  CacheTyped' /\ CacheFollows' /\ MissJustified'
  <2>. DEFINE k == sending[c]
  <2>1. k \in Keys
    BY <1>1 DEF SendTyped
  <2>2. /\ UNCHANGED <<now, since, before>>
        /\ expiresAt' = [expiresAt EXCEPT ![k] = now + TTL]
        /\ delivered' = [delivered EXCEPT ![k] = now]
        /\ pc'[c] = "idle" /\ \A e \in Callers : e # c => pc'[e] = pc[e]
    BY <1>1, <1>7 DEF Record, Recorded, Answers, Goes, SendTyped
  <2>3. CacheTyped'
    BY <1>1, <1>2, <2>1, <2>2 DEF CacheTyped, Times
  <2>4. CacheFollows'
    BY <1>1, <1>2, <2>1, <2>2 DEF CacheFollows, CacheTyped
  <2>5. MissJustified'
    BY <1>1, <2>2 DEF MissJustified
  <2>. QED
    BY <2>3, <2>4, <2>5
<1>8. CASE ResetCache
  <2>1. /\ UNCHANGED <<now, since, before, pc>>
        /\ expiresAt' = [k \in Keys |-> Never] /\ delivered' = [k \in Keys |-> Never]
    BY <1>8 DEF ResetCache
  <2>. QED
    BY <1>1, <2>1 DEF CacheTyped, CacheFollows, MissJustified, Times
<1>9. CASE Tick
  <2>1. /\ UNCHANGED <<expiresAt, delivered, since, before, pc>>
        /\ now' = now + 1 /\ now < MaxTime
    BY <1>9 DEF Tick, chain, history
  <2>2. CacheTyped' /\ MissJustified'
    BY <1>1, <1>2, <2>1 DEF CacheTyped, MissJustified, Times, ConstantsOK
  <2>3. CacheFollows'
    <3>1. \A k \in Keys : delivered[k] \in Nat \cup {Never}
      BY <1>1, <1>2 DEF CacheTyped
    <3>. QED
      BY <1>1, <1>2, <2>1, <3>1 DEF CacheFollows
  <2>. QED
    BY <2>2, <2>3
<1>. QED
  BY <1>3, <1>4, <1>5, <1>6, <1>7, <1>8, <1>9 DEF Next, SendSteps, Later

(* A Send that writes into its own map, and goes on, leaves the maps as    *)
(* the invariant wants them when it has put the right labels there.        *)
LEMMA WritesOwnMap ==
  ASSUME Shared \notin Callers, SendTyped, MapsPrivate, NEW c \in Callers,
         SendTyped', labels' = [labels EXCEPT ![c] = labels'[c]],
         \A e \in Callers : e # c => pc'[e] = pc[e] /\ map'[e] = map[e],
         MapAndLabels(c)'
  PROVE  MapsPrivate'
<1>1. labels'[Shared] = labels[Shared] /\ \A e \in Callers : e # c => labels'[e] = labels[e]
  BY DEF SendTyped
<1>. QED
  BY <1>1 DEF MapsPrivate, MapAndLabels

(* Every step keeps what is said of the label maps.                        *)
LEMMA MapsStep ==
  ASSUME ConstantsOK, IInv, [Next]_vars
  PROVE  SendTyped' /\ MapsPrivate'
<1>1. SendTyped /\ MapsPrivate /\ Shared \notin Callers
  BY DEF IInv, ConstantsOK
<1>2. ASSUME UNCHANGED <<labels, map, sending>>, NEW c \in Callers,
             SendTyped', \A e \in Callers : e # c => pc'[e] = pc[e],
             \/ pc'[c] \in {"idle", "record"}
             \/ pc[c] = "lookup" /\ pc'[c] = "label"
             \/ pc[c] = "allow" /\ pc'[c] = "post"
      PROVE  MapsPrivate'
  BY <1>1, <1>2 DEF MapsPrivate, MapAndLabels
<1>3. CASE UNCHANGED vars \/ ResetCache \/ Tick
  <2>1. UNCHANGED <<labels, map, sending, pc, answer>>
    BY <1>3 DEF vars, ResetCache, Tick, chain
  <2>. QED
    BY <1>1, <2>1 DEF SendTyped, MapsPrivate, MapAndLabels
<1>4. ASSUME NEW c \in Callers, NEW k \in Keys, Send(c, k)
      PROVE  SendTyped' /\ MapsPrivate'
  <2>1. /\ labels' = labels /\ pc'[c] = "lookup" /\ map'[c] = Shared
        /\ \A e \in Callers : e # c => pc'[e] = pc[e] /\ map'[e] = map[e]
    BY <1>1, <1>4 DEF Send, Goes, SendTyped, chain
  <2>2. SendTyped'
    BY <1>1, <1>4 DEF Send, Goes, SendTyped, chain, Places
  <2>. QED
    BY <1>1, <2>1, <2>2 DEF MapsPrivate, MapAndLabels
<1>5. ASSUME NEW c \in Callers, Lookup(c)
      PROVE  SendTyped' /\ MapsPrivate'
  <2>1. /\ UNCHANGED <<labels, map, sending>> /\ pc[c] = "lookup" /\ pc'[c] \in {"idle", "label"}
        /\ \A e \in Callers : e # c => pc'[e] = pc[e]
    BY <1>1, <1>5 DEF Lookup, Goes, Answers, SendTyped
  <2>2. SendTyped'
    BY <1>1, <1>5, <2>1 DEF Lookup, Goes, Answers, SendTyped, Places
  <2>. QED
    BY <1>2, <2>1, <2>2
<1>6. ASSUME NEW c \in Callers, ApplyLabels(c)
      PROVE  SendTyped' /\ MapsPrivate'
  <2>1. /\ labels' = [labels EXCEPT ![c] = GivenLabels \cup PolicyLabels]
        /\ map' = [map EXCEPT ![c] = c] /\ pc' = [pc EXCEPT ![c] = "enrich"]
        /\ UNCHANGED <<sending, answer>>
    <3>1. map[c] = Shared /\ labels[Shared] = GivenLabels
      BY <1>1, <1>6 DEF ApplyLabels, Goes, MapsPrivate, MapAndLabels
    <3>. QED
      BY <1>6, <3>1 DEF ApplyLabels, CloneFor, Goes
  <2>2. SendTyped'
    BY <1>1, <2>1 DEF SendTyped, Places, Known
  <2>3. MapAndLabels(c)' /\ labels' = [labels EXCEPT ![c] = labels'[c]]
    BY <1>1, <2>1 DEF SendTyped, MapAndLabels
  <2>4. \A e \in Callers : e # c => pc'[e] = pc[e] /\ map'[e] = map[e]
    BY <1>1, <2>1 DEF SendTyped
  <2>. QED
    BY <1>1, <2>2, <2>3, <2>4, WritesOwnMap
<1>7. ASSUME NEW c \in Callers, Enrich(c)
      PROVE  SendTyped' /\ MapsPrivate'
  <2>1. /\ labels' = [labels EXCEPT ![c] = GivenLabels \cup PolicyLabels \cup StaticLabels]
        /\ map' = map /\ map[c] = c /\ pc' = [pc EXCEPT ![c] = "transform"]
        /\ UNCHANGED <<sending, answer>>
    <3>1. map[c] = c /\ labels[c] = GivenLabels \cup PolicyLabels
      BY <1>1, <1>7 DEF Enrich, Goes, MapsPrivate, MapAndLabels
    <3>. QED
      BY <1>1, <1>7, <3>1 DEF Enrich, Goes, SendTyped
  <2>2. SendTyped'
    BY <1>1, <2>1 DEF SendTyped, Places, Known
  <2>3. MapAndLabels(c)' /\ labels' = [labels EXCEPT ![c] = labels'[c]]
    BY <1>1, <2>1 DEF SendTyped, MapAndLabels
  <2>4. \A e \in Callers : e # c => pc'[e] = pc[e] /\ map'[e] = map[e]
    BY <1>1, <2>1 DEF SendTyped
  <2>. QED
    BY <1>1, <2>2, <2>3, <2>4, WritesOwnMap
<1>8. ASSUME NEW c \in Callers, Transform(c)
      PROVE  SendTyped' /\ MapsPrivate'
  <2>1. /\ labels' = [labels EXCEPT ![c] =
             (GivenLabels \cup PolicyLabels \cup StaticLabels \cup AddLabels) \ Sensitive]
        /\ map' = map /\ map[c] = c /\ pc' = [pc EXCEPT ![c] = "allow"]
        /\ UNCHANGED <<sending, answer>>
    <3>1. map[c] = c /\ labels[c] = GivenLabels \cup PolicyLabels \cup StaticLabels
      BY <1>1, <1>8 DEF Transform, Goes, MapsPrivate, MapAndLabels
    <3>. QED
      BY <1>1, <1>8, <3>1 DEF Transform, Goes, SendTyped
  <2>2. SendTyped'
    BY <1>1, <2>1 DEF SendTyped, Places, Known
  <2>3. MapAndLabels(c)' /\ labels' = [labels EXCEPT ![c] = labels'[c]]
    BY <1>1, <2>1 DEF SendTyped, MapAndLabels
  <2>4. \A e \in Callers : e # c => pc'[e] = pc[e] /\ map'[e] = map[e]
    BY <1>1, <2>1 DEF SendTyped
  <2>. QED
    BY <1>1, <2>2, <2>3, <2>4, WritesOwnMap
<1>9. ASSUME NEW c \in Callers, Allow(c) \/ Post(c) \/ Record(c)
      PROVE  SendTyped' /\ MapsPrivate'
  <2>1. /\ UNCHANGED <<labels, map, sending>>
        /\ \/ pc'[c] \in {"idle", "record"}
           \/ pc[c] = "allow" /\ pc'[c] = "post"
        /\ \A e \in Callers : e # c => pc'[e] = pc[e]
    BY <1>1, <1>9 DEF Allow, Post, Record, Goes, Answers, SendTyped, chain
  <2>2. SendTyped'
    BY <1>1, <1>9, <2>1 DEF Allow, Post, Record, Goes, Answers, SendTyped, Places
  <2>. QED
    BY <1>2, <2>1, <2>2
<1>. QED
  BY <1>3, <1>4, <1>5, <1>6, <1>7, <1>8, <1>9 DEF Next, SendSteps

(* Every step keeps the types of the Limiter and of the count of POSTs.    *)
LEMMA GateStep ==
  ASSUME ConstantsOK, IInv, [Next]_vars
  PROVE  GateTyped'
<1>1. GateTyped /\ now \in Times /\ \A c \in Callers : sending[c] \in Keys
  BY TimesAreNat DEF IInv, CacheTyped, SendTyped
<1>2. CASE UNCHANGED <<last, posts>>
  BY <1>1, <1>2 DEF GateTyped, Times
<1>3. ASSUME NEW c \in Callers, Allow(c) PROVE GateTyped'
  <2>1. UNCHANGED posts /\ last' \in {last, [last EXCEPT ![sending[c]] = now]}
    BY <1>3 DEF Allow, Limiter!Allow, history
  <2>. QED
    BY <1>1, <2>1 DEF GateTyped, Times
<1>4. ASSUME NEW c \in Callers, Post(c) PROVE GateTyped'
  <2>1. UNCHANGED last /\ posts' = [posts EXCEPT ![sending[c]] = @ + 1]
    BY <1>4 DEF Post, chain
  <2>. QED
    BY <1>1, <2>1 DEF GateTyped, Times
<1>5. UNCHANGED <<last, posts>> \/ \E c \in Callers : Allow(c) \/ Post(c)
  BY DEF Next, SendSteps, vars, Send, Lookup, ApplyLabels, Enrich, Transform, Record,
         ResetCache, Tick, chain, history
<1>. QED
  BY <1>2, <1>3, <1>4, <1>5

(* The invariant of the chain.                                             *)
THEOREM Inductive == ASSUME ConstantsOK PROVE Spec => []IInv
<1>1. Init => IInv
  BY InitHolds
<1>2. IInv /\ [Next]_vars => IInv'
  BY CacheStep, MapsStep, GateStep DEF IInv
<1>. QED
  BY <1>1, <1>2, PTL DEF Spec

(* Every variable of the chain has its type.                               *)
THEOREM TypeCorrect == ASSUME ConstantsOK PROVE Spec => []TypeOK
<1>1. IInv => TypeOK
  BY DEF IInv, TypeOK, CacheTyped, SendTyped, GateTyped, Places, Known
<1>. QED
  BY <1>1, Inductive, PTL

(* Enrich and Transform write into the map they are given; yet the map     *)
(* that concurrent Sends share is never written, each writes its own, and  *)
(* what is POSTed carries every policy's labels and no sensitive one.      *)
THEOREM SharedMapSafe == ASSUME ConstantsOK PROVE Spec => []SharedMapUntouched
<1>1. IInv => SharedMapUntouched
  BY DEF IInv, MapsPrivate, MapAndLabels, SharedMapUntouched
<1>. QED
  BY <1>1, Inductive, PTL

(* A Send answers nil only for what was delivered, and POSTs only what was *)
(* not delivered within the TTL before it looked into the cache.           *)
THEOREM AnswersTrue == ASSUME ConstantsOK PROVE Spec => NilMeansDelivered
<1>. DEFINE Truthful(c) ==
       /\ pc[c] # "idle" /\ pc'[c] = "idle" /\ answer'[c] = "nil" =>
            \/ pc[c] = "record"
            \/ delivered[sending[c]] # Never /\ now - delivered[sending[c]] <= TTL
       /\ pc[c] = "post" /\ pc'[c] # "post" =>
            before[c] = Never \/ since[c] - before[c] > TTL
<1>1. ASSUME IInv, Next, NEW c \in Callers PROVE Truthful(c)
  <2>1. CacheTyped /\ SendTyped /\ CacheFollows /\ MissJustified
    BY <1>1 DEF IInv
  <2>2. pc[c] = "post" => before[c] = Never \/ since[c] - before[c] > TTL
    BY <2>1 DEF MissJustified
  <2>3. CASE Lookup(c)
    <3>. DEFINE k == sending[c]
    <3>1. pc[c] = "lookup" /\ (pc'[c] = "idle" => Hit(k))
      BY <2>1, <2>3 DEF Lookup, Goes, Answers, SendTyped
    <3>2. /\ k \in Keys /\ TTL \in Nat /\ now \in Nat
          /\ delivered[k] \in Nat \cup {Never} /\ Never = -1
      BY <2>1, TimesAreNat, NeverIsNoTime DEF CacheTyped, SendTyped, ConstantsOK
    <3>3. Hit(k) => delivered[k] # Never /\ now - delivered[k] <= TTL
      BY <2>1, <3>2 DEF CacheFollows, Hit
    <3>. QED
      BY <3>1, <3>3
  <2>4. CASE Later(c)
    BY <2>1, <2>2, <2>4, LaterMoves
  <2>5. CASE Record(c)
    BY <2>5 DEF Record, Answers, Goes
  <2>6. CASE \E k \in Keys : Send(c, k)
    BY <2>6 DEF Send, Goes
  <2>7. CASE pc'[c] = pc[c]
    BY <2>2, <2>7
  <2>8. ASSUME NEW e \in Callers, e # c, SendSteps(e) \/ \E k \in Keys : Send(e, k)
        PROVE  pc'[c] = pc[c]
    <3>1. Later(e) => pc'[c] = pc[c]
      BY <2>1, <2>8, LaterMoves
    <3>2. Lookup(e) \/ Record(e) \/ (\E k \in Keys : Send(e, k)) => pc'[c] = pc[c]
      BY <2>1, <2>8 DEF Lookup, Record, Send, Answers, Goes, SendTyped
    <3>. QED
      BY <2>8, <3>1, <3>2 DEF SendSteps, Later
  <2>9. ResetCache \/ Tick => pc'[c] = pc[c]
    BY DEF ResetCache, Tick
  <2>. QED
    BY <1>1, <2>3, <2>4, <2>5, <2>6, <2>7, <2>8, <2>9 DEF Next, SendSteps, Later
<1>2. IInv /\ [Next]_vars => [\A c \in Callers : Truthful(c)]_vars
  BY <1>1
<1>. QED
  BY <1>2, Inductive, PTL DEF Spec, NilMeansDelivered

-----------------------------------------------------------------------------
(* A cooldown that is positive, and finitely many goroutines.              *)
RationOK == Cooldown \in Nat \ {0} /\ IsFiniteSet(Callers)

(* The Sends that the Limiter has let through for k and that are to POST.  *)
Pending(k) == {c \in Callers : pc[c] = "post" /\ sending[c] = k}
LetThrough(k) == posts[k] + Cardinality(Pending(k))

(* What the Limiter has let through for a key, POSTed or not, fits into    *)
(* the cooldowns up to the time when it let the last one through: a POST   *)
(* comes after the decision, when several may be pending.                  *)
Rationed ==
  \A k \in Keys :
    /\ last[k] = Never => LetThrough(k) = 0
    /\ last[k] # Never => last[k] <= now /\ (LetThrough(k) - 1) * Cooldown <= last[k]

(* Sets of callers can be counted.                                         *)
LEMMA PendingFacts ==
  ASSUME RationOK, NEW k
  PROVE  /\ IsFiniteSet(Pending(k)) /\ Cardinality(Pending(k)) \in Nat
         /\ IsFiniteSet(Pending(k)') /\ Cardinality(Pending(k)') \in Nat
<1>1. Pending(k) \subseteq Callers /\ Pending(k)' \subseteq Callers
  BY DEF Pending
<1>2. IsFiniteSet(Pending(k)) /\ IsFiniteSet(Pending(k)')
  BY <1>1, FS_Subset DEF RationOK
<1>. QED
  BY <1>2, FS_CardinalityType

(* Steps that neither let through nor POST.                                *)
LEMMA RationStays ==
  ASSUME ConstantsOK, IInv, Rationed, UNCHANGED <<last, posts>>,
         \A k \in Keys : Pending(k)' = Pending(k), now' \in Nat, now <= now'
  PROVE  Rationed'
<1>1. \A k \in Keys : LetThrough(k)' = LetThrough(k)
  BY DEF LetThrough
<1>2. now \in Nat /\ \A k \in Keys : last[k] \in Nat \cup {Never}
  BY TimesAreNat DEF IInv, CacheTyped, GateTyped, ConstantsOK
<1>3. Never' = Never
  BY DEF Never, Limiter!Never
<1>. QED
  BY <1>1, <1>2, <1>3 DEF Rationed

(* The Limiter lets a Send through, or refuses it.                         *)
LEMMA RationAllow ==
  ASSUME ConstantsOK, RationOK, IInv, Rationed, NEW c \in Callers, Allow(c)
  PROVE  Rationed'
<1>. DEFINE k == sending[c]
<1>0. /\ k \in Keys /\ now \in Nat /\ Never = -1 /\ Cooldown \in Nat \ {0} /\ now \in Times
      /\ \A q \in Keys : last[q] \in Nat \cup {Never} /\ posts[q] \in Nat
      /\ last \in [Keys -> Times \cup {Never}]
  BY NeverIsNoTime, TimesAreNat DEF IInv, CacheTyped, SendTyped, GateTyped, ConstantsOK, RationOK
<1>1. /\ UNCHANGED <<now, sending, posts>> /\ pc[c] = "allow"
      /\ \A e \in Callers : e # c => pc'[e] = pc[e]
      /\ \/ Allowed(k) /\ pc'[c] = "post" /\ last' = [last EXCEPT ![k] = now]
         \/ ~Allowed(k) /\ pc'[c] = "idle" /\ last' = last
  BY DEF Allow, Goes, Answers, Allowed, Limiter!Allow, IInv, SendTyped, history
<1>2. CASE ~Allowed(k)
  <2>1. \A q \in Keys : Pending(q)' = Pending(q)
    BY <1>1, <1>2 DEF Pending
  <2>. QED
    BY <1>0, <1>1, <1>2, <2>1, RationStays
<1>3. CASE Allowed(k)
  <2>1. Pending(k)' = Pending(k) \cup {c} /\ c \notin Pending(k)
    BY <1>1, <1>3 DEF Pending
  <2>2. \A q \in Keys : q # k => Pending(q)' = Pending(q)
    BY <1>1, <1>3 DEF Pending
  <2>3. /\ LetThrough(k)' = LetThrough(k) + 1 /\ LetThrough(k) \in Nat
        /\ \A q \in Keys : q # k => LetThrough(q)' = LetThrough(q)
    <3>1. Cardinality(Pending(k)') = Cardinality(Pending(k)) + 1
      BY <2>1, PendingFacts, FS_AddElement
    <3>2. posts'[k] = posts[k] /\ posts[k] \in Nat /\ Cardinality(Pending(k)) \in Nat
      BY <1>0, <1>1, PendingFacts
    <3>3. \A q \in Keys : q # k => LetThrough(q)' = LetThrough(q)
      BY <1>1, <2>2 DEF LetThrough
    <3>. QED
      BY <1>1, <3>1, <3>2, <3>3 DEF LetThrough
  <2>4. last'[k] = now /\ \A q \in Keys : q # k => last'[q] = last[q]
    BY <1>0, <1>1, <1>3
  <2>5. last[k] = Never \/ (last[k] \in Nat /\ now - last[k] >= Cooldown)
    BY <1>0, <1>3 DEF Allowed, Limiter!Open, Limiter!Within, Never
  <2>6. (LetThrough(k)' - 1) * Cooldown <= now
    <3>1. CASE last[k] = Never
      <4>1. LetThrough(k)' - 1 = 0 /\ 0 * Cooldown = 0
        BY <1>0, <2>3, <3>1 DEF Rationed
      <4>. QED
        BY <1>0, <4>1
    <3>2. CASE last[k] # Never
      <4>1. (LetThrough(k) - 1) * Cooldown <= last[k] /\ last[k] + Cooldown <= now
        BY <1>0, <2>5, <3>2 DEF Rationed
      <4>2. \A n \in Nat : n * Cooldown = (n - 1) * Cooldown + Cooldown /\ (n - 1) * Cooldown \in Int
        BY <1>0
      <4>3. LetThrough(k)' - 1 = LetThrough(k) /\ last[k] \in Nat
        BY <1>0, <2>3, <3>2
      <4>. QED
        BY <1>0, <2>3, <4>1, <4>2, <4>3
    <3>. QED
      BY <3>1, <3>2
  <2>7. Never' = Never /\ now # Never
    BY <1>0 DEF Never, Limiter!Never
  <2>. QED
    BY <1>0, <1>1, <2>3, <2>4, <2>6, <2>7 DEF Rationed
<1>. QED
  BY <1>2, <1>3

(* A pending Send POSTs: it is counted as before.                          *)
LEMMA RationPost ==
  ASSUME ConstantsOK, RationOK, IInv, Rationed, NEW c \in Callers, Post(c)
  PROVE  Rationed'
<1>. DEFINE k == sending[c]
<1>0. k \in Keys /\ posts \in [Keys -> Nat]
  BY DEF IInv, SendTyped, GateTyped
<1>1. /\ UNCHANGED <<now, sending, last>> /\ pc[c] = "post" /\ pc'[c] # "post"
      /\ \A e \in Callers : e # c => pc'[e] = pc[e]
      /\ posts' = [posts EXCEPT ![k] = @ + 1]
  BY DEF Post, Goes, Answers, IInv, SendTyped, chain
<1>2. Pending(k)' = Pending(k) \ {c} /\ c \in Pending(k)
  BY <1>1 DEF Pending
<1>3. \A q \in Keys : q # k => Pending(q)' = Pending(q)
  BY <1>1 DEF Pending
<1>4. \A q \in Keys : LetThrough(q)' = LetThrough(q)
  <2>1. Cardinality(Pending(k)') = Cardinality(Pending(k)) - 1 /\ Cardinality(Pending(k)) \in Nat
    BY <1>2, PendingFacts, FS_RemoveElement
  <2>2. posts'[k] = posts[k] + 1 /\ posts[k] \in Nat
    BY <1>0, <1>1
  <2>3. LetThrough(k)' = LetThrough(k)
    BY <1>1, <2>1, <2>2 DEF LetThrough
  <2>4. \A q \in Keys : q # k => LetThrough(q)' = LetThrough(q)
    BY <1>0, <1>1, <1>3 DEF LetThrough
  <2>. QED
    BY <1>0, <1>1, <2>3, <2>4
<1>5. Never' = Never
  BY DEF Never, Limiter!Never
<1>. QED
  BY <1>1, <1>4, <1>5 DEF Rationed

(* Every step keeps the ration.                                            *)
LEMMA RationStep ==
  ASSUME ConstantsOK, RationOK, IInv, Rationed, [Next]_vars
  PROVE  Rationed'
<1>0. now \in Nat /\ now' \in Nat
  BY CacheStep, TimesAreNat DEF IInv, CacheTyped, ConstantsOK
<1>1. ASSUME UNCHANGED <<last, posts, now>>, NEW c \in Callers,
             \A e \in Callers : e # c => pc'[e] = pc[e] /\ sending'[e] = sending[e],
             pc[c] # "post" /\ pc'[c] # "post"
      PROVE  Rationed'
  <2>1. \A k \in Keys : Pending(k)' = Pending(k)
    BY <1>1 DEF Pending
  <2>. QED
    BY <1>0, <1>1, <2>1, RationStays
<1>2. ASSUME NEW c \in Callers, NEW k \in Keys, Send(c, k) PROVE Rationed'
  BY <1>1, <1>2 DEF Send, Goes, IInv, SendTyped, chain, history
<1>3. ASSUME NEW c \in Callers,
             Lookup(c) \/ ApplyLabels(c) \/ Enrich(c) \/ Transform(c) \/ Record(c)
      PROVE  Rationed'
  <2>1. /\ UNCHANGED <<last, posts, now, sending>> /\ pc[c] # "post" /\ pc'[c] # "post"
        /\ \A e \in Callers : e # c => pc'[e] = pc[e]
    BY <1>3 DEF Lookup, ApplyLabels, Enrich, Transform, Record, Goes, Answers, IInv, SendTyped, history
  <2>. QED
    BY <1>1, <2>1
<1>4. CASE UNCHANGED vars \/ ResetCache \/ Tick
  <2>1. UNCHANGED <<last, posts, pc, sending>> /\ now <= now'
    BY <1>0, <1>4 DEF vars, ResetCache, Tick, chain, history
  <2>2. \A k \in Keys : Pending(k)' = Pending(k)
    BY <2>1 DEF Pending
  <2>. QED
    BY <1>0, <2>1, <2>2, RationStays
<1>. QED
  BY <1>2, <1>3, <1>4, RationAllow, RationPost DEF Next, SendSteps

(* At the start nothing has been let through.                              *)
LEMMA RationInit == ASSUME RationOK PROVE Init => Rationed
<1>. SUFFICES ASSUME Init PROVE Rationed
  OBVIOUS
<1>1. ASSUME NEW k \in Keys PROVE LetThrough(k) = 0
  <2>1. Pending(k) = {} /\ posts[k] = 0
    BY DEF Init, Pending
  <2>. QED
    BY <2>1, FS_EmptySet DEF LetThrough
<1>2. \A k \in Keys : last[k] = Never
  BY DEF Init, Limiter!Init, Never
<1>. QED
  BY <1>1, <1>2 DEF Rationed

(* However many Sends miss the cache at once, for any cooldown, a key is   *)
(* POSTed at most once per cooldown.                                       *)
THEOREM OncePerCooldown ==
  ASSUME ConstantsOK, RationOK PROVE Spec => []PostsRationed
<1>1. ASSUME IInv, Rationed, NEW k \in Keys PROVE posts[k] <= 1 + now \div Cooldown
  <2>0. /\ posts[k] \in Nat /\ now \in Nat /\ Cooldown \in Nat \ {0} /\ Never = -1
        /\ last[k] \in Nat \cup {Never} /\ Cardinality(Pending(k)) \in Nat
    BY <1>1, NeverIsNoTime, TimesAreNat, PendingFacts
       DEF IInv, CacheTyped, GateTyped, ConstantsOK, RationOK
  <2>1. LetThrough(k) \in Nat /\ posts[k] <= LetThrough(k)
    BY <2>0 DEF LetThrough
  <2>2. LetThrough(k) = 0 \/ (LetThrough(k) - 1) * Cooldown <= now
    <3>1. CASE last[k] = Never
      BY <1>1, <3>1 DEF Rationed
    <3>2. CASE last[k] # Never
      <4>1. (LetThrough(k) - 1) * Cooldown <= last[k] /\ last[k] <= now
        BY <1>1, <3>2 DEF Rationed
      <4>2. (LetThrough(k) - 1) * Cooldown \in Int /\ last[k] \in Int
        BY <2>0, <2>1, <3>2
      <4>. QED
        BY <2>0, <4>1, <4>2
    <3>. QED
      BY <3>1, <3>2
  <2>3. now \div Cooldown \in Nat /\ now < (now \div Cooldown + 1) * Cooldown
    BY <2>0
  <2>4. LetThrough(k) - 1 <= now \div Cooldown
    <3>1. CASE LetThrough(k) = 0
      BY <2>3, <3>1
    <3>2. CASE LetThrough(k) # 0
      <4>1. (LetThrough(k) - 1) * Cooldown < (now \div Cooldown + 1) * Cooldown
        BY <2>0, <2>1, <2>2, <2>3, <3>2
      <4>2. \A a, b \in Nat : a * Cooldown < b * Cooldown => a < b
        BY <2>0
      <4>3. LetThrough(k) - 1 \in Nat /\ now \div Cooldown + 1 \in Nat
        BY <2>1, <2>3, <3>2
      <4>. QED
        BY <2>3, <4>1, <4>2, <4>3
    <3>. QED
      BY <3>1, <3>2
  <2>. QED
    BY <2>0, <2>1, <2>3, <2>4
<1>2. IInv /\ Rationed => PostsRationed
  BY <1>1 DEF PostsRationed
<1>3. Init => Rationed
  BY RationInit
<1>4. IInv /\ Rationed /\ [Next]_vars => Rationed'
  BY RationStep
<1>. QED
  BY <1>2, <1>3, <1>4, Inductive, PTL DEF Spec
=============================================================================
