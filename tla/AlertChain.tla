------------------------------ MODULE AlertChain ------------------------------
(***************************************************************************)
(* Middleware composed as the constructors are meant to be: a cache        *)
(* dispatcher around a label dispatcher around an EnrichDispatcher around  *)
(* a Transformer around the Dispatcher that POSTs, which asks a Limiter    *)
(* first.  Several goroutines send at once, with notifications that share  *)
(* one label map as the copies a FanoutDispatcher makes do.                *)
(*                                                                         *)
(* A label map is the set of its keys.  Time passes between any two steps. *)
(***************************************************************************)
EXTENDS Integers

CONSTANTS Keys,       \* cacheKey(n)
          Callers,    \* goroutines that send
          TTL,        \* CachePolicy.TTL
          Cooldown,   \* the Limiter's Policy.Cooldown
          Shared,     \* not a caller: names the map that the callers' notifications share
          MaxTime     \* bound of the model

VARIABLES
  now,        \* the clock
  expiresAt,  \* the cache: per key when its entry expires, or Never
  last,       \* the Limiter: per key when it was last let through, or Never
  labels,     \* the label maps: the shared one and, by caller, its clone
  pc,         \* per caller: idle, or what its Send does next: lookup, label,
              \* enrich, transform, allow, post, record
  sending,    \* per caller: the key it sends or sent last
  map,        \* per caller: the map its notification refers to
  answer,     \* per caller: what its last Send answered, nil or error
  since,      \* history, per caller: when its Send has looked into the cache
  before,     \* history, per caller: delivered[its key] at that time
  delivered,  \* history, per key: when a Send that delivered it returned last,
              \* or Never (again after a Reset of the cache)
  posts       \* history, per key: how often it was POSTed

vars == <<now, expiresAt, last, labels, pc, sending, map, answer, since, before,
          delivered, posts>>
chain == <<expiresAt, last, labels>>
history == <<since, before, delivered, posts>>

Limiter == INSTANCE CooldownGate WITH Window <- Cooldown
Never == Limiter!Never

GivenLabels == {"team", "Cookie"}   \* of the notification
PolicyLabels == {"env"}             \* the Labeler's
StaticLabels == {"site"}            \* the Enricher's
AddLabels == {"via"}                \* the Transformer's
Sensitive == {"Authorization", "Cookie", "Set-Cookie"}

Init ==
  /\ now = 0
  /\ expiresAt = [k \in Keys |-> Never] /\ Limiter!Init
  /\ labels = [m \in Callers \cup {Shared} |-> IF m = Shared THEN GivenLabels ELSE {}]
  /\ pc = [c \in Callers |-> "idle"]
  /\ \E k \in Keys : sending = [c \in Callers |-> k]
  /\ map = [c \in Callers |-> Shared] /\ answer = [c \in Callers |-> "nil"]
  /\ since = [c \in Callers |-> 0] /\ before = [c \in Callers |-> Never]
  /\ delivered = [k \in Keys |-> Never] /\ posts = [k \in Keys |-> 0]

Hit(k) == expiresAt[k] # Never /\ now <= expiresAt[k]

Goes(c, from, to) == pc[c] = from /\ pc' = [pc EXCEPT ![c] = to]
Answers(c, from, e) == Goes(c, from, "idle") /\ answer' = [answer EXCEPT ![c] = e]

Send(c, k) ==
  /\ Goes(c, "idle", "lookup")
  /\ sending' = [sending EXCEPT ![c] = k]
  /\ map' = [map EXCEPT ![c] = Shared]
  /\ UNCHANGED <<now, chain, answer, history>>

(* cacheDispatcher.Send: a hit is answered nil, a miss is sent on.         *)
Lookup(c) ==
  LET k == sending[c] IN
  /\ \/ Hit(k) /\ Answers(c, "lookup", "nil") /\ UNCHANGED expiresAt
     \/ /\ ~Hit(k) /\ Goes(c, "lookup", "label")
        /\ expiresAt' = [expiresAt EXCEPT ![k] = Never]
        /\ UNCHANGED answer
  /\ since' = [since EXCEPT ![c] = now]
  /\ before' = [before EXCEPT ![c] = delivered[k]]
  /\ UNCHANGED <<now, last, labels, sending, map, delivered, posts>>

NoClone(c) == map[c]
CloneFor(c) == c

(* labelDispatcher.Send clones the map, and Apply adds what it lacks.      *)
ApplyLabels(c) ==
  LET m == CloneFor(c) IN
  /\ Goes(c, "label", "enrich")
  /\ labels' = [labels EXCEPT ![m] = labels[map[c]] \cup PolicyLabels]
  /\ map' = [map EXCEPT ![c] = m]
  /\ UNCHANGED <<now, expiresAt, last, sending, answer, history>>

(* Enrich writes into the map it is given.                                 *)
Enrich(c) ==
  /\ Goes(c, "enrich", "transform")
  /\ labels' = [labels EXCEPT ![map[c]] = @ \cup StaticLabels]
  /\ UNCHANGED <<now, expiresAt, last, sending, map, answer, history>>

(* So does Transformer.apply, which also deletes sensitive labels.         *)
Transform(c) ==
  /\ Goes(c, "transform", "allow")
  /\ labels' = [labels EXCEPT ![map[c]] = (@ \cup AddLabels) \ Sensitive]
  /\ UNCHANGED <<now, expiresAt, last, sending, map, answer, history>>

Allowed(k) == Limiter!Open(k)

(* Dispatcher.Send: the cooldown starts before the POST.                   *)
Allow(c) ==
  LET k == sending[c] IN
  /\ \/ Allowed(k) /\ Goes(c, "allow", "post") /\ UNCHANGED answer
     \/ ~Allowed(k) /\ Answers(c, "allow", "error")
  /\ Limiter!Allow(k)
  /\ UNCHANGED <<now, expiresAt, labels, sending, map, history>>

Post(c) ==
  /\ posts' = [posts EXCEPT ![sending[c]] = @ + 1]
  /\ \/ Goes(c, "post", "record") /\ UNCHANGED answer
     \/ Answers(c, "post", "error")
  /\ UNCHANGED <<now, chain, sending, map, since, before, delivered>>

RecordedForGood(k) == expiresAt
Recorded(k) == [expiresAt EXCEPT ![k] = now + TTL]

(* Only what was delivered is recorded in the cache.                       *)
Record(c) ==
  /\ Answers(c, "record", "nil")
  /\ expiresAt' = Recorded(sending[c])
  /\ delivered' = [delivered EXCEPT ![sending[c]] = now]
  /\ UNCHANGED <<now, last, labels, sending, map, since, before, posts>>

(* ResponseCache.Reset.                                                    *)
ResetCache ==
  /\ expiresAt' = [k \in Keys |-> Never]
  /\ delivered' = [k \in Keys |-> Never]
  /\ UNCHANGED <<now, last, labels, pc, sending, map, answer, since, before, posts>>

Tick ==
  /\ now < MaxTime /\ now' = now + 1
  /\ UNCHANGED <<chain, pc, sending, map, answer, history>>

SendSteps(c) ==
  \/ Lookup(c) \/ ApplyLabels(c) \/ Enrich(c) \/ Transform(c)
  \/ Allow(c) \/ Post(c) \/ Record(c)

Next ==
  \/ \E c \in Callers : SendSteps(c) \/ \E k \in Keys : Send(c, k)
  \/ ResetCache \/ Tick

Spec == Init /\ [][Next]_vars

-----------------------------------------------------------------------------
Times == 0 .. MaxTime + TTL

TypeOK ==
  /\ now \in 0 .. MaxTime
  /\ expiresAt \in [Keys -> Times \cup {Never}] /\ last \in [Keys -> Times \cup {Never}]
  /\ labels \in [Callers \cup {Shared} ->
                   SUBSET (GivenLabels \cup PolicyLabels \cup StaticLabels \cup AddLabels)]
  /\ pc \in [Callers -> {"idle", "lookup", "label", "enrich", "transform", "allow",
                          "post", "record"}]
  /\ sending \in [Callers -> Keys] /\ map \in [Callers -> Callers \cup {Shared}]
  /\ answer \in [Callers -> {"nil", "error"}]
  /\ since \in [Callers -> Times] /\ before \in [Callers -> Times \cup {Never}]
  /\ delivered \in [Keys -> Times \cup {Never}] /\ posts \in [Keys -> Nat]

(* A Send answers nil only for what it has delivered itself, or what a     *)
(* Send that returned at most TTL earlier has: never after a POST that     *)
(* failed, though its cooldown suppresses the retry.  And what is POSTed   *)
(* was not delivered within the TTL by a Send that had returned before     *)
(* this one looked into the cache: only Sends that overlap repeat it.      *)
NilMeansDelivered ==
  [][\A c \in Callers :
       /\ pc[c] # "idle" /\ pc'[c] = "idle" /\ answer'[c] = "nil" =>
            \/ pc[c] = "record"
            \/ delivered[sending[c]] # Never /\ now - delivered[sending[c]] <= TTL
       /\ pc[c] = "post" /\ pc'[c] # "post" =>
            before[c] = Never \/ since[c] - before[c] > TTL]_vars

(* However many Sends miss the cache at once, a key is POSTed at most once *)
(* per cooldown.                                                           *)
PostsRationed == \A k \in Keys : posts[k] <= 1 + now \div Cooldown

(* The map the callers share is never written, and no two Sends ever write *)
(* the same one, though Enrich and Transform write into what they are      *)
(* given; what is POSTed has the labels of the notification and of all the *)
(* policies, and none that is sensitive.                                   *)
SharedMapUntouched ==
  /\ labels[Shared] = GivenLabels
  /\ \A c \in Callers : pc[c] \in {"enrich", "transform", "allow", "post"} => map[c] = c
  /\ \A c \in Callers : pc[c] = "post" =>
       labels[map[c]] =
         (GivenLabels \cup PolicyLabels \cup StaticLabels \cup AddLabels) \ Sensitive
=============================================================================
