------------------------------ MODULE RateLimiter ------------------------------
(***************************************************************************)
(* The limiter of requests per client address, middleware/rate_limit.go:   *)
(* one token bucket per address, dropped when it was idle for long or when *)
(* the map is full.  allow() holds the mutex from end to end: a request is *)
(* one step.                                                               *)
(*                                                                         *)
(* Every client also has an account, a bucket of its own that nothing ever *)
(* drops.  It is history: the limiter is compared with it.                 *)
(*                                                                         *)
(* Time counts in ticks short enough for the clock of the server, and in a *)
(* unit in which the refill of one tick is a whole number of tokens.  The  *)
(* paths that are never limited (isExempt) are left out.                   *)
(***************************************************************************)
EXTENDS Integers, FiniteSets, Sequences

CONSTANTS
  Clients,       \* addresses that send requests of their own
  Proxies,       \* addresses listed in TRUSTED_PROXY_IPS
  Headers,       \* what X-Forwarded-For may hold before the first proxy
  Routes,        \* the proxies a request may pass, in order
  Capacity,      \* tokens in a full bucket
  Refill,        \* tokens that a tick adds
  IdleTimeout,   \* ticks after which an idle bucket may be dropped
  SweepEvery,    \* requests between two sweeps
  MaxEntries,    \* buckets that the map may hold
  NoBucket,      \* an address without a bucket
  MaxNow,        \* bound: ticks of the clock
  MaxEvictions   \* bound: evictions of the bucket of one client

Addresses == Clients \union Proxies

ASSUME LimitsAssumption ==
  /\ Capacity \in Nat \ {0}
  /\ Refill \in Nat
  /\ IdleTimeout \in Nat
  /\ SweepEvery \in Nat \ {0}
  /\ MaxEntries \in Nat \ {0}

ASSUME AddressesAssumption ==
  /\ Clients \intersect Proxies = {}
  /\ Headers \subseteq Seq(Addresses)
  /\ Routes \subseteq Seq(Proxies)

\* A bucket refills while it may not be dropped for idling.  True of what
\* config.go sets (2 minutes bring 600 tokens of 20, and 12000 of 1000);
\* nothing there demands it of other values.
ASSUME IdleRefillsAssumption == Refill * IdleTimeout >= Capacity

VARIABLES
  now,            \* the clock
  buckets,        \* the map: address -> bucket
  opsSinceSweep,  \* requests since the last sweep
  account,        \* history: for each client the bucket nothing drops
  evictions,      \* history: how often its bucket made room for another
  wronged,        \* history: refused, though the account held a token
  favoured        \* history: served, beyond account and evictions

limiterVars ==
  <<now, buckets, opsSinceSweep, account, evictions, wronged, favoured>>

Bucket == [tokens: 0..Capacity, lastRefill: Nat, lastSeen: Nat]

ASSUME NoBucketAssumption == NoBucket \notin Bucket /\ NoBucket \notin Addresses

-----------------------------------------------------------------------------
(***************************************************************************)
(* Whose request it is.                                                    *)
(***************************************************************************)

\* What reaches the server of a request of client: each proxy notes, at the
\* end of the header, the address it has the request from.
Peer(client, route) == IF route = <<>> THEN client ELSE route[Len(route)]

Header(client, earlier, route) ==
  IF route = <<>> THEN earlier
  ELSE earlier \o <<client>> \o SubSeq(route, 1, Len(route) - 1)

Trusted(a) == a \in Proxies

\* Slip the runs must notice: the leftmost entry, as the comment has it.
LeftmostKey(peer, header) ==
  LET untrusted == {i \in DOMAIN header : ~Trusted(header[i])}
  IN  IF ~Trusted(peer) \/ untrusted = {} THEN peer
      ELSE header[CHOOSE i \in untrusted : \A j \in untrusted : i <= j]

\* Slip the runs must notice: the header is never looked at.
PeerKey(peer, header) == peer

ClientKey(peer, header) ==
  LET untrusted == {i \in DOMAIN header : ~Trusted(header[i])}
  IN  IF ~Trusted(peer) \/ untrusted = {} THEN peer
      ELSE header[CHOOSE i \in untrusted : \A j \in untrusted : j <= i]

-----------------------------------------------------------------------------
(***************************************************************************)
(* Buckets.                                                                *)
(***************************************************************************)
Present == {a \in Addresses : buckets[a] # NoBucket}

AtMostFull(n) == IF n > Capacity THEN Capacity ELSE n

FullBucket == [tokens |-> Capacity, lastRefill |-> now, lastSeen |-> now]

Refilled(b) ==
  [tokens     |-> AtMostFull(b.tokens + (now - b.lastRefill) * Refill),
   lastRefill |-> now,
   lastSeen   |-> now]

\* The bucket of key as the request finds it: a new one is full.
Found(key) == IF buckets[key] = NoBucket THEN FullBucket ELSE Refilled(buckets[key])

Spend(b) == IF b.tokens >= 1 THEN [b EXCEPT !.tokens = @ - 1] ELSE b

\* Is there room for the bucket of key?
Room(key) == Cardinality(Present) < MaxEntries

\* Any bucket may go to make room: the first in the random order of a map.
Evicted(key) == IF buckets[key] # NoBucket \/ Room(key) THEN {NoBucket} ELSE Present

\* Slip the runs must notice: whatever was seen earlier counts as idle.
SeenBefore(a) == now > buckets[a].lastSeen

IdleTooLong(a) == now - buckets[a].lastSeen > IdleTimeout

Sweeps == opsSinceSweep + 1 >= SweepEvery

-----------------------------------------------------------------------------
(***************************************************************************)
(* The account: a bucket that is refilled and spent like the real one.  It *)
(* may owe what a dropped bucket has let through.                          *)
(***************************************************************************)
Credit(c) == AtMostFull(account[c].tokens + (now - account[c].since) * Refill)

Charged(c, served) ==
  [account EXCEPT ![c] = [tokens |-> Credit(c) - (IF served THEN 1 ELSE 0),
                          since  |-> now]]

LimiterInit ==
  /\ now = 0
  /\ buckets = [a \in Addresses |-> NoBucket]
  /\ opsSinceSweep = 0
  /\ account = [c \in Clients |-> [tokens |-> Capacity, since |-> 0]]
  /\ evictions = [c \in Clients |-> 0]
  /\ wronged = {}
  /\ favoured = {}

-----------------------------------------------------------------------------
(***************************************************************************)
(* Actions.                                                                *)
(***************************************************************************)
Tick ==
  /\ now < MaxNow
  /\ now' = now + 1
  /\ UNCHANGED <<buckets, opsSinceSweep, account, evictions, wronged, favoured>>

\* A request of client c, whose bucket is the one of key; victim goes if
\* there is no room.
Allow(c, key, victim) ==
  LET served == Found(key).tokens >= 1
  IN  /\ buckets' = [a \in Addresses |->
                       IF a = key THEN Spend(Found(key))
                       ELSE IF buckets[a] = NoBucket \/ a = victim \/ (Sweeps /\ IdleTooLong(a))
                       THEN NoBucket
                       ELSE buckets[a]]
      /\ opsSinceSweep' = IF Sweeps THEN 0 ELSE opsSinceSweep + 1
      /\ account' = Charged(c, served)
      /\ evictions' = IF victim \in Clients
                        THEN [evictions EXCEPT ![victim] = @ + 1]
                        ELSE evictions
      /\ wronged' = IF ~served /\ Credit(c) >= 1 THEN wronged \union {c} ELSE wronged
      /\ favoured' = IF served /\ Credit(c) + Capacity * evictions[c] < 1
                       THEN favoured \union {c} ELSE favoured
      /\ UNCHANGED now

Arrive(c, earlier, route) ==
  LET key == ClientKey(Peer(c, route), Header(c, earlier, route))
  IN  \E victim \in Evicted(key) :
        /\ victim \in Clients => evictions[victim] < MaxEvictions
        /\ Allow(c, key, victim)

LimiterNext ==
  \/ Tick
  \/ \E c \in Clients, earlier \in Headers, route \in Routes : Arrive(c, earlier, route)

LimiterSpec == LimiterInit /\ [][LimiterNext]_limiterVars

-----------------------------------------------------------------------------
(***************************************************************************)
(* Properties.                                                             *)
(***************************************************************************)

\* Types, and the bound on the memory of the limiter: the map never holds
\* more buckets than it may.
LimiterTypeOK ==
  /\ now \in Nat
  /\ buckets \in [Addresses -> Bucket \union {NoBucket}]
  /\ Cardinality(Present) <= MaxEntries
  /\ opsSinceSweep \in 0..SweepEvery
  /\ account \in [Clients -> [tokens: Int, since: Nat]]
  /\ evictions \in [Clients -> Nat]
  /\ wronged \in SUBSET Clients
  /\ favoured \in SUBSET Clients

\* A client is refused only when its own requests have used up its budget,
\* whatever others send and whichever proxies they share ("it can never 429
\* the whole API for everyone else").
NobodyWronged == wronged = {}

\* A client gets no more than its budget, and one full bucket for each time
\* its own made room for another: that an idle bucket is dropped gives
\* nothing away, nor does what a request says of the way it came.
NobodyFavoured == favoured = {}
=============================================================================
