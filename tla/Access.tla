-------------------------------- MODULE Access --------------------------------
(***************************************************************************)
(* Who gets in: the gate of solvent/gateway.py for Telegram messages, with *)
(* the counters and bans of solvent/rate_limit.py and the pairing of       *)
(* solvent/pairing.py; and the single-use tokens that /api/pair/verify     *)
(* redeems behind the failure limiter of solvent/access.py.  The counters  *)
(* and the codes are SQLite rows that all processes share, the allowlist   *)
(* is a file nobody locks, the failure limiter is memory of the server.    *)
(***************************************************************************)
EXTENDS Integers, FiniteSets, Functions

CONSTANTS Guest,       \* Telegram users
          Gate,        \* messages that may be under way at one time
          Approver,    \* runs of `pairing approve` that may overlap
          Knock,       \* /api/pair/verify requests that may overlap
          Quotas,      \* [window, limit]: burst, hour and day
          CodeLife, TokenLife,
          MaxFailures, FailureWindow, \* of one peer
          Configured,  \* SOLVENT_TELEGRAM_ALLOW_FROM
          BanTime,
          AccessTime, MaxCodes, MaxTokens, MaxSlips  \* bounds

ASSUME AccessAssumption ==
    /\ \A q \in Quotas : q.window \in Nat /\ q.limit \in Nat \ {0}
    /\ CodeLife \in Nat /\ TokenLife \in Nat /\ MaxFailures \in Nat \ {0} /\ FailureWindow \in Nat
    /\ Configured \subseteq Guest /\ BanTime \in Nat
    /\ AccessTime \in Nat /\ MaxCodes \in Nat /\ MaxTokens \in Nat /\ MaxSlips \in Nat
    /\ IsFiniteSet(Gate) /\ IsFiniteSet(Knock)

VARIABLES accessClock,
          dmPolicy,   \* SOLVENT_TELEGRAM_DM_POLICY
          hits,       \* rate_events: how many rows of a user bear a time
          bans,       \* rate_bans: until when
          codes,      \* telegram_pairing rows
          allowlist,  \* telegram_allowlist.json
          gates, approvers, knocks,  \* where each call is
          tokens,     \* openclaw_tokens rows
          failures,   \* failed attempts: how many of the peer bear a time
          answered,   \* [user, policy, banned]: messages that got past the gate
          redeemed,   \* how often each token was accepted, and whether in time
          slips       \* approvals that overlapped another or died half way

gateVars  == <<dmPolicy, hits, bans, gates, answered>>
pairVars  == <<codes, allowlist, approvers, slips>>
tokenVars == <<tokens, failures, knocks, redeemed>>
accessVars == <<accessClock, gateVars, pairVars, tokenVars>>

Policies == {"open", "disabled", "allowlist", "pairing"}
Resting  == [at |-> "rest"]
Moments  == 0..AccessTime

AccessTypeOK ==
    /\ accessClock \in Moments /\ dmPolicy \in Policies
    /\ hits \in [Guest -> [Moments -> Nat]] /\ bans \in [Guest -> 0..(AccessTime + BanTime)]
    /\ \A c \in codes : c.user \in Guest /\ c.until \in Nat /\ c.approved \in BOOLEAN
    /\ allowlist \subseteq Guest /\ failures \in [Moments -> Nat]
    /\ \A g \in Gate : gates[g].at \in {"rest", "counted", "in"}
    /\ \A v \in Approver : approvers[v].at \in {"rest", "approved", "read"}
    /\ \A k \in Knock : knocks[k].at \in {"rest", "reading"}
    /\ \A t \in tokens : t.until \in Nat /\ t.used \in BOOLEAN
    /\ slips \in 0..MaxSlips

AccessInit ==
    /\ accessClock = 0 /\ dmPolicy \in Policies
    /\ hits = [u \in Guest |-> [m \in Moments |-> 0]] /\ bans = [u \in Guest |-> 0]
    /\ codes = {} /\ allowlist = {} /\ tokens = {} /\ failures = [m \in Moments |-> 0]
    /\ gates = [g \in Gate |-> Resting] /\ approvers = [v \in Approver |-> Resting]
    /\ knocks = [k \in Knock |-> Resting]
    /\ answered = {} /\ redeemed = {} /\ slips = 0

-----------------------------------------------------------------------------
(* Counting.                                                               *)

Within(counts, since) == SumFunctionOnSet(counts, {m \in Moments : m >= since})
OverQuota(u) == \E q \in Quotas : Within(hits[u], accessClock - q.window) >= q.limit
Banned(u) == bans[u] > accessClock

\* handle_inbound up to the counts of RateLimiter.check; /help, /status and
\* /jobs are not counted.  A message that is refused leaves no trace.
Arrive(g, u, kind) ==
    /\ gates[g] = Resting /\ ~Banned(u)
    /\ kind # "exempt" => ~OverQuota(u)
    /\ gates' = [gates EXCEPT ![g] =
          [at |-> IF kind = "exempt" THEN "in" ELSE "counted", user |-> u, kind |-> kind,
           since |-> accessClock, banned |-> bans[u] > accessClock]]
    /\ UNCHANGED <<accessClock, dmPolicy, hits, bans, answered, pairVars, tokenVars>>

\* check goes on: the event is inserted, with the time at which it began.
CountIn(g) ==
    /\ gates[g].at = "counted"
    /\ hits' = [hits EXCEPT ![gates[g].user][gates[g].since] = @ + 1]
    /\ gates' = [gates EXCEPT ![g].at = "in"]
    /\ UNCHANGED <<accessClock, dmPolicy, bans, answered, pairVars, tokenVars>>

Paired(u) == \E c \in codes : c.user = u /\ c.approved
IsAllowed(u) ==
    CASE dmPolicy = "open"      -> TRUE
      [] dmPolicy = "disabled"  -> FALSE
      [] dmPolicy = "allowlist" -> u \in allowlist \cup Configured
      [] dmPolicy = "pairing"   -> Paired(u)

\* pairing.is_allowed: answered, or told how to pair; /start makes a code.
Admit(g) ==
    LET u == gates[g].user
    IN  /\ gates[g].at = "in" /\ gates' = [gates EXCEPT ![g] = Resting]
        /\ \/ /\ IsAllowed(u)
              /\ answered' = answered \cup {[user |-> u, policy |-> dmPolicy, banned |-> gates[g].banned]}
              /\ UNCHANGED codes
           \/ /\ ~IsAllowed(u)
              /\ codes' = IF gates[g].kind = "start" /\ Cardinality(codes) < MaxCodes
                          THEN codes \cup {[id |-> Cardinality(codes) + 1, user |-> u,
                                            until |-> accessClock + CodeLife, approved |-> FALSE]}
                          ELSE codes
              /\ UNCHANGED answered
        /\ UNCHANGED <<accessClock, dmPolicy, hits, bans, allowlist, approvers, slips, tokenVars>>

Ban(u) ==
    /\ ~Banned(u) /\ bans' = [bans EXCEPT ![u] = accessClock + BanTime]
    /\ UNCHANGED <<accessClock, dmPolicy, hits, gates, answered, pairVars, tokenVars>>

Unban(u) ==
    /\ bans[u] > 0 /\ bans' = [bans EXCEPT ![u] = 0]
    /\ UNCHANGED <<accessClock, dmPolicy, hits, gates, answered, pairVars, tokenVars>>

\* cleanup, whenever a process imports the gateway: rows older than the longest
\* window go, and bans that have run out.
CleanUp ==
    LET day == CHOOSE d \in {q.window : q \in Quotas} : \A q \in Quotas : q.window <= d
    IN  /\ hits' = [u \in Guest |-> [m \in Moments |-> IF m < accessClock - day THEN 0 ELSE hits[u][m]]]
        /\ bans' = [u \in Guest |-> IF Banned(u) THEN bans[u] ELSE 0]
        /\ UNCHANGED <<accessClock, dmPolicy, gates, answered, pairVars, tokenVars>>

-----------------------------------------------------------------------------
(* Pairing, by the operator.                                               *)

\* treasury.approve_pairing, in one transaction; a code may be approved again.
Approve(v, c) ==
    LET overlap == \E w \in Approver : approvers[w] # Resting
    IN  /\ approvers[v] = Resting /\ c.until >= accessClock
        /\ overlap => slips < MaxSlips
        /\ slips' = slips + (IF overlap THEN 1 ELSE 0)
        /\ codes' = (codes \ {c}) \cup {[c EXCEPT !.approved = TRUE]}
        /\ approvers' = [approvers EXCEPT ![v] = [at |-> "approved", user |-> c.user]]
        /\ UNCHANGED <<accessClock, gateVars, allowlist, tokenVars>>

\* approve goes on: the list is read, and written with one name more.
ReadList(v) ==
    /\ approvers[v].at = "approved"
    /\ approvers' = [approvers EXCEPT ![v] = [at |-> "read", list |-> allowlist \cup {@.user}]]
    /\ UNCHANGED <<accessClock, gateVars, codes, allowlist, slips, tokenVars>>

WriteList(v) ==
    /\ approvers[v].at = "read" /\ allowlist' = approvers[v].list
    /\ approvers' = [approvers EXCEPT ![v] = Resting]
    /\ UNCHANGED <<accessClock, gateVars, codes, slips, tokenVars>>

DieApproving(v) ==
    /\ approvers[v] # Resting /\ slips < MaxSlips /\ slips' = slips + 1
    /\ approvers' = [approvers EXCEPT ![v] = Resting]
    /\ UNCHANGED <<accessClock, gateVars, codes, allowlist, tokenVars>>

-----------------------------------------------------------------------------
(* OpenClaw tokens.                                                        *)

Mint ==
    /\ Cardinality(tokens) < MaxTokens
    /\ tokens' = tokens \cup {[id |-> Cardinality(tokens) + 1, used |-> FALSE,
                               until |-> accessClock + TokenLife]}
    /\ UNCHANGED <<accessClock, gateVars, pairVars, failures, knocks, redeemed>>

Blocked == Within(failures, accessClock - FailureWindow) >= MaxFailures

\* api_pair_verify: asks the limiter, then waits for the body.
Ask(k) ==
    /\ knocks[k] = Resting /\ ~Blocked
    /\ knocks' = [knocks EXCEPT ![k] = [at |-> "reading"]]
    /\ UNCHANGED <<accessClock, gateVars, pairVars, tokens, failures, redeemed>>

\* Mutant: a token is good as long as it lasts.
GoodForLong(t) == t.until >= accessClock

\* verify_openclaw_token: one UPDATE checks the token and uses it up.
Good(t) == ~t.used /\ t.until >= accessClock
Redeem(k, t) ==
    /\ knocks[k].at = "reading" /\ Good(t)
    /\ tokens' = (tokens \ {t}) \cup {[t EXCEPT !.used = TRUE]}
    /\ redeemed' = redeemed \cup {[knock |-> Cardinality(redeemed) + 1, token |-> t.id,
                                   intime |-> t.until >= accessClock]}
    /\ knocks' = [knocks EXCEPT ![k] = Resting]
    /\ UNCHANGED <<accessClock, gateVars, pairVars, failures>>

\* Any other token counts as a failure of the peer.
Fail(k) ==
    /\ knocks[k].at = "reading"
    /\ failures' = [failures EXCEPT ![accessClock] = @ + 1]
    /\ knocks' = [knocks EXCEPT ![k] = Resting]
    /\ UNCHANGED <<accessClock, gateVars, pairVars, tokens, redeemed>>

AccessTick ==
    /\ accessClock < AccessTime /\ accessClock' = accessClock + 1
    /\ UNCHANGED <<gateVars, pairVars, tokenVars>>

\* Bans and approvals meet in the messages only, tokens in the clock only.
DoorNext(guests, kinds) ==
    \/ AccessTick
    \/ \E g \in Gate : \/ CountIn(g) \/ Admit(g)
                       \/ \E u \in guests, kind \in kinds : Arrive(g, u, kind)
BansNext == CleanUp \/ \E u \in Guest : Ban(u) \/ Unban(u)
ApprovalsNext ==
    \E v \in Approver : \/ ReadList(v) \/ WriteList(v) \/ DieApproving(v)
                        \/ \E c \in codes : Approve(v, c)
TokensNext ==
    \/ AccessTick \/ Mint
    \/ \E k \in Knock : Ask(k) \/ Fail(k) \/ \E t \in tokens : Redeem(k, t)

AccessNext ==
    DoorNext(Guest, {"text", "exempt", "start"}) \/ BansNext \/ ApprovalsNext \/ TokensNext
AccessSpec == AccessInit /\ [][AccessNext]_accessVars

-----------------------------------------------------------------------------
(* Properties.                                                             *)

\* In any window a user gets as many messages through as the quota allows, and
\* one more for each other message under way when it was counted.
QuotasHold ==
    \A u \in Guest, q \in Quotas :
        Within(hits[u], accessClock - q.window) <= q.limit + Cardinality(Gate) - 1

\* Only those are answered whom the operator has let in, and nobody who was
\* banned when the message came; the allowlist names only approved users, and
\* all of them, once each approval has been written by a run of its own.
PairingHolds ==
    /\ \A a \in answered :
         /\ a.policy # "disabled" /\ ~a.banned
         /\ a.policy = "pairing" => Paired(a.user)
         /\ a.policy = "allowlist" => Paired(a.user) \/ a.user \in Configured
    /\ \A u \in allowlist : Paired(u)
    /\ slips = 0 /\ (\A v \in Approver : approvers[v] = Resting) =>
         \A u \in Guest : Paired(u) => u \in allowlist

\* "Two concurrent redemptions of the same token cannot both succeed"
\* (treasury.verify_openclaw_token); failures of a peer stay within the limit
\* but for requests that were under way.
TokensHold ==
    /\ \A r \in redeemed : r.intime /\ \A s \in redeemed : s.token = r.token => s = r
    /\ Within(failures, accessClock - FailureWindow) <= MaxFailures + Cardinality(Knock) - 1

AccessHolds == AccessTypeOK /\ QuotasHold /\ PairingHolds /\ TokensHold
=============================================================================
