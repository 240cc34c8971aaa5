----------------------------- MODULE ShopifyRequests -----------------------------
(***************************************************************************)
(* The Shopify connector's way to the platform: tokens.ts mints and keeps  *)
(* an access token per channel, client.ts sends every request with it and  *)
(* once more after a 401, and setQuantity states a quantity by a read and  *)
(* a compare-and-set that is tried twice.  Requests overlap, customers buy *)
(* in between, tokens lapse and are revoked.                               *)
(*                                                                         *)
(* One listing per channel.  The queue that starts the pushes and retries  *)
(* them is the module OutboundSync.                                        *)
(***************************************************************************)
EXTENDS Naturals, FiniteSets

CONSTANTS
    Channel,
    Op,             \* pushes at once
    MaxQuantity,
    MaxPushes,
    MaxTroubles,    \* purchases, tokens lapsed, revoked or withdrawn, replies lost
    Null

Parameters ==
    /\ Null \notin Channel \cup (Channel \X Nat)
    /\ Null \notin [secret: Nat, token: (Channel \X Nat) \cup {Null}]
    /\ MaxQuantity \in Nat /\ MaxPushes \in Nat /\ MaxTroubles \in Nat

VARIABLES
    shown,          \* platform: per channel, the quantity at the pinned location
    alive,          \* platform: the tokens it takes
    accepts,        \* platform: per channel, the client secret it takes
    secret,         \* hub: per channel, the stored secret
    cache,          \* hub: per channel, the token held, and whether it is still usable
    inFlight,       \* hub: per channel, the token request that others wait for
    op,
    told,           \* per channel: what the last push reported, as long as nothing changed it
    mints,          \* per channel: token requests made, and grounds there were for one
    used,
    lapse

vars == <<shown, alive, accepts, secret, cache, inFlight, op, told, mints, used, lapse>>

Quantity == 0..MaxQuantity
Empty == [token |-> Null, usable |-> FALSE]
Idle == [step |-> "idle", channel |-> Null, secret |-> 0, want |-> 0, token |-> Null,
         phase |-> "read", again |-> FALSE, attempt |-> 1, seen |-> 0, reply |-> Null,
         stands |-> FALSE,   \* nothing has moved the number since the platform answered
         sold |-> FALSE]     \* a unit was bought after a read of this push, before its write

Init ==
    /\ shown \in [Channel -> {MaxQuantity}]
    /\ alive = {}
    /\ accepts = [c \in Channel |-> 1] /\ secret = [c \in Channel |-> 1]
    /\ cache = [c \in Channel |-> Empty]
    /\ inFlight = [c \in Channel |-> Null]
    /\ op = [o \in Op |-> Idle]
    /\ told = [c \in Channel |-> Null]
    /\ mints = [c \in Channel |-> [made |-> 0, grounds |-> 1]]
    /\ used = [pushes |-> 0, troubles |-> 0]
    /\ lapse = {}

platform == <<shown, alive, accepts>>

At(o, step) == op[o].step = step
Use(what, most) == used[what] < most /\ used' = [used EXCEPT ![what] = @ + 1]
Ground(c) == mints' = [mints EXCEPT ![c].grounds = @ + 1]

\* A push is given its channel's secrets once, when it starts.
Begin(o, c) ==
    /\ At(o, "idle") /\ Use("pushes", MaxPushes)
    /\ \E q \in Quantity :
          op' = [op EXCEPT ![o] = [Idle EXCEPT !.step = "token", !.channel = c,
                                              !.secret = secret[c], !.want = q]]
    /\ UNCHANGED <<platform, secret, cache, inFlight, told, mints, lapse>>

-------------------------------------------------------------------------------
\* Mutant of GetToken: everyone mints who finds no token.
GetTokenEach(o) ==
    /\ At(o, "token")
    /\ LET c == op[o].channel
       IN  IF cache[c].usable
           THEN /\ op' = [op EXCEPT ![o].step = "send", ![o].token = cache[c].token]
                /\ UNCHANGED <<inFlight, mints>>
           ELSE /\ inFlight' = [inFlight EXCEPT ![c] = [secret |-> op[o].secret, token |-> Null]]
                /\ mints' = [mints EXCEPT ![c].made = @ + 1]
                /\ op' = [op EXCEPT ![o].step = "wait"]
    /\ UNCHANGED <<platform, secret, cache, told, used, lapse>>

\* get(): the token held, the one that is on its way, or a new one.
GetToken(o) ==
    /\ At(o, "token")
    /\ LET c == op[o].channel
       IN  IF cache[c].usable
           THEN /\ op' = [op EXCEPT ![o].step = "send", ![o].token = cache[c].token]
                /\ UNCHANGED <<inFlight, mints>>
           ELSE /\ op' = [op EXCEPT ![o].step = "wait"]
                /\ IF inFlight[c] # Null THEN UNCHANGED <<inFlight, mints>>
                   ELSE /\ inFlight' = [inFlight EXCEPT ![c] =
                                          [secret |-> op[o].secret, token |-> Null]]
                        /\ mints' = [mints EXCEPT ![c].made = @ + 1]
    /\ UNCHANGED <<platform, secret, cache, told, used, lapse>>

\* The platform gives a token of its own for the secret it takes.
Mint(c) ==
    /\ inFlight[c] # Null /\ inFlight[c].token = Null /\ inFlight[c].secret = accepts[c]
    /\ LET t == <<c, mints[c].made>>
       IN  /\ alive' = alive \cup {t}
           /\ inFlight' = [inFlight EXCEPT ![c].token = t]
    /\ UNCHANGED <<shown, accepts, secret, cache, op, told, mints, used, lapse>>

Waiting(c) == {o \in Op : At(o, "wait") /\ op[o].channel = c}

\* Whoever waits goes on with it, and it is kept.
Minted(c) ==
    /\ inFlight[c] # Null /\ inFlight[c].token # Null
    /\ cache' = [cache EXCEPT ![c] = [token |-> inFlight[c].token, usable |-> TRUE]]
    /\ op' = [o \in Op |-> IF o \in Waiting(c)
                           THEN [op[o] EXCEPT !.step = "send", !.token = inFlight[c].token]
                           ELSE op[o]]
    /\ inFlight' = [inFlight EXCEPT ![c] = Null]
    /\ UNCHANGED <<platform, secret, told, mints, used, lapse>>

\* The secret is refused, or the platform is out of reach: everyone who waits fails with it.
MintFails(c) ==
    /\ inFlight[c] # Null
    /\ IF inFlight[c].token = Null /\ inFlight[c].secret # accepts[c] THEN UNCHANGED used
       ELSE Use("troubles", MaxTroubles)
    /\ op' = [o \in Op |-> IF o \in Waiting(c) THEN Idle ELSE op[o]]
    /\ inFlight' = [inFlight EXCEPT ![c] = Null]
    /\ Ground(c)
    /\ UNCHANGED <<platform, secret, cache, told, lapse>>

-------------------------------------------------------------------------------
\* What the platform answers to a request with a token it takes: the quantity it shows, or
\* whether the one it was given as the old one still is.
Answer(o) ==
    LET c == op[o].channel
    IN  IF op[o].token \notin alive THEN "401"
        ELSE IF op[o].phase = "read" THEN "read"
        ELSE IF shown[c] = op[o].seen THEN "set" ELSE "stale"

Moved(push, c) == IF push.channel = c THEN [push EXCEPT !.stands = FALSE] ELSE push

Send(o) ==
    /\ At(o, "send")
    /\ LET next == [p \in Op |-> IF Answer(o) = "set" THEN Moved(op[p], op[o].channel) ELSE op[p]]
       IN  op' = [next EXCEPT ![o].step = "reply", ![o].reply = Answer(o), ![o].stands = TRUE,
                              ![o].seen = IF Answer(o) = "read" THEN shown[op[o].channel] ELSE @]
    /\ IF Answer(o) = "set"
       THEN LET c == op[o].channel
            IN  /\ shown' = [shown EXCEPT ![c] = op[o].want]
                /\ told' = [told EXCEPT ![c] = Null]
                /\ lapse' = lapse \cup {l \in {"oversold"} : op[o].sold}
       ELSE UNCHANGED <<shown, told, lapse>>
    /\ UNCHANGED <<alive, accepts, secret, cache, inFlight, mints, used>>

\* "One retry on 401, with a freshly minted token."
Unauthorised(o) ==
    /\ At(o, "reply") /\ op[o].reply = "401"
    /\ LET c == op[o].channel
       IN  IF op[o].again
           THEN /\ op' = [op EXCEPT ![o] = Idle]
                /\ lapse' = lapse \cup {"refused"}
                /\ UNCHANGED <<cache, mints>>
           ELSE /\ op' = [op EXCEPT ![o].step = "token", ![o].again = TRUE, ![o].reply = Null,
                                    ![o].token = Null]
                /\ cache' = [cache EXCEPT ![c] = Empty]
                /\ Ground(c)
                /\ UNCHANGED lapse
    /\ UNCHANGED <<platform, secret, inFlight, told, used>>

\* The push reports success; the report holds until the quantity changes.
Succeed(o) ==
    /\ op' = [op EXCEPT ![o] = Idle]
    /\ told' = [told EXCEPT ![op[o].channel] = IF op[o].stands THEN op[o].want ELSE @]

Then(o, phase, attempt, seen) ==
    /\ op' = [op EXCEPT ![o] = [@ EXCEPT !.step = "token", !.phase = phase, !.again = FALSE,
                 !.attempt = attempt, !.seen = seen, !.reply = Null, !.token = Null]]
    /\ UNCHANGED told

\* "Already correct", or the write against what was read.
HaveRead(o) ==
    /\ At(o, "reply") /\ op[o].reply = "read"
    /\ IF op[o].seen = op[o].want THEN Succeed(o) ELSE Then(o, "write", op[o].attempt, op[o].seen)
    /\ UNCHANGED <<platform, secret, cache, inFlight, mints, used, lapse>>

\* Mutant of Written: what the platform says of the write is not looked at.
WrittenUnchecked(o) ==
    /\ At(o, "reply") /\ op[o].reply \in {"set", "stale"}
    /\ Succeed(o)
    /\ UNCHANGED <<platform, secret, cache, inFlight, mints, used, lapse>>

\* "A compare failure means someone else moved the number": it is read again, once.
Written(o) ==
    /\ At(o, "reply") /\ op[o].reply \in {"set", "stale"}
    /\ IF op[o].reply = "set" THEN Succeed(o)
       ELSE IF op[o].attempt = 1 THEN Then(o, "read", 2, 0)
       ELSE op' = [op EXCEPT ![o] = Idle] /\ UNCHANGED told
    /\ UNCHANGED <<platform, secret, cache, inFlight, mints, used, lapse>>

\* The reply does not arrive; what was asked has been done.
ReplyLost(o) ==
    /\ At(o, "reply") /\ Use("troubles", MaxTroubles)
    /\ op' = [op EXCEPT ![o] = Idle]
    /\ UNCHANGED <<platform, secret, cache, inFlight, told, mints, lapse>>

-------------------------------------------------------------------------------
HasRead(push) == push.phase = "write" \/ push.reply = "read"

\* A customer buys one.
Purchase(c) ==
    /\ shown[c] > 0 /\ Use("troubles", MaxTroubles)
    /\ shown' = [shown EXCEPT ![c] = @ - 1]
    /\ told' = [told EXCEPT ![c] = Null]
    /\ op' = [o \in Op |-> IF op[o].channel = c THEN [Moved(op[o], c) EXCEPT !.sold = @ \/ HasRead(op[o])]
                           ELSE op[o]]
    /\ UNCHANGED <<alive, accepts, secret, cache, inFlight, mints, lapse>>

\* The token comes within five minutes of its end.
Lapse(c) ==
    /\ cache[c].usable /\ Use("troubles", MaxTroubles)
    /\ cache' = [cache EXCEPT ![c].usable = FALSE]
    /\ Ground(c)
    /\ UNCHANGED <<platform, secret, inFlight, op, told, lapse>>

\* While a token is on its way, or one minted for a second try, a revocation takes that too.
Amid(c) == inFlight[c] # Null \/ \E o \in Op : op[o].channel = c /\ op[o].again

\* The app is reinstalled, or its secret rotated: the tokens are dead.
Revoke(c, next) ==
    /\ Use("troubles", MaxTroubles)
    /\ alive' = {t \in alive : t[1] # c}
    /\ accepts' = [accepts EXCEPT ![c] = next]
    /\ lapse' = lapse \cup {l \in {"amid"} : Amid(c)}
    /\ UNCHANGED <<shown, secret, cache, inFlight, op, told, mints>>

\* The operator stores the secret the platform takes by now.
StoreSecret(c) ==
    /\ secret[c] # accepts[c]
    /\ secret' = [secret EXCEPT ![c] = accepts[c]]
    /\ UNCHANGED <<platform, cache, inFlight, op, told, mints, used, lapse>>

Next ==
    \/ \E o \in Op :
          \/ \E c \in Channel : Begin(o, c)
          \/ GetToken(o) \/ Send(o) \/ Unauthorised(o) \/ HaveRead(o) \/ Written(o) \/ ReplyLost(o)
    \/ \E c \in Channel :
          \/ Mint(c) \/ Minted(c) \/ MintFails(c)
          \/ Purchase(c) \/ Lapse(c) \/ StoreSecret(c)
          \/ \E next \in {1, 2} : Revoke(c, next)

Spec == Init /\ [][Next]_vars

-------------------------------------------------------------------------------
\* The tokens that were asked for.
Token == UNION {{c} \X (1..mints[c].made) : c \in Channel}

TypeOK ==
    /\ shown \in [Channel -> Quantity] /\ alive \subseteq Token
    /\ accepts \in [Channel -> 1..2] /\ secret \in [Channel -> 1..2]
    /\ cache \in [Channel -> [token: Token \cup {Null}, usable: BOOLEAN]]
    /\ \A c \in Channel : inFlight[c] # Null => inFlight[c].token \in Token \cup {Null}
    /\ \A o \in Op :
          /\ op[o].step \in {"idle", "token", "wait", "send", "reply"}
          /\ op[o].channel \in Channel \cup {Null} /\ op[o].token \in Token \cup {Null}
          /\ op[o].want \in Quantity /\ op[o].seen \in Quantity /\ op[o].attempt \in 1..2
    /\ told \in [Channel -> Quantity \cup {Null}]
    /\ used.pushes <= MaxPushes /\ used.troubles <= MaxTroubles

\* "Ten queued pushes on a cold cache": however requests overlap, a token is asked for once,
\* and again only for a token that lapsed, one that was refused, or a request that failed.
BurstsMintOnce == \A c \in Channel : mints[c].made <= mints[c].grounds

\* "A shared cache would let one store's token be sent to the other": a request carries a
\* token of its own channel.
TokensStayHome == \A o \in Op : op[o].token # Null => op[o].token[1] = op[o].channel

\* What a push reports is what the platform shows, until a purchase or another push.
ToldIsShown == \A c \in Channel : told[c] # Null => told[c] = shown[c]

\* "That turns it into a blip": a token revoked under a request does not fail it, unless the
\* token on its way, or the one of the second try, was revoked with it.
RevocationIsABlip == "refused" \in lapse => "amid" \in lapse

\* Whoever waits for a token waits for a request that is under way.
NobodyWaitsForever ==
    \A o \in Op : At(o, "wait") => inFlight[op[o].channel] # Null

RequestsHold ==
    /\ BurstsMintOnce /\ TokensStayHome /\ ToldIsShown /\ RevocationIsABlip
    /\ NobodyWaitsForever

\* "The set is refused rather than silently overwriting a sale that has already happened"
\* (shopify.ts:987): no push puts back a unit bought while it was under way.
SalesSurvivePushes == "oversold" \notin lapse
===============================================================================
