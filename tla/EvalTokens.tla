------------------------------ MODULE EvalTokens ------------------------------
(***************************************************************************)
(* The tokens of the evaluation API: EvalAuthService with its cache of     *)
(* authenticated tokens, in the one process that serves requests, the      *)
(* admin page in the same process, and manage_eval_tokens.py, a process of *)
(* its own, whose eviction reaches no cache but its own, which is empty.   *)
(* Secrets are stored as hashes; last_used_at is left out.                 *)
(***************************************************************************)
EXTENDS Integers, FiniteSets

CONSTANTS
    Token,
    Secret,        \* secrets, which are drawn fresh
    NoSecret,
    Client,        \* requests under way at a time
    TTL,           \* CACHE_TTL_SECONDS
    MaxTime        \* bound

ASSUME TokenAssumption ==
    /\ IsFiniteSet(Token) /\ IsFiniteSet(Secret) /\ NoSecret \notin Secret
    /\ TTL \in Nat \ {0} /\ MaxTime \in Nat

VARIABLES
    clock,
    tokens,        \* eval_api_tokens
    cache,         \* _token_cache: when the entry of a secret was made
    requests,
    ended          \* history: when a secret stopped being a valid one

tokenVars == <<clock, tokens, cache, requests, ended>>

Never == -1
NoToken == [secret |-> NoSecret, active |-> FALSE]
Free == [at |-> "free", secret |-> NoSecret, began |-> 0, valid |-> FALSE]

TokensInit ==
    /\ clock = 0
    /\ tokens = [t \in Token |-> NoToken]
    /\ cache = [s \in Secret |-> Never]
    /\ requests = [c \in Client |-> Free]
    /\ ended = [s \in Secret |-> Never]

Given == {tokens[t].secret : t \in Token} \cup {s \in Secret : ended[s] # Never}

\* get_by_hash, and an active record
Valid(s) == \E t \in Token : tokens[t].secret = s /\ tokens[t].active

-----------------------------------------------------------------------------
Wait ==
    /\ clock < MaxTime /\ clock' = clock + 1
    /\ UNCHANGED <<tokens, cache, requests, ended>>

Create(t) ==
    /\ tokens[t] = NoToken
    /\ \E s \in Secret \ Given : tokens' = [tokens EXCEPT ![t] = [secret |-> s, active |-> TRUE]]
    /\ UNCHANGED <<clock, cache, requests, ended>>

Evicted(s) == [cache EXCEPT ![s] = Never]

\* revoke_token, and the eviction that only the admin page's own process sees.
Revoke(t, byAdmin) ==
    /\ tokens[t].active
    /\ tokens' = [tokens EXCEPT ![t].active = FALSE]
    /\ cache' = IF byAdmin THEN Evicted(tokens[t].secret) ELSE cache
    /\ ended' = [ended EXCEPT ![tokens[t].secret] = clock]
    /\ UNCHANGED <<clock, requests>>

\* rotate_token also makes a revoked token active again.
Rotate(t) ==
    /\ tokens[t] # NoToken
    /\ \E s \in Secret \ Given : tokens' = [tokens EXCEPT ![t] = [secret |-> s, active |-> TRUE]]
    /\ ended' = IF tokens[t].active THEN [ended EXCEPT ![tokens[t].secret] = clock] ELSE ended
    /\ UNCHANGED <<clock, cache, requests>>

-----------------------------------------------------------------------------
(* authenticate_token *)

Fresh(s) == cache[s] # Never /\ clock - cache[s] < TTL

Cached(c, s) ==
    /\ requests[c].at = "free" /\ Fresh(s)
    /\ requests' = [requests EXCEPT ![c] = [at |-> "accepted", secret |-> s,
                                             began |-> clock, valid |-> TRUE]]
    /\ UNCHANGED <<clock, tokens, cache, ended>>

Lookup(c, s) ==
    /\ requests[c].at = "free" /\ ~Fresh(s)
    /\ requests' = [requests EXCEPT ![c] = [at |-> "looking", secret |-> s,
                                             began |-> clock, valid |-> Valid(s)]]
    /\ UNCHANGED <<clock, tokens, cache, ended>>

\* Mutant: the entry is as old as its insertion.
StampedNow(c) == clock
Stamp(c) == requests[c].began

\* The entry is made after the record was read, and may be after an eviction.
Answer(c) ==
    LET q == requests[c] IN
    /\ q.at = "looking"
    /\ cache' = IF q.valid THEN [cache EXCEPT ![q.secret] = Stamp(c)] ELSE cache
    /\ requests' = [requests EXCEPT ![c].at = IF q.valid THEN "accepted" ELSE "refused"]
    /\ UNCHANGED <<clock, tokens, ended>>

Leave(c) ==
    /\ requests[c].at \in {"accepted", "refused"}
    /\ requests' = [requests EXCEPT ![c] = Free]
    /\ UNCHANGED <<clock, tokens, cache, ended>>

-----------------------------------------------------------------------------
TokensNext ==
    \/ Wait
    \/ \E t \in Token : Create(t) \/ Rotate(t) \/ \E byAdmin \in BOOLEAN : Revoke(t, byAdmin)
    \/ \E c \in Client : Answer(c) \/ Leave(c) \/ \E s \in Secret : Cached(c, s) \/ Lookup(c, s)

TokensSpec == TokensInit /\ [][TokensNext]_tokenVars

-----------------------------------------------------------------------------
(* Properties *)

TokensTypeOK ==
    /\ clock \in 0..MaxTime
    /\ tokens \in [Token -> [secret : Secret \cup {NoSecret}, active : BOOLEAN]]
    /\ cache \in [Secret -> {Never} \cup 0..clock]
    /\ requests \in [Client -> [at : {"free", "looking", "accepted", "refused"},
                                 secret : Secret \cup {NoSecret},
                                 began : 0..clock, valid : BOOLEAN]]
    /\ ended \in [Secret -> {Never} \cup 0..clock]

\* Once a secret is revoked or rotated away, in whichever process, a request
\* that comes the lifetime of a cache entry later is refused, also when one
\* that was being answered puts the secret back after its eviction.
RevocationHolds ==
    \A c \in Client : LET q == requests[c] IN
       q.at = "accepted" /\ ended[q.secret] # Never => q.began < ended[q.secret] + TTL
=============================================================================
