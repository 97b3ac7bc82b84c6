---------------------------- MODULE OAuthTokens ----------------------------
(***************************************************************************)
(* A tenant's HubSpot connection: the OAuth states that start_oauth hands  *)
(* out, the callbacks that exchange a code for a grant, and the callers of *)
(* get_access_token, which share an asyncio lock with the other callers of *)
(* their provider object and refresh the stored token when it runs out.    *)
(***************************************************************************)
EXTENDS Naturals

CONSTANTS
  Tenants,
  Accounts,    \* HubSpot accounts
  Nonces,      \* what token_urlsafe may give: each is given once
  Callers,     \* calls of get_access_token
  Providers,   \* HubSpotAccessTokenProvider objects, one per request and service
  ProviderOf,  \* the provider a caller asks
  Callbacks,   \* calls of exchange_code; a grant is named by the one that got it
  NoOne,
  Lifetime,    \* expires_in
  Margin,      \* timedelta(minutes=1)
  Latency,     \* request_timeout_seconds: the longest an answer is on its way
  StateTTL,    \* timedelta(minutes=10)
  MaxTime      \* bound on the clock

ASSUME HandlersAssumption ==
  /\ ProviderOf \in [Callers -> Providers]
  /\ Callers \cap Callbacks = {}
  /\ NoOne \notin Callers \cup Callbacks \cup Tenants \cup Accounts \cup Nonces
ASSUME TimesAssumption ==
  /\ {Lifetime, Margin, Latency, StateTTL, MaxTime} \subseteq Nat
  /\ Latency <= Margin

Handlers == Callers \cup Callbacks

VARIABLES
  now,
  (* hubspot_oauth_states *)
  states,         \* states[n]: the tenant of the row under nonce n, or NoOne
  state_expires,
  starter,        \* starter[n]: who was given n, whether or not the row is there
  (* hubspot_oauth_tokens *)
  row,            \* row[t]: the columns of tenant t's row, or NoRow
  saver,          \* saver[t]: the handler that saved it last
  (* memory *)
  lock,           \* _refresh_locks of every provider: the caller that holds it
  pc,
  tenant,         \* the tenant a handler works for
  nonce,          \* the state a callback was called with
  account,        \* hub_id of a callback's grant
  existing,       \* the row a caller read last
  found,          \* the account in the row that save_token found, NoOne for no row
  token           \* the tokens a handler got or returns

tableVars == <<states, state_expires, starter, row, saver>>
vars == <<now, states, state_expires, starter, row, saver,
          lock, pc, tenant, nonce, account, existing, found, token>>

\* The access and the refresh token of a grant, the access token dead at
\* "until", and the time the program takes for that one.
NoToken == [grant |-> NoOne, until |-> 0, expires_at |-> 0]
NoRow == [account |-> NoOne, grant |-> NoOne, until |-> 0, expires_at |-> 0]
TokenTypes == [grant : Callbacks \cup {NoOne}, until : Nat, expires_at : Nat]
RowTypes == [account : Accounts \cup {NoOne}, grant : Callbacks \cup {NoOne},
             until : Nat, expires_at : Nat]

Asking == {"refreshing", "exchanging", "receiving"}
Saving == {"saving", "flushing"}
Refreshing == {"refreshing", "receiving"} \cup Saving
Live == {"waiting"} \cup Asking \cup Saving
Ended == {"returned", "connected", "failed"}

TypeOK ==
  /\ now \in 0 .. MaxTime
  /\ states \in [Nonces -> Tenants \cup {NoOne}]
  /\ state_expires \in [Nonces -> Nat]
  /\ starter \in [Nonces -> Tenants \cup {NoOne}]
  /\ row \in [Tenants -> RowTypes]
  /\ saver \in [Tenants -> Handlers \cup {NoOne}]
  /\ lock \in [Providers -> [Tenants -> Callers \cup {NoOne}]]
  /\ pc \in [Handlers -> {"idle"} \cup Live \cup Ended]
  /\ tenant \in [Handlers -> Tenants \cup {NoOne}]
  /\ nonce \in [Callbacks -> Nonces \cup {NoOne}]
  /\ account \in [Callbacks -> Accounts \cup {NoOne}]
  /\ existing \in [Handlers -> RowTypes]
  /\ found \in [Handlers -> Accounts \cup {NoOne}]
  /\ token \in [Handlers -> TokenTypes]

Init ==
  /\ now = 0
  /\ states = [n \in Nonces |-> NoOne]
  /\ state_expires = [n \in Nonces |-> 0]
  /\ starter = [n \in Nonces |-> NoOne]
  /\ row = [t \in Tenants |-> NoRow]
  /\ saver = [t \in Tenants |-> NoOne]
  /\ lock = [p \in Providers |-> [t \in Tenants |-> NoOne]]
  /\ pc = [h \in Handlers |-> "idle"]
  /\ tenant = [h \in Handlers |-> NoOne]
  /\ nonce = [k \in Callbacks |-> NoOne]
  /\ account = [k \in Callbacks |-> NoOne]
  /\ existing = [h \in Handlers |-> NoRow]
  /\ found = [h \in Handlers |-> NoOne]
  /\ token = [h \in Handlers |-> NoToken]

Goto(h, place) == pc' = [pc EXCEPT ![h] = place]

\* Mutant: the lock survives the caller that held it.
Release_never(h) == UNCHANGED lock

\* "async with lock" ends, whatever ended it.
Release(h) ==
  lock' = [p \in Providers |-> [t \in Tenants |->
             IF lock[p][t] = h THEN NoOne ELSE lock[p][t]]]

-----------------------------------------------------------------------------
(* HubSpotOAuthService.start and _consume_state. *)

\* Mutant: the lifetime of a state is subtracted.
StateExpiry_backdated == now - StateTTL

StateExpiry == now + StateTTL

Start(n, t) ==
  /\ starter[n] = NoOne
  /\ starter' = [starter EXCEPT ![n] = t]
  /\ states' = [states EXCEPT ![n] = t]
  /\ state_expires' = [state_expires EXCEPT ![n] = StateExpiry]
  /\ UNCHANGED <<now, row, saver, lock, pc, tenant, nonce, account, existing, found, token>>

\* Mutant: the row is read and kept.
Delete_never(n) == UNCHANGED states

\* consume deletes the row it reads, and the one it does not accept.
Delete(n) == states' = [states EXCEPT ![n] = NoOne]

Consume(k, n) ==
  /\ pc[k] = "idle"
  /\ states[n] # NoOne
  /\ state_expires[n] > now
  /\ Delete(n)
  /\ nonce' = [nonce EXCEPT ![k] = n]
  /\ tenant' = [tenant EXCEPT ![k] = states[n]]
  /\ Goto(k, "exchanging")
  /\ UNCHANGED <<now, state_expires, starter, row, saver, lock, account, existing, found, token>>

\* "OAuth state is invalid or expired"
Reject(k, n) ==
  /\ pc[k] = "idle"
  /\ states[n] = NoOne \/ state_expires[n] <= now
  /\ Delete(n)
  /\ Goto(k, "failed")
  /\ UNCHANGED <<now, state_expires, starter, row, saver, lock,
                 tenant, nonce, account, existing, found, token>>

-----------------------------------------------------------------------------
(* get_access_token up to the refresh. *)

\* Mutant: a token counts as live until the very end.
Lasting_nomargin(r) == r.expires_at > now

Lasting(r) == r.expires_at > now + Margin

TokenIn(r) == [grant |-> r.grant, until |-> r.until, expires_at |-> r.expires_at]

\* "HubSpot OAuth connection was not found"
ReadMissing(c, t) ==
  /\ pc[c] = "idle"
  /\ row[t] = NoRow
  /\ tenant' = [tenant EXCEPT ![c] = t]
  /\ Goto(c, "failed")
  /\ UNCHANGED <<now, tableVars, lock, nonce, account, existing, found, token>>

ReadLasting(c, t) ==
  /\ pc[c] = "idle"
  /\ row[t] # NoRow
  /\ Lasting(row[t])
  /\ tenant' = [tenant EXCEPT ![c] = t]
  /\ token' = [token EXCEPT ![c] = TokenIn(row[t])]
  /\ Goto(c, "returned")
  /\ UNCHANGED <<now, tableVars, lock, nonce, account, existing, found>>

ReadExpiring(c, t) ==
  /\ pc[c] = "idle"
  /\ row[t] # NoRow
  /\ ~Lasting(row[t])
  /\ tenant' = [tenant EXCEPT ![c] = t]
  /\ existing' = [existing EXCEPT ![c] = row[t]]
  /\ Goto(c, "waiting")
  /\ UNCHANGED <<now, tableVars, lock, nonce, account, found, token>>

\* Mutant: the row that was read before the wait is used.
RowUnderLock_stale(c) == existing[c]

\* The row is read again once the lock is held; a row is never deleted.
RowUnderLock(c) == row[tenant[c]]

LockFree(c) == lock[ProviderOf[c]][tenant[c]] = NoOne

\* Somebody else refreshed it: the lock is given back at once.
LockLasting(c) ==
  /\ pc[c] = "waiting"
  /\ LockFree(c)
  /\ Lasting(RowUnderLock(c))
  /\ token' = [token EXCEPT ![c] = TokenIn(RowUnderLock(c))]
  /\ existing' = [existing EXCEPT ![c] = NoRow]
  /\ Goto(c, "returned")
  /\ UNCHANGED <<now, tableVars, lock, tenant, nonce, account, found>>

LockExpiring(c) ==
  /\ pc[c] = "waiting"
  /\ LockFree(c)
  /\ ~Lasting(RowUnderLock(c))
  /\ lock' = [lock EXCEPT ![ProviderOf[c]][tenant[c]] = c]
  /\ existing' = [existing EXCEPT ![c] = RowUnderLock(c)]
  /\ Goto(c, "refreshing")
  /\ UNCHANGED <<now, tableVars, tenant, nonce, account, found, token>>

-----------------------------------------------------------------------------
(* The call to HubSpot's token endpoint. *)

\* HubSpot gives the grant of the refresh token a new access token.
IssueRefresh(c) ==
  /\ pc[c] = "refreshing"
  /\ token' = [token EXCEPT ![c] =
       [grant |-> existing[c].grant, until |-> now + Lifetime, expires_at |-> 0]]
  /\ Goto(c, "receiving")
  /\ UNCHANGED <<now, tableVars, lock, tenant, nonce, account, existing, found>>

\* HubSpot gives the code a grant, on the account its user chose.
IssueGrant(k, a) ==
  /\ pc[k] = "exchanging"
  /\ account' = [account EXCEPT ![k] = a]
  /\ token' = [token EXCEPT ![k] =
       [grant |-> k, until |-> now + Lifetime, expires_at |-> 0]]
  /\ Goto(k, "receiving")
  /\ UNCHANGED <<now, tableVars, lock, tenant, nonce, existing, found>>

\* The answer arrives in time and is dated by its arrival.
Receive(h) ==
  /\ pc[h] = "receiving"
  /\ now + Lifetime <= token[h].until + Latency
  /\ token' = [token EXCEPT ![h].expires_at = now + Lifetime]
  /\ Goto(h, "saving")
  /\ UNCHANGED <<now, tableVars, lock, tenant, nonce, account, existing, found>>

\* Rejected, timed out or unreadable.
CallFails(h) ==
  /\ pc[h] \in Asking
  /\ Goto(h, "failed")
  /\ Release(h)
  /\ existing' = [existing EXCEPT ![h] = NoRow]
  /\ token' = [token EXCEPT ![h] = NoToken]
  /\ UNCHANGED <<now, tableVars, tenant, nonce, account, found>>

-----------------------------------------------------------------------------
(* save_token, in a transaction of its own. *)

\* Where the handler's new tokens belong: a refresh answers for the account of
\* the grant it refreshed.
AccountOf(h) == account[token[h].grant]

\* session.get
LoadRow(h) ==
  /\ pc[h] = "saving"
  /\ found' = [found EXCEPT ![h] = row[tenant[h]].account]
  /\ Goto(h, "flushing")
  /\ UNCHANGED <<now, tableVars, lock, tenant, nonce, account, existing, token>>

\* Mutant: the tokens are saved under the tenant that connected the account first.
Saved_misplaced(h) ==
  LET t == CHOOSE t \in Tenants :
             row[t].account = AccountOf(h) \/ \A u \in Tenants : row[u].account # AccountOf(h)
  IN [row EXCEPT ![t] = [account |-> AccountOf(h), grant |-> token[h].grant,
                         until |-> token[h].until, expires_at |-> token[h].expires_at]]

\* An insert writes every column.  An update writes the columns that differ
\* from what session.get found: the encrypted tokens and the times always do,
\* the account only when it has changed.
Saved(h) ==
  LET t == tenant[h]
      written == IF found[h] = AccountOf(h) THEN row[t].account ELSE AccountOf(h)
  IN [row EXCEPT ![t] = [account |-> written, grant |-> token[h].grant,
                         until |-> token[h].until, expires_at |-> token[h].expires_at]]

\* The primary key (an insert meets a row) or the unique hubspot_account_id.
Conflicts(h) ==
  LET t == tenant[h] IN
  \/ found[h] = NoOne /\ row[t] # NoRow
  \/ \E u \in Tenants \ {t} : Saved(h)[t].account = row[u].account

Flush(h) ==
  /\ pc[h] = "flushing"
  /\ ~Conflicts(h)
  /\ row' = Saved(h)
  /\ saver' = [saver EXCEPT ![tenant[h]] = h]
  /\ Goto(h, IF h \in Callers THEN "returned" ELSE "connected")
  /\ Release(h)
  /\ existing' = [existing EXCEPT ![h] = NoRow]
  /\ found' = [found EXCEPT ![h] = NoOne]
  /\ UNCHANGED <<now, states, state_expires, starter, tenant, nonce, account, token>>

\* A conflict, or the database failed.
SaveFails(h) ==
  /\ pc[h] \in Saving
  /\ Goto(h, "failed")
  /\ Release(h)
  /\ existing' = [existing EXCEPT ![h] = NoRow]
  /\ found' = [found EXCEPT ![h] = NoOne]
  /\ token' = [token EXCEPT ![h] = NoToken]
  /\ UNCHANGED <<now, tableVars, tenant, nonce, account>>

-----------------------------------------------------------------------------
\* The process dies with the handlers and the locks.
Crash ==
  /\ \E h \in Handlers : pc[h] \in Live
  /\ pc' = [h \in Handlers |-> IF pc[h] \in Live THEN "failed" ELSE pc[h]]
  /\ lock' = [p \in Providers |-> [t \in Tenants |-> NoOne]]
  /\ existing' = [h \in Handlers |-> NoRow]
  /\ found' = [h \in Handlers |-> NoOne]
  /\ token' = [h \in Handlers |-> IF pc[h] \in Live THEN NoToken ELSE token[h]]
  /\ UNCHANGED <<now, tableVars, tenant, nonce, account>>

Tick ==
  /\ now < MaxTime
  /\ now' = now + 1
  /\ UNCHANGED <<tableVars, lock, pc, tenant, nonce, account, existing, found, token>>

Arrive ==
  \/ \E n \in Nonces, t \in Tenants : Start(n, t)
  \/ \E k \in Callbacks, n \in Nonces : Consume(k, n) \/ Reject(k, n)
  \/ \E c \in Callers, t \in Tenants :
       ReadMissing(c, t) \/ ReadLasting(c, t) \/ ReadExpiring(c, t)

CallerContinues(c) == LockLasting(c) \/ LockExpiring(c) \/ IssueRefresh(c)
CallbackContinues(k) == \E a \in Accounts : IssueGrant(k, a)
Continue(h) ==
  \/ h \in Callers /\ CallerContinues(h)
  \/ h \in Callbacks /\ CallbackContinues(h)
  \/ Receive(h) \/ CallFails(h) \/ LoadRow(h) \/ Flush(h) \/ SaveFails(h)

Next ==
  \/ Arrive
  \/ \E h \in Handlers : Continue(h)
  \/ Crash
  \/ Tick

Spec == Init /\ [][Next]_vars

\* Every await ends: HTTP calls time out, and asyncio.Lock serves its waiters in
\* the order they came.
FairSpec == Spec /\ \A h \in Handlers : WF_vars(Continue(h))

-----------------------------------------------------------------------------
Admitted(k) == nonce[k] # NoOne

\* A tenant's connection, and every token a caller is given, stems from a
\* callback that presented a state this tenant had been given, and no other
\* callback was let in with that state: consume deletes it before the exchange.
AuthorisedFor(t, k) ==
  /\ Admitted(k)
  /\ starter[nonce[k]] = t
  /\ \A j \in Callbacks \ {k} : nonce[j] # nonce[k]

ConnectionIsAuthorised ==
  /\ \A t \in Tenants : row[t] # NoRow => AuthorisedFor(t, row[t].grant)
  /\ \A c \in Callers : pc[c] = "returned" => AuthorisedFor(tenant[c], token[c].grant)

\* A token from the table is alive when it is returned, although the program
\* dates tokens by their arrival: the margin of get_access_token covers that.
ReturnedTokenLive ==
  [][\A c \in Callers :
       pc[c] \in {"idle", "waiting"} /\ pc'[c] = "returned" => token'[c].until > now]_vars

\* Between a caller's read under the lock and its save, no caller of the same
\* provider saves the tenant's tokens: one refresh serves all who wait.
RefreshIsAtomic ==
  \A c \in Callers : pc[c] \in Refreshing /\ row[tenant[c]] # existing[c] =>
    saver[tenant[c]] \notin {d \in Callers : ProviderOf[d] = ProviderOf[c]}

\* No refresh lock outlives its refresh: whoever holds one is between its read and
\* the end of its "async with", under the provider and for the tenant it asked.
\* WaitersReturn rests on this.
LockHasHolder ==
  \A p \in Providers, t \in Tenants : lock[p][t] # NoOne =>
    LET c == lock[p][t] IN pc[c] \in Refreshing /\ ProviderOf[c] = p /\ tenant[c] = t

\* Whoever waits for a refresh gets its turn or a token, whatever becomes of the
\* refreshes before.
WaitersReturn ==
  \A c \in Callers : pc[c] = "waiting" ~> pc[c] \in {"returned", "failed"}

-----------------------------------------------------------------------------
(* The inductive invariant behind the safety properties. *)

\* The program believes in a token no longer than its answer may have taken.
Dated(x) == x.expires_at <= x.until + Latency

StateInv(n) ==
  states[n] # NoOne =>
    /\ starter[n] = states[n]
    /\ \A k \in Callbacks : nonce[k] # n

RowInv(t) ==
  row[t] # NoRow =>
    /\ row[t].grant \in Callbacks
    /\ AuthorisedFor(t, row[t].grant)
    /\ Dated(row[t])

CallbackInv(k) ==
  /\ pc[k] = "idle" => ~Admitted(k)
  /\ pc[k] \in Asking \cup Saving => Admitted(k)
  /\ Admitted(k) => AuthorisedFor(tenant[k], k) /\ tenant[k] \in Tenants
  /\ pc[k] \in {"receiving"} \cup Saving => token[k].grant = k
  /\ pc[k] \notin {"waiting", "refreshing", "returned"}

CallerInv(c) ==
  /\ pc[c] \in Live \cup {"returned"} => tenant[c] \in Tenants
  /\ pc[c] \notin {"exchanging", "connected"}
  /\ pc[c] = "waiting" => row[tenant[c]] # NoRow
  /\ pc[c] \in Refreshing =>
       /\ lock[ProviderOf[c]][tenant[c]] = c
       /\ existing[c].grant \in Callbacks
       /\ AuthorisedFor(tenant[c], existing[c].grant)
  /\ pc[c] \in {"receiving", "returned"} \cup Saving =>
       /\ token[c].grant \in Callbacks
       /\ AuthorisedFor(tenant[c], token[c].grant)

IndInv ==
  /\ TypeOK
  /\ \A n \in Nonces : StateInv(n)
  /\ \A t \in Tenants : RowInv(t)
  /\ \A k \in Callbacks : CallbackInv(k)
  /\ \A c \in Callers : CallerInv(c)
  /\ \A h \in Handlers : pc[h] \in Saving => Dated(token[h])
  /\ RefreshIsAtomic

-----------------------------------------------------------------------------
(* What the code says of itself and does not do; each is refuted by a run. *)

\* A tenant that was told its authorization is complete keeps that grant until a
\* callback brings another one (src/src/app/api/hubspot_oauth.py:76).
CompletedAuthorizationIsKept ==
  [][\A t \in Tenants : row'[t].grant # row[t].grant =>
       row'[t].grant = saver'[t]]_vars

\* No two tenants hold tokens of one HubSpot account
\* (src/src/app/db/oauth_models.py:21).
AccountServesOneTenant ==
  \A t, u \in Tenants : t # u /\ row[t] # NoRow /\ row[u] # NoRow =>
    account[row[t].grant] # account[row[u].grant]
=============================================================================
