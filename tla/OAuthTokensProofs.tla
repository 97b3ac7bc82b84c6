------------------------- MODULE OAuthTokensProofs -------------------------
(***************************************************************************)
(* Proofs about OAuthTokens for any number of tenants, callers, providers  *)
(* and callbacks.                                                          *)
(***************************************************************************)
EXTENDS OAuthTokens, TLAPS

\* The invariant without its types, as it is proved: part by part.
StatesInv == \A n \in Nonces : StateInv(n)
RowsInv == \A t \in Tenants : RowInv(t)
CallbacksInv == \A k \in Callbacks : CallbackInv(k)
CallersInv == \A c \in Callers : CallerInv(c)
DatesInv == \A h \in Handlers : pc[h] \in Saving => Dated(token[h])

\* The empty row and the empty token have the types of rows and tokens, and a
\* row that has a grant is not the empty one.
LEMMA Empties ==
  /\ NoRow \in RowTypes
  /\ NoToken \in TokenTypes
  /\ NoRow.grant \notin Callbacks
BY HandlersAssumption DEF NoRow, NoToken, RowTypes, TokenTypes

\* Every step of the model is one of its actions.
LEMMA Steps ==
  ASSUME [Next]_vars
  PROVE  \/ \E n \in Nonces, t \in Tenants : Start(n, t)
         \/ \E k \in Callbacks, n \in Nonces : Consume(k, n)
         \/ \E k \in Callbacks, n \in Nonces : Reject(k, n)
         \/ \E c \in Callers, t \in Tenants : ReadMissing(c, t)
         \/ \E c \in Callers, t \in Tenants : ReadLasting(c, t)
         \/ \E c \in Callers, t \in Tenants : ReadExpiring(c, t)
         \/ \E c \in Callers : LockLasting(c)
         \/ \E c \in Callers : LockExpiring(c)
         \/ \E c \in Callers : IssueRefresh(c)
         \/ \E k \in Callbacks, a \in Accounts : IssueGrant(k, a)
         \/ \E h \in Handlers : Receive(h)
         \/ \E h \in Handlers : CallFails(h)
         \/ \E h \in Handlers : LoadRow(h)
         \/ \E h \in Handlers : Flush(h)
         \/ \E h \in Handlers : SaveFails(h)
         \/ Crash
         \/ Tick
         \/ UNCHANGED vars
BY DEF Next, Arrive, Continue, CallerContinues, CallbackContinues

\* Releasing keeps the type of the locks.
LEMMA ReleaseType ==
  ASSUME TypeOK, NEW h \in Handlers, Release(h)
  PROVE  lock' \in [Providers -> [Tenants -> Callers \cup {NoOne}]]
BY DEF TypeOK, Release

\* What Flush writes is a row.
LEMMA SavedType ==
  ASSUME IndInv, NEW h \in Handlers, pc[h] = "flushing"
  PROVE  /\ tenant[h] \in Tenants
         /\ token[h].grant \in Callbacks
         /\ AuthorisedFor(tenant[h], token[h].grant)
         /\ Saved(h) \in [Tenants -> RowTypes]
<1>1. tenant[h] \in Tenants /\ token[h].grant \in Callbacks
      /\ AuthorisedFor(tenant[h], token[h].grant)
  <2>1. CASE h \in Callers
    BY <2>1 DEF IndInv, CallerInv, Live, Saving
  <2>2. CASE h \in Callbacks
    BY <2>2 DEF IndInv, CallbackInv, Saving
  <2>3. QED BY <2>1, <2>2 DEF Handlers
<1>2. Saved(h) \in [Tenants -> RowTypes]
  BY <1>1 DEF IndInv, TypeOK, Saved, AccountOf, RowTypes, TokenTypes
<1>3. QED BY <1>1, <1>2

\* Every step keeps the types.
LEMMA TypeStep ==
  ASSUME IndInv, [Next]_vars
  PROVE  TypeOK'
<1> USE DEF TypeOK, Goto, tableVars, Handlers, Live, Asking, Saving, Ended
<1>0. TypeOK /\ now \in Nat /\ StateTTL \in Nat /\ Lifetime \in Nat /\ MaxTime \in Nat
  BY TimesAssumption DEF IndInv
<1>1. ASSUME NEW n \in Nonces, NEW t \in Tenants, Start(n, t) PROVE TypeOK'
  BY <1>0, <1>1 DEF Start, StateExpiry
<1>2. ASSUME NEW k \in Callbacks, NEW n \in Nonces, Consume(k, n) PROVE TypeOK'
  BY <1>0, <1>2 DEF Consume, Delete
<1>3. ASSUME NEW k \in Callbacks, NEW n \in Nonces, Reject(k, n) PROVE TypeOK'
  BY <1>0, <1>3 DEF Reject, Delete
<1>4. ASSUME NEW c \in Callers, NEW t \in Tenants, ReadMissing(c, t) PROVE TypeOK'
  BY <1>0, <1>4 DEF ReadMissing
<1>5. ASSUME NEW c \in Callers, NEW t \in Tenants, ReadLasting(c, t) PROVE TypeOK'
  BY <1>0, <1>5 DEF ReadLasting, TokenIn, RowTypes, TokenTypes
<1>6. ASSUME NEW c \in Callers, NEW t \in Tenants, ReadExpiring(c, t) PROVE TypeOK'
  BY <1>0, <1>6 DEF ReadExpiring
<1>7. ASSUME NEW c \in Callers, LockLasting(c) PROVE TypeOK'
  <2>1. row[tenant[c]] \in RowTypes
    BY <1>0, <1>7 DEF LockLasting, IndInv, CallerInv
  <2>2. QED
    BY <1>0, <1>7, <2>1, Empties DEF LockLasting, RowUnderLock, TokenIn, RowTypes, TokenTypes
<1>8. ASSUME NEW c \in Callers, LockExpiring(c) PROVE TypeOK'
  <2>1. row[tenant[c]] \in RowTypes
    BY <1>0, <1>8 DEF LockExpiring, IndInv, CallerInv
  <2>2. QED
    BY <1>0, <1>8, <2>1, HandlersAssumption DEF LockExpiring, RowUnderLock
<1>9. ASSUME NEW c \in Callers, IssueRefresh(c) PROVE TypeOK'
  BY <1>0, <1>9 DEF IssueRefresh, RowTypes, TokenTypes
<1>10. ASSUME NEW k \in Callbacks, NEW a \in Accounts, IssueGrant(k, a) PROVE TypeOK'
  BY <1>0, <1>10 DEF IssueGrant, TokenTypes
<1>11. ASSUME NEW h \in Handlers, Receive(h) PROVE TypeOK'
  <2>1. token[h] \in TokenTypes /\ now + Lifetime \in Nat
    BY <1>0
  <2>2. [token[h] EXCEPT !.expires_at = now + Lifetime] \in TokenTypes
    BY <2>1 DEF TokenTypes
  <2>3. token' \in [Handlers -> TokenTypes]
    BY <1>0, <1>11, <2>2 DEF Receive
  <2>4. QED BY <1>0, <1>11, <2>3 DEF Receive
<1>12. ASSUME NEW h \in Handlers, CallFails(h) PROVE TypeOK'
  BY <1>0, <1>12, ReleaseType, Empties DEF CallFails
<1>13. ASSUME NEW h \in Handlers, LoadRow(h) PROVE TypeOK'
  <2>1. row[tenant[h]] \in RowTypes
    BY <1>0, <1>13 DEF LoadRow, IndInv, CallerInv, CallbackInv
  <2>2. QED BY <1>0, <1>13, <2>1 DEF LoadRow, RowTypes
<1>14. ASSUME NEW h \in Handlers, Flush(h) PROVE TypeOK'
  <2>1. pc[h] = "flushing" /\ Release(h)
    BY <1>14 DEF Flush
  <2>2. row' \in [Tenants -> RowTypes]
    BY <1>14, <2>1, SavedType DEF Flush
  <2>3. lock' \in [Providers -> [Tenants -> Callers \cup {NoOne}]]
    BY <1>0, <2>1, ReleaseType
  <2>4. QED BY <1>0, <1>14, <2>2, <2>3, Empties DEF Flush
<1>15. ASSUME NEW h \in Handlers, SaveFails(h) PROVE TypeOK'
  BY <1>0, <1>15, ReleaseType, Empties DEF SaveFails
<1>16. ASSUME Crash PROVE TypeOK'
  BY <1>0, <1>16, Empties DEF Crash
<1>17. ASSUME Tick PROVE TypeOK'
  BY <1>0, <1>17 DEF Tick
<1>18. ASSUME UNCHANGED vars PROVE TypeOK'
  BY <1>0, <1>18 DEF vars
<1>19. QED
  BY <1>1, <1>2, <1>3, <1>4, <1>5, <1>6, <1>7, <1>8, <1>9, <1>10, <1>11, <1>12,
     <1>13, <1>14, <1>15, <1>16, <1>17, <1>18, Steps

-----------------------------------------------------------------------------
\* The states and their callbacks change in Start, Consume and Reject only.
LEMMA StatesKept ==
  ASSUME [Next]_vars,
         ~\E n \in Nonces, t \in Tenants : Start(n, t),
         ~\E k \in Callbacks, n \in Nonces : Consume(k, n) \/ Reject(k, n)
  PROVE  UNCHANGED <<states, starter, nonce>>
<1> USE DEF tableVars
<1>1. ASSUME NEW c \in Callers, NEW t \in Tenants,
             ReadMissing(c, t) \/ ReadLasting(c, t) \/ ReadExpiring(c, t)
      PROVE UNCHANGED <<states, starter, nonce>>
  BY <1>1 DEF ReadMissing, ReadLasting, ReadExpiring
<1>2. ASSUME NEW c \in Callers, LockLasting(c) \/ LockExpiring(c) \/ IssueRefresh(c)
      PROVE UNCHANGED <<states, starter, nonce>>
  BY <1>2 DEF LockLasting, LockExpiring, IssueRefresh
<1>3. ASSUME NEW k \in Callbacks, NEW a \in Accounts, IssueGrant(k, a)
      PROVE UNCHANGED <<states, starter, nonce>>
  BY <1>3 DEF IssueGrant
<1>4. ASSUME NEW h \in Handlers,
             Receive(h) \/ CallFails(h) \/ LoadRow(h) \/ Flush(h) \/ SaveFails(h)
      PROVE UNCHANGED <<states, starter, nonce>>
  BY <1>4 DEF Receive, CallFails, LoadRow, Flush, SaveFails
<1>5. ASSUME Crash \/ Tick \/ UNCHANGED vars
      PROVE UNCHANGED <<states, starter, nonce>>
  BY <1>5 DEF Crash, Tick, vars
<1>6. QED BY <1>1, <1>2, <1>3, <1>4, <1>5, Steps

\* Who is authorised stays so: a state is given to one tenant for good, and a
\* state that let a callback in is gone before another one can present it.
LEMMA AuthorisedStays ==
  ASSUME IndInv, [Next]_vars, NEW t \in Tenants, NEW k \in Callbacks, AuthorisedFor(t, k)
  PROVE  AuthorisedFor(t, k)'
<1> USE DEF AuthorisedFor, Admitted
<1>0. /\ nonce \in [Callbacks -> Nonces \cup {NoOne}]
      /\ starter \in [Nonces -> Tenants \cup {NoOne}]
      /\ nonce[k] \in Nonces /\ starter[nonce[k]] # NoOne
  BY HandlersAssumption DEF IndInv, TypeOK
<1>1. ASSUME NEW n \in Nonces, NEW u \in Tenants, Start(n, u) PROVE AuthorisedFor(t, k)'
  BY <1>0, <1>1 DEF Start
<1>2. ASSUME NEW j \in Callbacks, NEW n \in Nonces, Consume(j, n) PROVE AuthorisedFor(t, k)'
  <2>1. nonce[k] # n
    BY <1>2 DEF Consume, IndInv, StateInv
  <2>2. j # k
    BY <1>2 DEF Consume, IndInv, CallbackInv
  <2>3. nonce' = [nonce EXCEPT ![j] = n] /\ starter' = starter
    BY <1>2 DEF Consume
  <2>4. QED BY <1>0, <2>1, <2>2, <2>3
<1>3. ASSUME NEW j \in Callbacks, NEW n \in Nonces, Reject(j, n) PROVE AuthorisedFor(t, k)'
  BY <1>3 DEF Reject
<1>4. CASE UNCHANGED <<states, starter, nonce>>
  BY <1>4
<1>5. QED BY <1>1, <1>2, <1>3, <1>4, StatesKept

\* A state that can still be consumed has let nobody in.
LEMMA StatesStep ==
  ASSUME IndInv, [Next]_vars
  PROVE  StatesInv'
<1> SUFFICES ASSUME NEW n \in Nonces PROVE StateInv(n)'
  BY DEF StatesInv
<1> USE DEF StateInv
<1>0. /\ StateInv(n)
      /\ nonce \in [Callbacks -> Nonces \cup {NoOne}]
      /\ starter \in [Nonces -> Tenants \cup {NoOne}]
      /\ states \in [Nonces -> Tenants \cup {NoOne}]
  BY DEF IndInv, TypeOK
<1>1. ASSUME NEW m \in Nonces, NEW t \in Tenants, Start(m, t) PROVE StateInv(n)'
  <2>1. \A k \in Callbacks : nonce[k] # m
    <3> SUFFICES ASSUME NEW k \in Callbacks, nonce[k] = m PROVE FALSE
      OBVIOUS
    <3>1. starter[m] = tenant[k] /\ tenant[k] \in Tenants
      BY HandlersAssumption DEF IndInv, CallbackInv, Admitted, AuthorisedFor
    <3>2. QED BY <1>1, <3>1, HandlersAssumption DEF Start
  <2>2. QED BY <1>0, <1>1, <2>1 DEF Start
<1>2. ASSUME NEW k \in Callbacks, NEW m \in Nonces, Consume(k, m) PROVE StateInv(n)'
  BY <1>0, <1>2 DEF Consume, Delete
<1>3. ASSUME NEW k \in Callbacks, NEW m \in Nonces, Reject(k, m) PROVE StateInv(n)'
  BY <1>0, <1>3 DEF Reject, Delete
<1>4. CASE UNCHANGED <<states, starter, nonce>>
  BY <1>0, <1>4
<1>5. QED BY <1>1, <1>2, <1>3, <1>4, StatesKept

\* Only Flush writes a row.
LEMMA RowsKept ==
  ASSUME [Next]_vars, ~\E h \in Handlers : Flush(h)
  PROVE  UNCHANGED <<row, saver>>
<1> USE DEF tableVars
<1>1. ASSUME NEW n \in Nonces, NEW t \in Tenants, Start(n, t) PROVE UNCHANGED <<row, saver>>
  BY <1>1 DEF Start
<1>2. ASSUME NEW k \in Callbacks, NEW n \in Nonces, Consume(k, n) \/ Reject(k, n)
      PROVE UNCHANGED <<row, saver>>
  BY <1>2 DEF Consume, Reject
<1>3. ASSUME NEW c \in Callers, NEW t \in Tenants,
             ReadMissing(c, t) \/ ReadLasting(c, t) \/ ReadExpiring(c, t)
      PROVE UNCHANGED <<row, saver>>
  BY <1>3 DEF ReadMissing, ReadLasting, ReadExpiring
<1>4. ASSUME NEW c \in Callers, LockLasting(c) \/ LockExpiring(c) \/ IssueRefresh(c)
      PROVE UNCHANGED <<row, saver>>
  BY <1>4 DEF LockLasting, LockExpiring, IssueRefresh
<1>5. ASSUME NEW k \in Callbacks, NEW a \in Accounts, IssueGrant(k, a)
      PROVE UNCHANGED <<row, saver>>
  BY <1>5 DEF IssueGrant
<1>6. ASSUME NEW h \in Handlers, Receive(h) \/ CallFails(h) \/ LoadRow(h) \/ SaveFails(h)
      PROVE UNCHANGED <<row, saver>>
  BY <1>6 DEF Receive, CallFails, LoadRow, SaveFails
<1>7. ASSUME Crash \/ Tick \/ UNCHANGED vars PROVE UNCHANGED <<row, saver>>
  BY <1>7 DEF Crash, Tick, vars
<1>8. QED BY <1>1, <1>2, <1>3, <1>4, <1>5, <1>6, <1>7, Steps

\* A row belongs to its tenant's grant and is dated cautiously.
LEMMA RowsStep ==
  ASSUME IndInv, [Next]_vars
  PROVE  RowsInv'
<1> SUFFICES ASSUME NEW t \in Tenants, row'[t] # NoRow
             PROVE \E g \in Callbacks :
                     row'[t].grant = g /\ AuthorisedFor(t, g)' /\ Dated(row'[t])
  BY DEF RowsInv, RowInv, Dated, AuthorisedFor, Admitted, NoRow
<1>1. ASSUME NEW h \in Handlers, Flush(h), tenant[h] = t
      PROVE \E g \in Callbacks :
              row'[t].grant = g /\ AuthorisedFor(t, g)' /\ Dated(row'[t])
  <2>1. /\ token[h].grant \in Callbacks
        /\ AuthorisedFor(t, token[h].grant)
        /\ Dated(token[h])
    BY <1>1, SavedType DEF Flush, IndInv, Saving
  <2>2. /\ row'[t].grant = token[h].grant
        /\ row'[t].until = token[h].until
        /\ row'[t].expires_at = token[h].expires_at
    BY <1>1 DEF Flush, Saved, IndInv, TypeOK
  <2>3. PICK g \in Callbacks : g = token[h].grant
    BY <2>1
  <2>4. AuthorisedFor(t, g)'
    BY <2>1, <2>3, AuthorisedStays
  <2>5. QED BY <2>1, <2>2, <2>3, <2>4 DEF Dated
<1>2. ASSUME row'[t] = row[t]
      PROVE \E g \in Callbacks :
              row'[t].grant = g /\ AuthorisedFor(t, g)' /\ Dated(row'[t])
  <2>1. RowInv(t) /\ row[t] # NoRow
    BY <1>2 DEF IndInv
  <2>2. PICK g \in Callbacks : g = row[t].grant
    BY <2>1 DEF RowInv
  <2>3. AuthorisedFor(t, g)'
    BY <2>1, <2>2, AuthorisedStays DEF RowInv
  <2>4. QED BY <1>2, <2>1, <2>2, <2>3 DEF RowInv
<1>3. ASSUME NEW h \in Handlers, Flush(h), tenant[h] # t PROVE row'[t] = row[t]
  <2>1. row' = Saved(h)
    BY <1>3 DEF Flush
  <2>2. QED BY <1>3, <2>1 DEF Saved, IndInv, TypeOK
<1>4. CASE UNCHANGED <<row, saver>>
  BY <1>2, <1>4
<1>5. QED BY <1>1, <1>2, <1>3, <1>4, RowsKept

-----------------------------------------------------------------------------
\* A step that leaves a callback's own state alone keeps what is known of it.
LEMMA QuietCallback ==
  ASSUME IndInv, [Next]_vars, NEW k \in Callbacks,
         pc'[k] = pc[k], nonce'[k] = nonce[k], tenant'[k] = tenant[k], token'[k] = token[k]
  PROVE  CallbackInv(k)'
<1>1. CallbackInv(k)
  BY DEF IndInv
<1>2. ASSUME Admitted(k) PROVE AuthorisedFor(tenant[k], k)'
  <2>1. PICK t \in Tenants : t = tenant[k]
    BY <1>1, <1>2 DEF CallbackInv
  <2>2. AuthorisedFor(t, k)'
    BY <1>1, <1>2, <2>1, AuthorisedStays DEF CallbackInv
  <2>3. QED BY <2>1, <2>2 DEF AuthorisedFor, Admitted
<1>3. QED BY <1>1, <1>2 DEF CallbackInv, Admitted

\* A callback works under the state it presented, and has a grant of its own.
LEMMA CallbacksStep ==
  ASSUME IndInv, [Next]_vars
  PROVE  CallbacksInv'
<1> SUFFICES ASSUME NEW k \in Callbacks PROVE CallbackInv(k)'
  BY DEF CallbacksInv
<1> USE DEF Goto, tableVars, Handlers, Asking, Saving
<1>0. TypeOK /\ CallbackInv(k) /\ k \notin Callers
  BY HandlersAssumption DEF IndInv
<1>1. ASSUME NEW n \in Nonces, Consume(k, n) PROVE CallbackInv(k)'
  <2>1. /\ nonce' = [nonce EXCEPT ![k] = n]
        /\ starter' = starter
        /\ pc'[k] = "exchanging"
        /\ tenant'[k] = states[n]
        /\ states[n] \in Tenants
    BY <1>0, <1>1 DEF Consume, TypeOK
  <2>2. starter[n] = states[n] /\ \A j \in Callbacks : nonce[j] # n
    BY <1>1 DEF Consume, IndInv, StateInv
  <2>3. AuthorisedFor(tenant[k], k)' /\ Admitted(k)'
    BY <1>0, <2>1, <2>2, HandlersAssumption DEF AuthorisedFor, Admitted, TypeOK
  <2>4. QED BY <2>1, <2>3 DEF CallbackInv
<1>2. ASSUME NEW n \in Nonces, Reject(k, n) PROVE CallbackInv(k)'
  <2>1. pc'[k] = "failed" /\ ~Admitted(k) /\ nonce' = nonce
    BY <1>0, <1>2 DEF Reject, CallbackInv, TypeOK
  <2>2. QED BY <2>1 DEF CallbackInv, Admitted
<1>3. ASSUME NEW a \in Accounts, IssueGrant(k, a) PROVE CallbackInv(k)'
  <2>1. /\ pc'[k] = "receiving" /\ token'[k].grant = k
        /\ UNCHANGED <<nonce, starter, tenant>>
    BY <1>0, <1>3 DEF IssueGrant, TypeOK
  <2>2. QED BY <1>0, <1>3, <2>1 DEF CallbackInv, AuthorisedFor, Admitted, IssueGrant
<1>4. ASSUME Receive(k) PROVE CallbackInv(k)'
  <2>1. token[k] \in TokenTypes
    BY <1>0 DEF TypeOK
  <2>2. /\ pc[k] = "receiving" /\ pc'[k] = "saving" /\ token'[k].grant = token[k].grant
        /\ UNCHANGED <<nonce, starter, tenant>>
    BY <1>0, <1>4, <2>1 DEF Receive, TypeOK, TokenTypes
  <2>3. QED BY <1>0, <2>2 DEF CallbackInv, AuthorisedFor, Admitted
<1>5. ASSUME LoadRow(k) \/ Flush(k) PROVE CallbackInv(k)'
  <2>1. /\ pc[k] \in Saving /\ pc'[k] \in {"flushing", "connected"}
        /\ UNCHANGED <<nonce, starter, tenant, token>>
    BY <1>0, <1>5 DEF LoadRow, Flush, TypeOK
  <2>2. QED BY <1>0, <2>1 DEF CallbackInv, AuthorisedFor, Admitted
<1>6. ASSUME CallFails(k) \/ SaveFails(k) PROVE CallbackInv(k)'
  <2>1. /\ pc[k] # "idle" /\ pc'[k] = "failed"
        /\ UNCHANGED <<nonce, starter, tenant>>
    BY <1>0, <1>6 DEF CallFails, SaveFails, TypeOK
  <2>2. QED BY <1>0, <2>1 DEF CallbackInv, AuthorisedFor, Admitted
<1>7. ASSUME Crash PROVE CallbackInv(k)'
  <2>1. /\ pc'[k] \in {pc[k], "failed"} \ Live
        /\ pc'[k] = "idle" => pc[k] = "idle"
        /\ pc'[k] = "returned" => pc[k] = "returned"
        /\ UNCHANGED <<nonce, starter, tenant>>
    BY <1>0, <1>7 DEF Crash, Live, TypeOK
  <2>2. QED BY <1>0, <2>1 DEF CallbackInv, AuthorisedFor, Admitted, Live
<1>8. ASSUME NEW h \in Handlers, h # k,
             \/ Receive(h) \/ CallFails(h) \/ LoadRow(h) \/ Flush(h) \/ SaveFails(h)
             \/ \E n \in Nonces : h \in Callbacks /\ (Consume(h, n) \/ Reject(h, n))
             \/ \E a \in Accounts : h \in Callbacks /\ IssueGrant(h, a)
      PROVE CallbackInv(k)'
  BY <1>0, <1>8, QuietCallback
     DEF Receive, CallFails, LoadRow, Flush, SaveFails, Consume, Reject, IssueGrant, TypeOK
<1>9. ASSUME NEW c \in Callers,
             \/ LockLasting(c) \/ LockExpiring(c) \/ IssueRefresh(c)
             \/ \E t \in Tenants : ReadMissing(c, t) \/ ReadLasting(c, t) \/ ReadExpiring(c, t)
      PROVE CallbackInv(k)'
  BY <1>0, <1>9, QuietCallback
     DEF LockLasting, LockExpiring, IssueRefresh, ReadMissing, ReadLasting, ReadExpiring, TypeOK
<1>10. ASSUME Tick \/ UNCHANGED vars \/ \E n \in Nonces, t \in Tenants : Start(n, t)
      PROVE CallbackInv(k)'
  BY <1>0, <1>10, QuietCallback DEF Tick, vars, Start
<1>11. QED
  BY <1>1, <1>2, <1>3, <1>4, <1>5, <1>6, <1>7, <1>8, <1>9, <1>10, Steps

-----------------------------------------------------------------------------
\* The lock that a caller holds while it refreshes is taken from it by nobody
\* but itself.
LEMMA LockStays ==
  ASSUME IndInv, [Next]_vars, NEW c \in Callers,
         pc[c] \in Refreshing, pc'[c] \in Refreshing
  PROVE  lock'[ProviderOf[c]][tenant[c]] = c
<1> DEFINE p == ProviderOf[c]
           t == tenant[c]
<1> USE DEF tableVars, Goto, Handlers
<1>0. /\ TypeOK /\ p \in Providers /\ t \in Tenants /\ lock[p][t] = c /\ c # NoOne
      /\ c \notin Callbacks
  BY HandlersAssumption DEF IndInv, CallerInv, Refreshing, Live, Asking, Saving
<1>1. ASSUME NEW h \in Handlers, Release(h), pc'[h] \in Ended PROVE lock'[p][t] = c
  <2>1. h # c
    BY <1>1 DEF Ended, Refreshing, Saving
  <2>2. QED BY <1>0, <1>1, <2>1 DEF Release, TypeOK
<1>2. ASSUME NEW h \in Handlers, CallFails(h) \/ Flush(h) \/ SaveFails(h) PROVE lock'[p][t] = c
  <2>1. Release(h) /\ pc'[h] \in Ended
    BY <1>0, <1>2 DEF CallFails, Flush, SaveFails, TypeOK, Ended
  <2>2. QED BY <1>1, <2>1
<1>3. ASSUME NEW d \in Callers, LockExpiring(d) PROVE lock'[p][t] = c
  BY <1>0, <1>3 DEF LockExpiring, LockFree, TypeOK
<1>4. ASSUME Crash PROVE FALSE
  BY <1>0, <1>4 DEF Crash, TypeOK, Refreshing, Live, Asking, Saving
<1>5. CASE UNCHANGED lock
  BY <1>0, <1>5
<1>6. ASSUME NEW n \in Nonces, NEW u \in Tenants, Start(n, u) PROVE UNCHANGED lock
  BY <1>6 DEF Start
<1>7. ASSUME NEW k \in Callbacks, NEW n \in Nonces, Consume(k, n) \/ Reject(k, n)
      PROVE UNCHANGED lock
  BY <1>7 DEF Consume, Reject
<1>8. ASSUME NEW d \in Callers, NEW u \in Tenants,
             ReadMissing(d, u) \/ ReadLasting(d, u) \/ ReadExpiring(d, u)
      PROVE UNCHANGED lock
  BY <1>8 DEF ReadMissing, ReadLasting, ReadExpiring
<1>9. ASSUME NEW d \in Callers, LockLasting(d) \/ IssueRefresh(d) PROVE UNCHANGED lock
  BY <1>9 DEF LockLasting, IssueRefresh
<1>10. ASSUME NEW k \in Callbacks, NEW a \in Accounts, IssueGrant(k, a) PROVE UNCHANGED lock
  BY <1>10 DEF IssueGrant
<1>11. ASSUME NEW h \in Handlers, Receive(h) \/ LoadRow(h) PROVE UNCHANGED lock
  BY <1>11 DEF Receive, LoadRow
<1>12. ASSUME Tick \/ UNCHANGED vars PROVE UNCHANGED lock
  BY <1>12 DEF Tick, vars
<1>13. QED
  BY <1>2, <1>3, <1>4, <1>5, <1>6, <1>7, <1>8, <1>9, <1>10, <1>11, <1>12, Steps

\* A row that is there stays there.
LEMMA RowStays ==
  ASSUME IndInv, [Next]_vars, NEW t \in Tenants, row[t] # NoRow
  PROVE  row'[t] # NoRow
<1>1. ASSUME NEW h \in Handlers, Flush(h) PROVE row'[t] # NoRow
  <2>1. token[h].grant \in Callbacks /\ row' = Saved(h)
    BY <1>1, SavedType DEF Flush
  <2>2. CASE tenant[h] = t
    <3>1. row'[t].grant = token[h].grant
      BY <2>1, <2>2 DEF Saved, IndInv, TypeOK
    <3>2. QED BY <2>1, <3>1, Empties
  <2>3. CASE tenant[h] # t
    BY <2>1, <2>3 DEF Saved, IndInv, TypeOK
  <2>4. QED BY <2>2, <2>3
<1>2. QED BY <1>1, RowsKept

\* A step that leaves a caller's own state alone keeps what is known of it.
LEMMA QuietCaller ==
  ASSUME IndInv, [Next]_vars, NEW c \in Callers,
         pc'[c] = pc[c], tenant'[c] = tenant[c],
         existing'[c] = existing[c] \/ pc[c] \notin Refreshing, token'[c] = token[c]
  PROVE  CallerInv(c)'
<1>1. CallerInv(c)
  BY DEF IndInv
<1>2. ASSUME pc[c] = "waiting" PROVE row'[tenant[c]] # NoRow
  BY <1>1, <1>2, RowStays DEF CallerInv, Live
<1>3. ASSUME pc[c] \in Refreshing
      PROVE /\ lock'[ProviderOf[c]][tenant[c]] = c
            /\ existing'[c].grant \in Callbacks
            /\ AuthorisedFor(tenant[c], existing[c].grant)'
  <2>1. tenant[c] \in Tenants /\ existing[c].grant \in Callbacks
    BY <1>1, <1>3 DEF CallerInv, Live, Refreshing, Asking, Saving
  <2>2. PICK t \in Tenants, g \in Callbacks : t = tenant[c] /\ g = existing[c].grant
    BY <2>1
  <2>3. AuthorisedFor(t, g)'
    BY <1>1, <1>3, <2>2, AuthorisedStays DEF CallerInv
  <2>4. QED BY <1>3, <2>1, <2>2, <2>3, LockStays DEF AuthorisedFor, Admitted
<1>4. ASSUME pc[c] \in {"receiving", "returned"} \cup Saving
      PROVE /\ token'[c].grant \in Callbacks
            /\ AuthorisedFor(tenant[c], token[c].grant)'
  <2>1. tenant[c] \in Tenants /\ token[c].grant \in Callbacks
    BY <1>1, <1>4 DEF CallerInv, Live, Asking, Saving
  <2>2. PICK t \in Tenants, g \in Callbacks : t = tenant[c] /\ g = token[c].grant
    BY <2>1
  <2>3. AuthorisedFor(t, g)'
    BY <1>1, <1>4, <2>2, AuthorisedStays DEF CallerInv
  <2>4. QED BY <2>1, <2>2, <2>3 DEF AuthorisedFor, Admitted
<1>5. QED BY <1>1, <1>2, <1>3, <1>4 DEF CallerInv, AuthorisedFor, Admitted

\* A caller works for a tenant that is connected, holds the lock while it
\* refreshes, and returns tokens of that tenant.
LEMMA CallersStep ==
  ASSUME IndInv, [Next]_vars
  PROVE  CallersInv'
<1> SUFFICES ASSUME NEW c \in Callers PROVE CallerInv(c)'
  BY DEF CallersInv
<1> USE DEF Goto, tableVars, Handlers
<1>0. TypeOK /\ CallerInv(c) /\ c \notin Callbacks
  BY HandlersAssumption DEF IndInv
<1>a. ASSUME NEW t \in Tenants, row[t] # NoRow
      PROVE row[t].grant \in Callbacks /\ AuthorisedFor(t, row[t].grant)
  BY <1>a DEF IndInv, RowInv
<1>1. ASSUME NEW t \in Tenants, ReadMissing(c, t) PROVE CallerInv(c)'
  <2>1. pc'[c] = "failed"
    BY <1>0, <1>1 DEF ReadMissing, TypeOK
  <2>2. QED BY <2>1 DEF CallerInv, Live, Refreshing, Asking, Saving
<1>2. ASSUME NEW t \in Tenants, ReadLasting(c, t) PROVE CallerInv(c)'
  <2>1. /\ pc'[c] = "returned" /\ tenant'[c] = t /\ row[t] # NoRow
        /\ token'[c].grant = row[t].grant
        /\ UNCHANGED <<starter, nonce>>
    BY <1>0, <1>2 DEF ReadLasting, TokenIn, TypeOK
  <2>2. QED
    BY <1>a, <2>1 DEF CallerInv, AuthorisedFor, Admitted, Live, Refreshing, Asking, Saving
<1>3. ASSUME NEW t \in Tenants, ReadExpiring(c, t) PROVE CallerInv(c)'
  <2>1. pc'[c] = "waiting" /\ tenant'[c] = t /\ row'[t] # NoRow
    BY <1>0, <1>3 DEF ReadExpiring, TypeOK
  <2>2. QED BY <2>1 DEF CallerInv, Live, Refreshing, Asking, Saving
<1>4. ASSUME LockLasting(c) PROVE CallerInv(c)'
  <2>1. tenant[c] \in Tenants /\ row[tenant[c]] # NoRow
    BY <1>0, <1>4 DEF LockLasting, CallerInv, Live
  <2>2. /\ pc'[c] = "returned" /\ tenant' = tenant
        /\ token'[c].grant = row[tenant[c]].grant
        /\ UNCHANGED <<starter, nonce>>
    BY <1>0, <1>4 DEF LockLasting, RowUnderLock, TokenIn, TypeOK
  <2>3. QED
    BY <1>a, <2>1, <2>2 DEF CallerInv, AuthorisedFor, Admitted, Refreshing, Asking, Saving
<1>5. ASSUME LockExpiring(c) PROVE CallerInv(c)'
  <2>1. tenant[c] \in Tenants /\ row[tenant[c]] # NoRow /\ ProviderOf[c] \in Providers
    BY <1>0, <1>5, HandlersAssumption DEF LockExpiring, CallerInv, Live
  <2>2. /\ pc'[c] = "refreshing" /\ tenant' = tenant
        /\ existing'[c] = row[tenant[c]]
        /\ lock'[ProviderOf[c]][tenant[c]] = c
        /\ UNCHANGED <<starter, nonce>>
    BY <1>0, <1>5, <2>1 DEF LockExpiring, RowUnderLock, TypeOK
  <2>3. QED
    BY <1>a, <2>1, <2>2 DEF CallerInv, AuthorisedFor, Admitted, Saving
<1>6. ASSUME IssueRefresh(c) PROVE CallerInv(c)'
  <2>1. /\ pc[c] = "refreshing" /\ pc'[c] = "receiving"
        /\ token'[c].grant = existing[c].grant
        /\ UNCHANGED <<starter, nonce, lock, tenant, existing>>
    BY <1>0, <1>6 DEF IssueRefresh, TypeOK
  <2>2. QED
    BY <1>0, <2>1 DEF CallerInv, AuthorisedFor, Admitted, Refreshing, Live, Asking, Saving
<1>7. ASSUME Receive(c) PROVE CallerInv(c)'
  <2>1. token[c] \in TokenTypes
    BY <1>0 DEF TypeOK
  <2>2. /\ pc[c] = "receiving" /\ pc'[c] = "saving"
        /\ token'[c].grant = token[c].grant
        /\ UNCHANGED <<starter, nonce, lock, tenant, existing>>
    BY <1>0, <1>7, <2>1 DEF Receive, TypeOK, TokenTypes
  <2>3. QED
    BY <1>0, <2>2 DEF CallerInv, AuthorisedFor, Admitted, Refreshing, Live, Asking, Saving
<1>8. ASSUME LoadRow(c) PROVE CallerInv(c)'
  <2>1. /\ pc[c] = "saving" /\ pc'[c] = "flushing"
        /\ UNCHANGED <<starter, nonce, lock, tenant, existing, token>>
    BY <1>0, <1>8 DEF LoadRow, TypeOK
  <2>2. QED
    BY <1>0, <2>1 DEF CallerInv, AuthorisedFor, Admitted, Refreshing, Live, Asking, Saving
<1>9. ASSUME Flush(c) PROVE CallerInv(c)'
  <2>1. /\ pc[c] = "flushing" /\ pc'[c] = "returned"
        /\ UNCHANGED <<starter, nonce, tenant, token>>
    BY <1>0, <1>9 DEF Flush, TypeOK
  <2>2. QED
    BY <1>0, <2>1 DEF CallerInv, AuthorisedFor, Admitted, Refreshing, Live, Asking, Saving
<1>10. ASSUME CallFails(c) \/ SaveFails(c) PROVE CallerInv(c)'
  <2>1. pc'[c] = "failed"
    BY <1>0, <1>10 DEF CallFails, SaveFails, TypeOK
  <2>2. QED BY <2>1 DEF CallerInv, Live, Refreshing, Asking, Saving
<1>11. ASSUME Crash PROVE CallerInv(c)'
  <2>1. CASE pc[c] \in Live
    <3>1. pc'[c] = "failed"
      BY <1>0, <1>11, <2>1 DEF Crash, TypeOK
    <3>2. QED BY <3>1 DEF CallerInv, Live, Refreshing, Asking, Saving
  <2>2. CASE pc[c] \notin Live
    <3>1. /\ pc'[c] = pc[c] /\ pc[c] \notin Refreshing
          /\ tenant'[c] = tenant[c] /\ token'[c] = token[c]
      BY <1>0, <1>11, <2>2 DEF Crash, TypeOK, Live, Refreshing, Asking, Saving
    <3>2. QED BY <3>1, QuietCaller
  <2>3. QED BY <2>1, <2>2
<1>12. ASSUME NEW h \in Handlers, h # c,
             \/ Receive(h) \/ CallFails(h) \/ LoadRow(h) \/ Flush(h) \/ SaveFails(h)
             \/ h \in Callers /\ (LockLasting(h) \/ LockExpiring(h) \/ IssueRefresh(h))
      PROVE CallerInv(c)'
  BY <1>0, <1>12, QuietCaller
     DEF Receive, CallFails, LoadRow, Flush, SaveFails,
         LockLasting, LockExpiring, IssueRefresh, TypeOK
<1>13. ASSUME NEW d \in Callers, d # c, NEW t \in Tenants,
              ReadMissing(d, t) \/ ReadLasting(d, t) \/ ReadExpiring(d, t)
      PROVE CallerInv(c)'
  BY <1>0, <1>13, QuietCaller DEF ReadMissing, ReadLasting, ReadExpiring, TypeOK
<1>14. ASSUME NEW k \in Callbacks,
             \/ \E n \in Nonces : Consume(k, n) \/ Reject(k, n)
             \/ \E a \in Accounts : IssueGrant(k, a)
      PROVE CallerInv(c)'
  BY <1>0, <1>14, QuietCaller DEF Consume, Reject, IssueGrant, TypeOK
<1>15. ASSUME Tick \/ UNCHANGED vars \/ \E n \in Nonces, t \in Tenants : Start(n, t)
      PROVE CallerInv(c)'
  BY <1>0, <1>15, QuietCaller DEF Tick, vars, Start
<1>16. QED
  BY <1>1, <1>2, <1>3, <1>4, <1>5, <1>6, <1>7, <1>8, <1>9, <1>10, <1>11, <1>12,
     <1>13, <1>14, <1>15, Steps

\* A received token is dated cautiously: only Receive brings a handler to save.
LEMMA DatesStep ==
  ASSUME IndInv, [Next]_vars
  PROVE  DatesInv'
<1> SUFFICES ASSUME NEW h \in Handlers, pc'[h] \in Saving
             PROVE token'[h].expires_at <= token'[h].until + Latency
  BY DEF DatesInv, Dated
<1> USE DEF Goto, tableVars, Handlers, Saving
<1>0. /\ TypeOK /\ token[h] \in TokenTypes
      /\ pc[h] \in Saving => token[h].expires_at <= token[h].until + Latency
  BY DEF IndInv, TypeOK, Dated
<1>1. CASE Receive(h)
  <2>1. /\ token'[h].expires_at = now + Lifetime
        /\ token'[h].until = token[h].until
    BY <1>0, <1>1 DEF Receive, TypeOK, TokenTypes
  <2>2. QED BY <1>1, <2>1 DEF Receive
<1>2. CASE pc[h] \in Saving /\ token'[h] = token[h]
  BY <1>0, <1>2
<1>3. ASSUME NEW g \in Handlers, g # h \/ ~Receive(h),
             Receive(g) \/ CallFails(g) \/ LoadRow(g) \/ Flush(g) \/ SaveFails(g)
      PROVE pc[h] \in Saving /\ token'[h] = token[h]
  BY <1>0, <1>3 DEF Receive, CallFails, LoadRow, Flush, SaveFails, TypeOK
<1>4. ASSUME NEW c \in Callers,
             \/ LockLasting(c) \/ LockExpiring(c) \/ IssueRefresh(c)
             \/ \E t \in Tenants : ReadMissing(c, t) \/ ReadLasting(c, t) \/ ReadExpiring(c, t)
      PROVE pc[h] \in Saving /\ token'[h] = token[h]
  BY <1>0, <1>4
     DEF LockLasting, LockExpiring, IssueRefresh, ReadMissing, ReadLasting, ReadExpiring, TypeOK
<1>5. ASSUME NEW k \in Callbacks,
             \/ \E n \in Nonces : Consume(k, n) \/ Reject(k, n)
             \/ \E a \in Accounts : IssueGrant(k, a)
      PROVE pc[h] \in Saving /\ token'[h] = token[h]
  BY <1>0, <1>5 DEF Consume, Reject, IssueGrant, TypeOK
<1>6. ASSUME Crash \/ Tick \/ UNCHANGED vars \/ \E n \in Nonces, t \in Tenants : Start(n, t)
      PROVE pc[h] \in Saving /\ token'[h] = token[h]
  BY <1>0, <1>6 DEF Crash, Live, Tick, vars, Start, TypeOK
<1>7. QED BY <1>1, <1>2, <1>3, <1>4, <1>5, <1>6, Steps

\* What a refreshing caller holds changes only when it takes the lock.
LEMMA ExistingStays ==
  ASSUME IndInv, [Next]_vars, NEW c \in Callers, ~LockExpiring(c), pc'[c] \in Refreshing
  PROVE  /\ pc[c] \in Refreshing
         /\ existing'[c] = existing[c]
         /\ tenant'[c] = tenant[c]
<1> USE DEF Goto, tableVars, Handlers, Saving, Refreshing
<1>0. TypeOK /\ c \notin Callbacks
  BY HandlersAssumption DEF IndInv
<1>1. ASSUME NEW h \in Handlers,
             Receive(h) \/ CallFails(h) \/ LoadRow(h) \/ Flush(h) \/ SaveFails(h)
      PROVE  pc[c] \in Refreshing /\ existing'[c] = existing[c] /\ tenant'[c] = tenant[c]
  BY <1>0, <1>1 DEF Receive, CallFails, LoadRow, Flush, SaveFails, TypeOK
<1>2. ASSUME NEW d \in Callers,
             \/ LockLasting(d) \/ LockExpiring(d) \/ IssueRefresh(d)
             \/ \E t \in Tenants : ReadMissing(d, t) \/ ReadLasting(d, t) \/ ReadExpiring(d, t)
      PROVE  pc[c] \in Refreshing /\ existing'[c] = existing[c] /\ tenant'[c] = tenant[c]
  BY <1>0, <1>2
     DEF LockLasting, LockExpiring, IssueRefresh, ReadMissing, ReadLasting, ReadExpiring, TypeOK
<1>3. ASSUME NEW k \in Callbacks,
             \/ \E n \in Nonces : Consume(k, n) \/ Reject(k, n)
             \/ \E a \in Accounts : IssueGrant(k, a)
      PROVE  pc[c] \in Refreshing /\ existing'[c] = existing[c] /\ tenant'[c] = tenant[c]
  BY <1>0, <1>3 DEF Consume, Reject, IssueGrant, TypeOK
<1>4. ASSUME Crash \/ Tick \/ UNCHANGED vars \/ \E n \in Nonces, t \in Tenants : Start(n, t)
      PROVE  pc[c] \in Refreshing /\ existing'[c] = existing[c] /\ tenant'[c] = tenant[c]
  BY <1>0, <1>4 DEF Crash, Live, Asking, Tick, vars, Start, TypeOK
<1>5. QED BY <1>1, <1>2, <1>3, <1>4, Steps

\* Nobody of the same provider saves while a caller refreshes: it would need
\* the lock.
LEMMA AtomicStep ==
  ASSUME IndInv, [Next]_vars
  PROVE  RefreshIsAtomic'
<1> DEFINE Colleagues(c) == {d \in Callers : ProviderOf[d] = ProviderOf[c]}
<1> SUFFICES ASSUME NEW c \in Callers, pc'[c] \in Refreshing,
                    row'[tenant'[c]] # existing'[c]
             PROVE saver'[tenant'[c]] \notin Colleagues(c)
  BY DEF RefreshIsAtomic
<1> USE DEF Goto, Handlers
<1>0. TypeOK
  BY DEF IndInv
<1>1. CASE LockExpiring(c)
  <2>1. tenant[c] \in Tenants
    BY <1>1 DEF LockExpiring, IndInv, CallerInv, Live
  <2>2. row'[tenant'[c]] = existing'[c]
    BY <1>0, <1>1, <2>1 DEF LockExpiring, RowUnderLock, tableVars, TypeOK
  <2>3. QED BY <2>2
<1>2. CASE ~LockExpiring(c)
  <2>1. /\ pc[c] \in Refreshing
        /\ existing'[c] = existing[c]
        /\ tenant'[c] = tenant[c]
    BY <1>2, ExistingStays
  <2>2. tenant[c] \in Tenants /\ lock[ProviderOf[c]][tenant[c]] = c
    BY <2>1 DEF IndInv, CallerInv, Refreshing, Live, Asking, Saving
  <2>3. row[tenant[c]] # existing[c] => saver[tenant[c]] \notin Colleagues(c)
    BY <2>1 DEF IndInv, RefreshIsAtomic
  <2>4. ASSUME NEW h \in Handlers, Flush(h)
        PROVE saver'[tenant'[c]] \notin Colleagues(c)
    <3>1. pc[h] = "flushing" /\ pc'[h] \in Ended
      BY <1>0, <2>4 DEF Flush, TypeOK, Ended
    <3>2. h # c
      BY <3>1 DEF Ended, Refreshing, Saving
    <3>3. CASE tenant[h] = tenant[c]
      <4>1. saver'[tenant[c]] = h
        BY <1>0, <2>2, <2>4, <3>3 DEF Flush, TypeOK
      <4>2. h \in Callers => lock[ProviderOf[h]][tenant[h]] = h
        BY <3>1 DEF IndInv, CallerInv, Refreshing, Saving
      <4>3. QED BY <2>1, <2>2, <3>2, <3>3, <4>1, <4>2
    <3>4. CASE tenant[h] # tenant[c]
      <4>1. row' = Saved(h) /\ saver' = [saver EXCEPT ![tenant[h]] = h]
        BY <2>4 DEF Flush
      <4>2. row'[tenant[c]] = row[tenant[c]] /\ saver'[tenant[c]] = saver[tenant[c]]
        BY <1>0, <2>2, <3>4, <4>1 DEF Saved, TypeOK
      <4>3. QED BY <2>1, <2>3, <4>2
    <3>5. QED BY <3>3, <3>4
  <2>5. CASE UNCHANGED <<row, saver>>
    BY <2>1, <2>3, <2>5
  <2>6. QED BY <2>4, <2>5, RowsKept
<1>3. QED BY <1>1, <1>2

-----------------------------------------------------------------------------
\* The invariant holds in the empty database.
LEMMA InitInv ==
  ASSUME Init
  PROVE  IndInv
<1>1. TypeOK
  BY TimesAssumption, Empties DEF Init, TypeOK, Handlers
<1>2. QED
  BY <1>1, HandlersAssumption
     DEF Init, IndInv, StateInv, RowInv, CallbackInv, CallerInv, RefreshIsAtomic, Admitted,
         Handlers, Live, Asking, Saving, Refreshing

\* Every step keeps it.
LEMMA StepInv ==
  ASSUME IndInv, [Next]_vars
  PROVE  IndInv'
BY TypeStep, StatesStep, RowsStep, CallbacksStep, CallersStep, DatesStep, AtomicStep
   DEF IndInv, StatesInv, RowsInv, CallbacksInv, CallersInv, DatesInv

\* So it always holds.
LEMMA Always == Spec => []IndInv
<1>1. Init => IndInv
  BY InitInv
<1>2. IndInv /\ [Next]_vars => IndInv'
  BY StepInv
<1>3. QED BY <1>1, <1>2, PTL DEF Spec

\* The tables, the locks and the handlers keep their types.
THEOREM TypeCorrect == Spec => []TypeOK
<1>1. IndInv => TypeOK
  BY DEF IndInv
<1>2. QED BY <1>1, Always, PTL

\* A tenant's connection and every token handed out stem from the one callback
\* that presented a state of this tenant.
THEOREM Authorised == Spec => []ConnectionIsAuthorised
<1>1. IndInv => ConnectionIsAuthorised
  BY DEF IndInv, ConnectionIsAuthorised, RowInv, CallerInv
<1>2. QED BY <1>1, Always, PTL

\* Read, refresh and save are atomic among the callers of one provider.
THEOREM RefreshAtomic == Spec => []RefreshIsAtomic
<1>1. IndInv => RefreshIsAtomic
  BY DEF IndInv
<1>2. QED BY <1>1, Always, PTL

\* LEMMA: a lock whose holder stays at its refresh is still held rightly, and the
\* locks that are free may only be taken or stay free.
LEMMA HoldersKept ==
  ASSUME IndInv, LockHasHolder,
         \A p \in Providers, t \in Tenants : lock'[p][t] \in {lock[p][t], NoOne},
         \A c \in Callers : pc[c] \in Refreshing =>
           \/ pc'[c] \in Refreshing /\ tenant'[c] = tenant[c]
           \/ \A p \in Providers, t \in Tenants : lock'[p][t] # c
  PROVE  LockHasHolder'
<1> SUFFICES ASSUME NEW p \in Providers, NEW t \in Tenants, lock'[p][t] # NoOne
             PROVE  /\ pc'[lock'[p][t]] \in Refreshing
                    /\ ProviderOf[lock'[p][t]] = p
                    /\ tenant'[lock'[p][t]] = t
  BY DEF LockHasHolder
<1>1. lock'[p][t] = lock[p][t] /\ lock[p][t] \in Callers
  BY DEF IndInv, TypeOK
<1>2. /\ pc[lock[p][t]] \in Refreshing
      /\ ProviderOf[lock[p][t]] = p /\ tenant[lock[p][t]] = t
  BY <1>1 DEF LockHasHolder
<1> QED
  BY <1>1, <1>2

\* LEMMA: a release takes from a handler what it holds, and nothing from others.
LEMMA Released ==
  ASSUME IndInv, NEW h \in Handlers, Release(h)
  PROVE  \A p \in Providers, t \in Tenants :
           lock'[p][t] \in {lock[p][t], NoOne} /\ lock'[p][t] # h
BY HandlersAssumption DEF Release, Handlers, IndInv, TypeOK

\* LEMMA: every step that takes a lock begins a refresh, and every step that ends
\* a refresh gives its lock back.
LEMMA LocksStep ==
  ASSUME IndInv, LockHasHolder, [Next]_vars
  PROVE  LockHasHolder'
<1> USE DEF Goto, tableVars, Handlers, Refreshing, Saving
<1>0. TypeOK
  BY DEF IndInv
<1>1. ASSUME NEW c \in Callers, LockExpiring(c) PROVE LockHasHolder'
  <2>1. tenant[c] \in Tenants /\ ProviderOf[c] \in Providers
    BY <1>0, <1>1, HandlersAssumption DEF LockExpiring, IndInv, CallerInv, Live
  <2>2. /\ pc' = [pc EXCEPT ![c] = "refreshing"] /\ tenant' = tenant /\ pc[c] = "waiting"
        /\ \A p \in Providers, t \in Tenants :
             lock'[p][t] = IF p = ProviderOf[c] /\ t = tenant[c] THEN c ELSE lock[p][t]
    BY <1>0, <1>1, <2>1 DEF LockExpiring, TypeOK
  <2>3. SUFFICES ASSUME NEW p \in Providers, NEW t \in Tenants, lock'[p][t] # NoOne
                 PROVE  /\ pc'[lock'[p][t]] \in Refreshing
                        /\ ProviderOf[lock'[p][t]] = p
                        /\ tenant'[lock'[p][t]] = t
    BY DEF LockHasHolder
  <2>4. CASE p = ProviderOf[c] /\ t = tenant[c]
    BY <1>0, <2>2, <2>4 DEF TypeOK
  <2>5. CASE ~(p = ProviderOf[c] /\ t = tenant[c])
    <3>1. lock'[p][t] = lock[p][t] /\ lock[p][t] \in Callers
      BY <1>0, <2>2, <2>3, <2>5 DEF TypeOK
    <3>2. /\ pc[lock[p][t]] \in Refreshing /\ ProviderOf[lock[p][t]] = p
          /\ tenant[lock[p][t]] = t
      BY <2>3, <3>1 DEF LockHasHolder
    <3> QED
      BY <1>0, <2>2, <3>1, <3>2 DEF TypeOK
  <2> QED BY <2>4, <2>5
<1>2. ASSUME NEW h \in Handlers, CallFails(h) \/ Flush(h) \/ SaveFails(h) PROVE LockHasHolder'
  <2>1. Release(h) /\ tenant' = tenant /\ \A c \in Callers \ {h} : pc'[c] = pc[c]
    BY <1>0, <1>2 DEF CallFails, Flush, SaveFails, TypeOK
  <2> QED
    BY <2>1, Released, HoldersKept
<1>3. ASSUME Crash PROVE LockHasHolder'
  BY <1>3 DEF Crash, LockHasHolder
<1>4. ASSUME NEW c \in Callers, IssueRefresh(c) PROVE LockHasHolder'
  <2>1. /\ lock' = lock /\ tenant' = tenant
        /\ \A d \in Callers : pc[d] \in Refreshing => pc'[d] \in Refreshing
    BY <1>0, <1>4 DEF IssueRefresh, TypeOK
  <2> QED BY <2>1, HoldersKept
<1>5. ASSUME NEW h \in Handlers, Receive(h) \/ LoadRow(h) PROVE LockHasHolder'
  <2>1. /\ lock' = lock /\ tenant' = tenant
        /\ \A d \in Callers : pc[d] \in Refreshing => pc'[d] \in Refreshing
    BY <1>0, <1>5 DEF Receive, LoadRow, TypeOK
  <2> QED BY <2>1, HoldersKept
<1>6. ASSUME NEW c \in Callers,
             LockLasting(c) \/ \E t \in Tenants :
               ReadMissing(c, t) \/ ReadLasting(c, t) \/ ReadExpiring(c, t)
      PROVE LockHasHolder'
  <2>1. /\ lock' = lock
        /\ \A d \in Callers : pc[d] \in Refreshing =>
             pc'[d] = pc[d] /\ tenant'[d] = tenant[d]
    BY <1>0, <1>6 DEF LockLasting, ReadMissing, ReadLasting, ReadExpiring, TypeOK
  <2> QED BY <2>1, HoldersKept
<1>7. ASSUME NEW k \in Callbacks,
             \/ \E n \in Nonces : Consume(k, n) \/ Reject(k, n)
             \/ \E a \in Accounts : IssueGrant(k, a)
      PROVE LockHasHolder'
  <2>1. /\ lock' = lock
        /\ \A d \in Callers : pc'[d] = pc[d] /\ tenant'[d] = tenant[d]
    BY <1>0, <1>7, HandlersAssumption DEF Consume, Reject, IssueGrant, TypeOK
  <2> QED BY <2>1, HoldersKept
<1>8. ASSUME Tick \/ UNCHANGED vars \/ \E n \in Nonces, t \in Tenants : Start(n, t)
      PROVE LockHasHolder'
  <2>1. UNCHANGED <<lock, pc, tenant>>
    BY <1>8 DEF Tick, vars, Start
  <2> QED BY <2>1, HoldersKept
<1> QED
  BY <1>1, <1>2, <1>3, <1>4, <1>5, <1>6, <1>7, <1>8, Steps

\* THEOREM: a refresh lock is held by a refresh that is under way, for its own
\* provider and tenant, however refreshes before it ended.
THEOREM LocksAreHeld == Spec => []LockHasHolder
<1>1. Init => LockHasHolder
  BY DEF Init, LockHasHolder
<1>2. IndInv /\ LockHasHolder /\ [Next]_vars => LockHasHolder'
  BY LocksStep
<1>3. QED
  BY <1>1, <1>2, Always, PTL DEF Spec

\* A row that lasts by the program's clock is alive by HubSpot's: the margin is
\* at least as long as an answer may take.
LEMMA LastingIsAlive ==
  ASSUME IndInv, NEW t \in Tenants, row[t] # NoRow, Lasting(row[t])
  PROVE  row[t].until > now
<1>1. /\ row[t].expires_at \in Nat /\ row[t].until \in Nat /\ now \in Nat
      /\ row[t].expires_at <= row[t].until + Latency
  BY TimesAssumption DEF IndInv, TypeOK, RowTypes, RowInv, Dated
<1>2. QED BY <1>1, TimesAssumption DEF Lasting

\* A token from the table is alive when a caller returns it.
THEOREM TokensLive == Spec => ReturnedTokenLive
<1>1. ASSUME IndInv, [Next]_vars, NEW c \in Callers,
             pc[c] \in {"idle", "waiting"}, pc'[c] = "returned"
      PROVE token'[c].until > now
  <2> USE DEF Goto, tableVars, Handlers
  <2>0. TypeOK /\ c \notin Callbacks
    BY <1>1, HandlersAssumption DEF IndInv
  <2>1. ASSUME NEW t \in Tenants, ReadLasting(c, t) PROVE token'[c].until > now
    <3>1. token'[c].until = row[t].until /\ row[t] # NoRow /\ Lasting(row[t])
      BY <2>0, <2>1 DEF ReadLasting, TokenIn, TypeOK
    <3>2. QED BY <1>1, <3>1, LastingIsAlive
  <2>2. ASSUME LockLasting(c) PROVE token'[c].until > now
    <3>1. /\ token'[c].until = row[tenant[c]].until
          /\ Lasting(row[tenant[c]]) /\ pc[c] = "waiting"
      BY <2>0, <2>2 DEF LockLasting, RowUnderLock, TokenIn, TypeOK
    <3>2. tenant[c] \in Tenants /\ row[tenant[c]] # NoRow
      BY <1>1, <3>1 DEF IndInv, CallerInv, Live
    <3>3. QED BY <1>1, <3>1, <3>2, LastingIsAlive
  <2>3. ASSUME NEW d \in Callers,
               \/ LockLasting(d) \/ LockExpiring(d) \/ IssueRefresh(d)
               \/ \E t \in Tenants : ReadMissing(d, t) \/ ReadLasting(d, t) \/ ReadExpiring(d, t)
        PROVE LockLasting(c) \/ \E t \in Tenants : ReadLasting(c, t)
    BY <1>1, <2>0, <2>3
       DEF LockLasting, LockExpiring, IssueRefresh, ReadMissing, ReadLasting, ReadExpiring, TypeOK
  <2>4. ASSUME NEW h \in Handlers,
               Receive(h) \/ CallFails(h) \/ LoadRow(h) \/ Flush(h) \/ SaveFails(h)
        PROVE FALSE
    BY <1>1, <2>0, <2>4 DEF Receive, CallFails, LoadRow, Flush, SaveFails, TypeOK, Asking, Saving
  <2>5. ASSUME NEW k \in Callbacks,
               \/ \E n \in Nonces : Consume(k, n) \/ Reject(k, n)
               \/ \E a \in Accounts : IssueGrant(k, a)
        PROVE FALSE
    BY <1>1, <2>0, <2>5 DEF Consume, Reject, IssueGrant, TypeOK
  <2>6. ASSUME Crash \/ Tick \/ UNCHANGED vars \/ \E n \in Nonces, t \in Tenants : Start(n, t)
        PROVE FALSE
    BY <1>1, <2>0, <2>6 DEF Crash, Live, Tick, vars, Start, TypeOK
  <2>7. QED BY <1>1, <2>1, <2>2, <2>3, <2>4, <2>5, <2>6, Steps
<1>2. IndInv /\ [Next]_vars =>
        [\A c \in Callers :
           pc[c] \in {"idle", "waiting"} /\ pc'[c] = "returned" => token'[c].until > now]_vars
  BY <1>1
<1>3. QED BY <1>2, Always, PTL DEF Spec, ReturnedTokenLive
=============================================================================
