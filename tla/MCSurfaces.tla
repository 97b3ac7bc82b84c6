----------------------------- MODULE MCSurfaces -----------------------------
(***************************************************************************)
(* Two people of one workspace; five casts of up to three gestures.        *)
(***************************************************************************)
EXTENDS Surfaces, TLC

CONSTANTS ann, bob, acme,
          opened, draft, blank, submit, confirm, post, send, session, peek, nothing

MCTenantOf == (ann :> acme) @@ (bob :> acme)
MCAuthorOf == [m \in Gestures |-> IF m = peek THEN bob ELSE ann]
MCSenderOf == [m \in Messages |-> MCAuthorOf[m]]
MCKindOf ==
  (opened :> "opened") @@ (draft :> "draft") @@ (blank :> "blank") @@ (submit :> "submit")
    @@ (confirm :> "confirm") @@ (post :> "post")
    @@ (send :> "send") @@ (session :> "session") @@ (peek :> "session") @@ (nothing :> "nothing")

Cast(a, b, c) == (1 :> a) @@ (2 :> b) @@ (3 :> c)
MCCasts ==
  {Cast(submit, confirm, nothing), Cast(submit, opened, nothing), Cast(post, post, peek),
   Cast(draft, blank, nothing), Cast(send, post, session)}

\* Below a text of three pieces 34 rows of one block: two more than fit.
MCTables == {[text |-> 3, upto |-> [k \in 1 .. 34 |-> k]]}
=============================================================================
