--------------------------- MODULE ClientSession ---------------------------
(***************************************************************************)
(* The session of one browser tab: the cookie, what React keeps of it, and *)
(* the routes.  A route is checked against the server each time the tab    *)
(* enters it, and every refused request of a protected route ends the      *)
(* session of the tab, once.                                               *)
(*                                                                         *)
(* A session is named after the sign-in that opened it; the server may     *)
(* revoke it at any time.                                                  *)
(***************************************************************************)
EXTENDS Naturals

CONSTANTS
  Accounts,     \* what a user may sign in as, among AllAccounts
  MaxSessions,  \* bound: sign-ins
  Null

AllAccounts == {"admin", "responsable", "operator"}

ConstantsOK == Accounts \subseteq AllAccounts /\ MaxSessions \in Nat

VARIABLES
  revoked,   \* the sessions that the server honours no more
  opened,    \* sign-ins that succeeded
  cookie,    \* the session of the cookie, and its account
  path,      \* the route on the screen
  going,     \* the route that the tab is on its way to
  session,   \* the account that React keeps
  loading,   \* the route waits for its check
  expired,   \* redirectingRef
  me,        \* the check in flight: the cookie it carries, and its answer
  call,      \* a request of the page in flight: the same
  signing,   \* sign-in in flight
  leaving    \* sign-outs in flight: of the button, of an expiry

vars == <<revoked, opened, cookie, path, going, session, loading, expired, me, call,
          signing, leaving>>

tab == <<path, going, session, loading, expired, me>>

\* A request, before the server reads.
Ask == [cookie |-> cookie, answer |-> Null]

\* PUBLIC_AUTHLESS_PATHS; /board and /confidentialite ask for no session.
Public == {"login", "board"}

Paths == Public \cup {"accueil", "dashboard", "journal"}

\* AdminRoute, WorkshopRoute, WorkshopResponsableRoute.
Allowed(p) ==
  CASE p = "accueil" -> {"admin"}
    [] p = "dashboard" -> {"responsable", "operator"}
    [] p = "journal" -> {"responsable"}

Home(account) == IF account = "admin" THEN "accueil" ELSE "dashboard"

Init ==
  /\ revoked = {}
  /\ opened = 0
  /\ cookie = Null
  /\ path \in Public
  /\ going = path
  /\ session = Null
  /\ loading = FALSE
  /\ expired = FALSE
  /\ me = Null
  /\ call = Null
  /\ signing = FALSE
  /\ leaving = {}
-----------------------------------------------------------------------------
(* The server. *)

Honours(c) == c # Null /\ c.id \notin revoked

\* Five wrong passwords, a new password, an account that is turned off.
Revoke ==
  /\ Honours(cookie)
  /\ revoked' = revoked \cup {cookie.id}
  /\ UNCHANGED <<opened, cookie, tab, call, signing, leaving>>

\* It answers the check, or a request of the page.
Serve ==
  /\ \/ /\ me # Null /\ me.answer = Null
        /\ me' = [me EXCEPT !.answer = Honours(me.cookie)]
        /\ UNCHANGED call
     \/ /\ call # Null /\ call.answer = Null
        /\ call' = [call EXCEPT !.answer = Honours(call.cookie)]
        /\ UNCHANGED me
  /\ UNCHANGED <<revoked, opened, cookie, path, going, session, loading, expired,
                 signing, leaving>>
-----------------------------------------------------------------------------
(* The tab. *)

\* Mutant of Settled: the flag stays once an expiry was seen.
SettledForever(old) == old

\* redirectingRef, once the route has changed.
Settled(old) == FALSE

\* The route changes: the check of the former one is aborted, and a protected
\* one asks the server who is there.
Enter ==
  /\ going # path
  /\ path' = going
  /\ expired' = Settled(expired)
  /\ loading' = (going \notin Public)
  /\ me' = IF going \in Public THEN Null ELSE Ask
  /\ call' \in {call, Null}
  /\ UNCHANGED <<revoked, opened, cookie, going, session, signing, leaving>>

\* markExpired: the first refusal signs out, and heads for the login.
MarkExpired ==
  IF expired
  THEN UNCHANGED <<expired, leaving, session, going>>
  ELSE /\ expired' = TRUE
       /\ leaving' = leaving \cup {"expiry"}
       /\ session' = Null
       /\ going' = "login"

\* The check is answered.
MeArrives ==
  /\ me # Null /\ me.answer # Null
  /\ me' = Null
  /\ loading' = FALSE
  /\ IF me.answer
     THEN session' = me.cookie.as /\ UNCHANGED <<expired, leaving, going>>
     ELSE MarkExpired
  /\ UNCHANGED <<revoked, opened, cookie, path, call, signing>>

\* No answer: the tab cannot tell, and asks for a new sign-in.
MeFails ==
  /\ me # Null
  /\ me' = Null
  /\ loading' = FALSE
  /\ session' = Null
  /\ UNCHANGED <<revoked, opened, cookie, path, going, expired, call, signing, leaving>>

\* The page of the route is rendered.
Rendered ==
  /\ path = going
  /\ ~loading
  /\ IF path \in Public THEN path = "login" => session = Null ELSE session \in Allowed(path)

\* The guards of the routes, when they do not render their page.
Redirect ==
  /\ path = going /\ ~loading /\ ~Rendered
  /\ going' = IF path = "login" THEN Home(session)
              ELSE IF path = "journal" /\ session = "operator" THEN "dashboard" ELSE "login"
  /\ UNCHANGED <<revoked, opened, cookie, path, session, loading, expired, me, call,
                 signing, leaving>>

\* The user follows a link.
Follow ==
  /\ Rendered
  /\ going' \in Paths \ {path}
  /\ UNCHANGED <<revoked, opened, cookie, path, session, loading, expired, me, call,
                 signing, leaving>>

\* The page calls the server: the dashboard does, every thirty seconds.
Call ==
  /\ Rendered /\ path \notin Public /\ call = Null
  /\ call' = Ask
  /\ UNCHANGED <<revoked, opened, cookie, tab, signing, leaving>>

\* Its answer: a refusal goes to the handler of a protected route.
CallArrives ==
  /\ call # Null /\ call.answer # Null
  /\ call' = Null
  /\ IF call.answer \/ path \in Public
     THEN UNCHANGED <<expired, leaving, session, going>>
     ELSE MarkExpired
  /\ UNCHANGED <<revoked, opened, cookie, path, loading, me, signing>>

\* It is lost on its way.
CallFails ==
  /\ call # Null /\ call.answer # Null
  /\ call' = Null
  /\ UNCHANGED <<revoked, opened, cookie, tab, signing, leaving>>

SignIn ==
  /\ Rendered /\ path = "login" /\ ~signing
  /\ opened < MaxSessions
  /\ signing' = TRUE
  /\ UNCHANGED <<revoked, opened, cookie, tab, call, leaving>>

\* The answer brings the cookie; the page keeps its account, unless it is left.
Signed(account) ==
  /\ signing
  /\ opened' = opened + 1
  /\ cookie' = [id |-> opened', as |-> account]
  /\ IF path = "login"
     THEN session' = account /\ going' = Home(account)
     ELSE UNCHANGED <<session, going>>
  /\ signing' = FALSE
  /\ UNCHANGED <<revoked, path, loading, expired, me, call, leaving>>

\* The identifier or the password is wrong, or no answer comes.
SignInFails ==
  /\ signing
  /\ signing' = FALSE
  /\ UNCHANGED <<revoked, opened, cookie, tab, call, leaving>>

SignOut ==
  /\ Rendered /\ path \notin Public /\ "button" \notin leaving
  /\ leaving' = leaving \cup {"button"}
  /\ UNCHANGED <<revoked, opened, cookie, tab, call, signing>>

\* The answer of a sign-out clears whatever cookie is there; only the button
\* waits for it.
SignedOut ==
  /\ \E by \in leaving :
       /\ leaving' = leaving \ {by}
       /\ session' = IF by = "button" THEN Null ELSE session
  /\ cookie' = Null
  /\ UNCHANGED <<revoked, opened, path, going, loading, expired, me, call, signing>>

SignOutFails ==
  /\ \E by \in leaving : leaving' = leaving \ {by}
  /\ UNCHANGED <<revoked, opened, cookie, tab, call, signing>>

Next ==
  \/ Revoke \/ Serve \/ Enter \/ MeArrives \/ MeFails \/ Redirect \/ Follow
  \/ Call \/ CallArrives \/ CallFails
  \/ SignIn \/ (\E account \in Accounts : Signed(account)) \/ SignInFails
  \/ SignOut \/ SignedOut \/ SignOutFails

\* React renders, the server answers, the dashboard polls, and not every answer
\* is lost.
Fairness ==
  /\ WF_vars(Enter) /\ WF_vars(Redirect) /\ WF_vars(MeArrives) /\ SF_vars(CallArrives)
  /\ WF_vars(Serve) /\ WF_vars(path = "dashboard" /\ Call)

Spec == Init /\ [][Next]_vars

FairSpec == Spec /\ Fairness
-----------------------------------------------------------------------------
(* Properties. *)

\* The dashboard does not stay on the screen of a tab whose session the server
\* has ended, the second time like the first.
RevokedLeavesDashboard == ~<>[](path = "dashboard" /\ ~Honours(cookie))
=============================================================================
