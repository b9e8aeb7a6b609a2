------------------------------ MODULE Settings ------------------------------
(***************************************************************************)
(* The page of settings of Sentinel's administrator (AdminSettingsPage),   *)
(* open in several browsers, against the row of admin_accounts             *)
(* (adminSettings.controller, adminSecurity.controller).                   *)
(*                                                                         *)
(* Four sections are loaded apart: behaviour, preferences of notification, *)
(* board, address.  Behaviour has a draft, and sends what differs from the *)
(* settings it last received; a preference is shown before it is stored;   *)
(* the board, its code and the revocations go through a dialogue, behind   *)
(* which the page is inert.  One mutation runs at a time on a page: while  *)
(* one does, another order is dropped, with no answer to whoever gave it.  *)
(*                                                                         *)
(* Passwords, codes and sessions are the business of Administrator: here a *)
(* password is right or wrong, and the sessions of the administrator are   *)
(* revoked together.                                                       *)
(***************************************************************************)
EXTENDS Naturals

CONSTANTS
  Screens,     \* browsers where the administrator works
  Labels,      \* names of the board
  Hours,       \* durations of a session of the board
  DefaultTtl,  \* 12 hours
  Prefs,       \* kinds of notification
  Emails,      \* addresses of the administrator
  EnvEmail,    \* ADMIN_EMAIL, or Null
  Scopes,      \* sessions that can be revoked: "admin", "workshop", "board"
  Null         \* nothing: no call, no dialogue, no page

VARIABLES
  settings, \* [Fields -> value]
  prefs,    \* [Prefs -> BOOLEAN]
  board,    \* [enabled, hasCode]
  email,    \* an address, or Null
  signed,   \* the screens whose session is accepted
  page      \* [Screens -> the state of the page, or Null]

row == <<settings, prefs, board, email>>
vars == <<settings, prefs, board, email, signed, page>>

\* The length of the sessions of the board, zero when they do not expire, and
\* its name stand for the six fields.
Fields == {"board_session_ttl_hours", "board_label"}
Ttl == "board_session_ttl_hours"
Sections == {"app", "prefs", "board", "email"}

ConstantsOK ==
  /\ DefaultTtl \in Hours /\ 0 \notin Hours
  /\ Null \notin Labels \cup Emails \cup Prefs \cup {"REVOKE"} /\ EnvEmail \in Emails \cup {Null}

\* What a page shows of the row.
Read(part) ==
  CASE part = "app" -> settings [] part = "prefs" -> prefs
    [] part = "board" -> board [] OTHER -> IF email # Null THEN email ELSE EnvEmail

\* A page that opens shows nothing of a section until its reading ends.
Mounted ==
  [loaded |-> [x \in Sections |-> "loading"],
   base |-> Null, draft |-> Null, typed |-> {}, revoke |-> {},
   shown |-> Null, saving |-> Null, board |-> Null, email |-> Null,
   dialogue |-> Null, call |-> Null]

Init ==
  /\ settings \in [Fields -> {DefaultTtl} \cup Labels]
  /\ settings[Ttl] = DefaultTtl /\ settings["board_label"] \in Labels
  /\ prefs = [k \in Prefs |-> TRUE]
  /\ board = [enabled |-> TRUE, hasCode |-> FALSE]
  /\ email = Null
  /\ signed = {}
  /\ page = [s \in Screens |-> Null]

Open(s) ==
  /\ page[s] = Null
  /\ signed' = signed \cup {s}
  /\ page' = [page EXCEPT ![s] = Mounted]
  /\ UNCHANGED row

\* The page takes its share of what is read of the row.
Loaded(p, x) ==
  LET q == [p EXCEPT !.loaded[x] = "ready"]
  IN CASE x = "app" -> [q EXCEPT !.base = Read(x), !.draft = Read(x)]
       [] x = "prefs" -> [q EXCEPT !.shown = Read(x)]
       [] x = "board" -> [q EXCEPT !.board = Read(x)]
       [] OTHER -> [q EXCEPT !.email = Read(x)]

\* A reading that fails leaves its section without a form; one that is refused
\* ends the page.
Load(s, x) ==
  /\ page[s] # Null /\ page[s].loaded[x] = "loading"
  /\ \/ s \in signed /\ page' = [page EXCEPT ![s] = Loaded(@, x)]
     \/ s \notin signed /\ page[s].call = Null /\ page' = [page EXCEPT ![s] = Null]
     \/ page' = [page EXCEPT ![s].loaded[x] = "failed"]
  /\ UNCHANGED <<row, signed>>

-----------------------------------------------------------------------------
(* What the administrator does on a page *)

\* A section that is ready, on a page that no dialogue hides.
Usable(s, x) == page[s] # Null /\ page[s].loaded[x] = "ready" /\ page[s].dialogue = Null

Pending(s, kind) == page[s].call # Null /\ page[s].call.kind = kind

\* The fields of g, those of f first.
Merged(f, g) ==
  [x \in DOMAIN f \cup DOMAIN g |-> IF x \in DOMAIN f THEN f[x] ELSE g[x]]

\* execute: the call takes the lock of the page, or is dropped.
Execute(p, call) ==
  IF p.call # Null THEN p ELSE [p EXCEPT !.call = Merged(call, [status |-> "sent"])]

\* A field of the draft.
Put(s, f, v) ==
  /\ v # page[s].draft[f]
  /\ page' = [page EXCEPT ![s].draft[f] = v, ![s].typed = @ \cup {f}]

Type(s) ==
  /\ Usable(s, "app") /\ ~Pending(s, "APP")
  /\ \/ \E v \in Labels : Put(s, "board_label", v)
     \/ page[s].draft[Ttl] # 0 /\ \E v \in Hours : Put(s, Ttl, v)
  /\ UNCHANGED <<row, signed>>

\* The switch of the sessions that do not expire: when it is lowered, the field
\* shows the last duration received, or the default one.
SwitchExpiry(s) ==
  /\ Usable(s, "app") /\ ~Pending(s, "APP")
  /\ IF page[s].draft[Ttl] # 0 THEN Put(s, Ttl, 0)
     ELSE Put(s, Ttl, IF page[s].base[Ttl] > 0 THEN page[s].base[Ttl] ELSE DefaultTtl)
  /\ UNCHANGED <<row, signed>>

CheckRevocation(s, scope) ==
  /\ Usable(s, "app") /\ ~Pending(s, "APP")
  /\ page' = [page EXCEPT ![s].revoke =
                IF scope \in @ THEN @ \ {scope} ELSE @ \cup {scope}]
  /\ UNCHANGED <<row, signed>>

Dirty(s) == page[s].draft # page[s].base \/ page[s].revoke # {}

ResetAppSettings(s) ==
  /\ Usable(s, "app") /\ ~Pending(s, "APP") /\ Dirty(s)
  /\ page' = [page EXCEPT ![s].draft = page[s].base, ![s].typed = {}, ![s].revoke = {}]
  /\ UNCHANGED <<row, signed>>

\* Mutant of Changes: all of the draft is sent.
WholeDraft(p) == p.draft

\* buildPatch: the fields of the draft that differ.
Changes(p) == [f \in {g \in Fields : p.draft[g] # p.base[g]} |-> p.draft[f]]

Save(p, kind) ==
  Execute(p, [kind |-> kind, patch |-> Changes(p), revoke |-> p.revoke])

\* A revocation asks for a password first.
SubmitAppSettings(s) ==
  /\ Usable(s, "app") /\ ~Pending(s, "APP") /\ Dirty(s)
  /\ page' = [page EXCEPT ![s] =
                IF @.revoke # {} THEN [@ EXCEPT !.dialogue = "REVOKE"] ELSE Save(@, "APP")]
  /\ UNCHANGED <<row, signed>>

\* The preference is shown at once, and the switches are locked, whether the
\* order was taken or dropped.
HandleToggle(s, k) ==
  /\ Usable(s, "prefs") /\ page[s].saving = Null
  /\ LET value == ~page[s].shown[k]
         seen == [page[s] EXCEPT !.shown[k] = value, !.saving = k]
     IN page' = [page EXCEPT ![s] = Execute(seen, [kind |-> "PREF", key |-> k, value |-> value])]
  /\ UNCHANGED <<row, signed>>

\* The switch of the board and its new code are confirmed in a dialogue.
AskBoard(s, kind) ==
  /\ Usable(s, "board") /\ kind \in {"TOGGLE", "CODE"}
  /\ kind = "CODE" => ~Pending(s, "CODE")
  /\ page' = [page EXCEPT ![s].dialogue = kind]
  /\ UNCHANGED <<row, signed>>

Confirming(s) == page[s].call # Null /\ page[s].call.kind = page[s].dialogue

Confirm(s) ==
  /\ page[s] # Null /\ page[s].dialogue # Null /\ ~Confirming(s)
  /\ page' = [page EXCEPT ![s] =
       IF @.dialogue = "REVOKE" THEN Save(@, "REVOKE")
       ELSE IF @.dialogue = "TOGGLE"
       THEN Execute(@, [kind |-> "TOGGLE", value |-> ~@.board.enabled])
       ELSE Execute(@, [kind |-> "CODE"])]
  /\ UNCHANGED <<row, signed>>

CloseDialogue(s) ==
  /\ page[s] # Null /\ page[s].dialogue # Null /\ ~Confirming(s)
  /\ page' = [page EXCEPT ![s].dialogue = Null]
  /\ UNCHANGED <<row, signed>>

\* The address in force is asked for too, when the page knows that there is one.
AddressOrders(p) ==
  {[kind |-> "EMAIL", new |-> new, old |-> old] :
     new \in Emails \cup {Null}, old \in IF p.email = Null THEN {Null} ELSE Emails}

SubmitEmail(s) ==
  /\ Usable(s, "email")
  /\ \E order \in AddressOrders(page[s]) : page' = [page EXCEPT ![s] = Execute(@, order)]
  /\ UNCHANGED <<row, signed>>

SubmitPassword(s) ==
  /\ page[s] # Null /\ page[s].dialogue = Null
  /\ page' = [page EXCEPT ![s] = Execute(@, [kind |-> "PASSWORD"])]
  /\ UNCHANGED <<row, signed>>

-----------------------------------------------------------------------------
(* The service *)

Becomes(s, status) == page' = [page EXCEPT ![s].call.status = status]

InService(s, kinds, status) ==
  page[s] # Null /\ page[s].call # Null /\ page[s].call.kind \in kinds
    /\ page[s].call.status = status

\* No session; or a wrong password, a value out of bounds, a fault of the server:
\* nothing is done.
Refuse(s) ==
  /\ page[s] # Null /\ page[s].call # Null /\ page[s].call.status = "sent"
  /\ Becomes(s, IF s \in signed THEN "refused" ELSE "unauthenticated")
  /\ UNCHANGED <<row, signed>>

\* The settings of the patch, then the revocations, in one transaction.
PatchAppSettings(s) ==
  /\ InService(s, {"APP", "REVOKE"}, "sent") /\ s \in signed
  /\ LET c == page[s].call
     IN /\ settings' = Merged(c.patch, settings)
        /\ signed' = IF "admin" \in c.revoke THEN {} ELSE signed
  /\ Becomes(s, "stored")
  /\ UNCHANGED <<prefs, board, email>>

PatchNotifPrefs(s) ==
  /\ InService(s, {"PREF"}, "sent") /\ s \in signed
  /\ prefs' = [prefs EXCEPT ![page[s].call.key] = page[s].call.value]
  /\ Becomes(s, "stored")
  /\ UNCHANGED <<settings, board, email, signed>>

PatchBoard(s) ==
  /\ InService(s, {"TOGGLE", "CODE"}, "sent") /\ s \in signed
  /\ board' = IF page[s].call.kind = "CODE" THEN [board EXCEPT !.hasCode = TRUE]
              ELSE [board EXCEPT !.enabled = page[s].call.value]
  /\ Becomes(s, "stored")
  /\ UNCHANGED <<settings, prefs, email, signed>>

\* updateEmail compares the addresses while it verifies the password, and
\* writes afterwards.
CheckEmail(s) ==
  /\ InService(s, {"EMAIL"}, "sent") /\ s \in signed
  /\ LET known == Read("email")
     IN Becomes(s, IF known # Null /\ page[s].call.old # known THEN "refused" ELSE "checked")
  /\ UNCHANGED <<row, signed>>

UpdateEmail(s) ==
  /\ InService(s, {"EMAIL"}, "checked")
  /\ email' = page[s].call.new
  /\ Becomes(s, "stored")
  /\ UNCHANGED <<settings, prefs, board, signed>>

ChangePassword(s) ==
  /\ InService(s, {"PASSWORD"}, "sent") /\ s \in signed
  /\ signed' = {}
  /\ Becomes(s, "stored")
  /\ UNCHANGED row

-----------------------------------------------------------------------------
(* The answers *)

Released(p) == [p EXCEPT !.call = Null]

\* What an answer says of the row was read after the transaction.
Shows(p) ==
  LET c == p.call
      q == Released(p)
  IN CASE c.kind \in {"APP", "REVOKE"} ->
            [q EXCEPT !.base = settings, !.draft = settings, !.typed = {}, !.revoke = {},
                      !.dialogue = IF c.kind = "REVOKE" THEN Null ELSE @]
       [] c.kind = "PREF" -> [q EXCEPT !.shown = prefs, !.saving = Null]
       [] c.kind = "TOGGLE" -> [q EXCEPT !.board.enabled = c.value, !.dialogue = Null]
       [] c.kind = "CODE" -> [q EXCEPT !.board.hasCode = TRUE, !.dialogue = Null]
       [] OTHER -> [q EXCEPT !.email = Read("email")]

\* A change of password, or a revocation of the administrator's sessions, ends
\* the page that asked for it.
Ends(c) == c.kind = "PASSWORD" \/ (c.kind = "REVOKE" /\ "admin" \in c.revoke)

\* The page keeps what was typed, and its dialogue; a preference goes back.
Missed(p) ==
  IF p.call.kind = "PREF"
  THEN [Released(p) EXCEPT !.shown[p.call.key] = ~p.call.value, !.saving = Null]
  ELSE Released(p)

Answer(s) ==
  /\ page[s] # Null /\ page[s].call # Null
  /\ LET p == page[s]
     IN \/ /\ p.call.status = "stored"
           /\ page' = [page EXCEPT ![s] = IF Ends(p.call) THEN Null ELSE Shows(p)]
        \/ p.call.status = "refused" /\ page' = [page EXCEPT ![s] = Missed(p)]
        \/ p.call.status = "unauthenticated" /\ page' = [page EXCEPT ![s] = Null]
  /\ UNCHANGED <<row, signed>>

\* The request or its answer is lost.
Fail(s) ==
  /\ page[s] # Null /\ page[s].call # Null /\ page[s].call.status \in {"sent", "stored"}
  /\ page' = [page EXCEPT ![s] = Missed(@)]
  /\ UNCHANGED <<row, signed>>

\* Bound: the page is not left while a call is in flight.
Leave(s) ==
  /\ page[s] # Null /\ page[s].call = Null
  /\ page' = [page EXCEPT ![s] = Null]
  /\ UNCHANGED <<row, signed>>

Next ==
  \E s \in Screens :
    \/ Open(s) \/ Leave(s)
    \/ \E x \in Sections : Load(s, x)
    \/ Type(s) \/ SwitchExpiry(s) \/ ResetAppSettings(s) \/ SubmitAppSettings(s)
    \/ \E scope \in Scopes : CheckRevocation(s, scope)
    \/ \E k \in Prefs : HandleToggle(s, k)
    \/ \E kind \in {"TOGGLE", "CODE"} : AskBoard(s, kind)
    \/ Confirm(s) \/ CloseDialogue(s) \/ SubmitEmail(s) \/ SubmitPassword(s)
    \/ Refuse(s) \/ PatchAppSettings(s) \/ PatchNotifPrefs(s) \/ PatchBoard(s)
    \/ CheckEmail(s) \/ UpdateEmail(s) \/ ChangePassword(s)
    \/ Answer(s) \/ Fail(s)

Spec == Init /\ [][Next]_vars
-----------------------------------------------------------------------------
\* Two browsers do not undo each other's work: a setting changes to what was
\* typed for it on the page that saves it, however old that page is.
SaveTouchesOnlyTyped ==
  [][\A f \in Fields : settings'[f] # settings[f] =>
       \E s \in Screens :
         /\ page[s] # Null /\ page'[s].call # page[s].call
         /\ f \in page[s].typed /\ settings'[f] = page[s].draft[f]]_vars
=============================================================================
