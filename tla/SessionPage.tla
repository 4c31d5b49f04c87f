----------------------------- MODULE SessionPage -----------------------------
(***************************************************************************)
(* The session of a tab (authStore.ts) and the surfaces that read and      *)
(* change it: the account menu and its sign-in form (AuthMenu.tsx), the    *)
(* account settings, the user list, the reports and the form that sends    *)
(* one.  Requests read the key `token` of the browser's storage, which all *)
(* its tabs share, and not the store of their own tab.                     *)
(***************************************************************************)
EXTENDS Naturals, FiniteSets

CONSTANTS
    User,
    Anyone,    \* nobody is signed in
    Admins,    \* users with the role admin
    MaxAsks,   \* bound on requests that are not follow-ups
    MaxForms   \* bound on sign-in forms

ASSUME SessionAssumption ==
    Anyone \notin User /\ Admins \subseteq User /\ MaxAsks \in Nat /\ MaxForms \in Nat

VARIABLES
    key,     \* the key `token` of the browser's storage: whose it is
    sess,    \* the store: token, user, authModalOpen
    form,    \* the sign-in form: which one, mode, filled, busy, err
    popover, \* popoverOpen
    view,    \* the page that is shown
    panel,   \* its state
    asks,    \* requests that have not answered
    sent,    \* requests sent: the bound's counter
    crossed  \* history: another tab signed in or out, or a refresh answered
             \* for a session that had been left meanwhile

sessionVars == <<key, sess, form, popover, view, panel, asks, sent, crossed>>

Who == User \cup {Anyone}
Note == {"none", "ok", "err"}
Cut == {"open", "all"}
View == {"settings", "users", "reports", "flag"}

SessionTypeOK ==
    /\ key \in Who
    /\ sess \in [token : Who, user : Who, open : BOOLEAN]
    /\ form \in [n : 0 .. MaxForms, mode : {"login", "register", "recover"},
                 filled : BOOLEAN, busy : BOOLEAN, err : BOOLEAN]
    /\ popover \in BOOLEAN
    /\ view \in View
    /\ panel \in [profile : Note, password : Note, code : BOOLEAN, copied : BOOLEAN,
                  busy : BOOLEAN, ok : BOOLEAN, err : BOOLEAN,
                  filter : Cut, listed : Cut \cup {"nothing"}, noted : BOOLEAN]
    /\ asks \subseteq [n : 0 .. MaxAsks,
                       kind : {"auth", "me", "boot", "profile", "password", "code",
                               "users", "role", "active", "reports", "act", "flag"},
                       as : Who, form : 0 .. MaxForms, filter : Cut]
    /\ sent \in 0 .. MaxAsks
    /\ crossed \in BOOLEAN

-----------------------------------------------------------------------------
(***************************************************************************)
(* Requests.                                                               *)
(***************************************************************************)

Request(kind, as) ==
    [n |-> sent + 1, kind |-> kind, as |-> as, form |-> form.n, filter |-> panel.filter]

Ask(kind) ==
    /\ sent < MaxAsks
    /\ sent' = sent + 1
    /\ asks' = asks \cup {Request(kind, key)}

\* One is answered and, when it has to be followed, another takes its place.
Over(r) == asks' = asks \ {r} /\ sent' = sent

Then(r, next) == asks' = (asks \ {r}) \cup {[next EXCEPT !.n = r.n]} /\ sent' = sent

Signed == sess.token # Anyone /\ sess.user # Anyone
IsAdmin == sess.user \in Admins
FreshPanel == [profile |-> "none", password |-> "none", code |-> FALSE,
               copied |-> FALSE, busy |-> FALSE, ok |-> FALSE, err |-> FALSE,
               filter |-> "open", listed |-> "nothing", noted |-> FALSE]
NewForm(n) == [n |-> n, mode |-> "login", filled |-> FALSE, busy |-> FALSE, err |-> FALSE]

\* A tab that boots: persist has put back the token and the user it kept,
\* which also rewrites the key, and App refreshes the user; the page of an
\* admin loads its list.
SessionInit ==
    /\ key \in Who
    /\ sess = [token |-> key, user |-> key, open |-> FALSE]
    /\ form = NewForm(0)
    /\ popover = FALSE
    /\ view \in View
    /\ panel = [FreshPanel EXCEPT !.busy = (view = "users" /\ IsAdmin)]
    /\ asks = (IF key = Anyone THEN {} ELSE
                 {[n |-> 0, kind |-> "boot", as |-> key, form |-> 0, filter |-> "open"]})
              \cup (IF ~ (IsAdmin /\ view \in {"users", "reports"}) THEN {} ELSE
                 {[n |-> 0, kind |-> view, as |-> key, form |-> 0, filter |-> "open"]})
    /\ sent = 0
    /\ crossed = FALSE

-----------------------------------------------------------------------------
(***************************************************************************)
(* The store.                                                              *)
(***************************************************************************)

\* Mutant of SignedInAs: whoever sent the form is left to close it.
SignedInOpen(u) == key' = u /\ sess' = [sess EXCEPT !.token = u, !.user = u]

\* The answer to login, register and recover.
SignedInAs(u) == key' = u /\ sess' = [token |-> u, user |-> u, open |-> FALSE]

\* Mutant of SignedOut: the legacy key is left.
SignedOutOfStore ==
    /\ sess' = [sess EXCEPT !.token = Anyone, !.user = Anyone]
    /\ UNCHANGED key

\* logout, and the catch of refreshUser.
SignedOut ==
    /\ key' = Anyone
    /\ sess' = [sess EXCEPT !.token = Anyone, !.user = Anyone]

\* refreshUser answered for r.as: the user is that one from here on,
\* whoever has signed in or out meanwhile.
Refreshed(r, ok) ==
    /\ IF ok THEN sess' = [sess EXCEPT !.user = r.as] /\ UNCHANGED key ELSE SignedOut
    /\ crossed' = (crossed \/ r.as # sess.token)

\* The page follows the role (the effects of the list pages): they load again
\* when it changes to admin.
Followed(p) ==
    IF view \in {"users", "reports"} /\ (sess'.user \in Admins) # IsAdmin
    THEN [p EXCEPT !.busy = (view = "users" /\ ~ IsAdmin)]
    ELSE p

Lists == view \in {"users", "reports"} /\ sess'.user \in Admins /\ ~ IsAdmin

-----------------------------------------------------------------------------
(***************************************************************************)
(* AuthMenu and its form.                                                  *)
(***************************************************************************)

\* The button, or a surface that asks for it; the form is a new one.
RequestSignIn ==
    /\ ~ Signed /\ ~ sess.open
    /\ form.n < MaxForms
    /\ sess' = [sess EXCEPT !.open = TRUE]
    /\ form' = NewForm(form.n + 1)
    /\ UNCHANGED <<key, popover, view, panel, asks, sent, crossed>>

DismissSignIn ==
    /\ ~ Signed /\ sess.open
    /\ sess' = [sess EXCEPT !.open = FALSE]
    /\ UNCHANGED <<key, form, popover, view, panel, asks, sent, crossed>>

FormShown == ~ Signed /\ sess.open

FillForm ==
    /\ FormShown /\ ~ form.filled
    /\ form' = [form EXCEPT !.filled = TRUE]
    /\ UNCHANGED <<key, sess, popover, view, panel, asks, sent, crossed>>

\* The links under the button; nothing but the button heeds busy.
SwitchForm ==
    /\ FormShown
    /\ \E m \in {"login", "register", "recover"} \ {form.mode} :
          /\ m = "recover" => form.mode = "login"
          /\ m = "register" => form.mode = "login"
          /\ form' = [form EXCEPT !.mode = m, !.err = FALSE]
    /\ UNCHANGED <<key, sess, popover, view, panel, asks, sent, crossed>>

SubmitForm ==
    /\ FormShown /\ form.filled /\ ~ form.busy
    /\ form' = [form EXCEPT !.busy = TRUE, !.err = FALSE]
    /\ \E u \in User : /\ sent < MaxAsks /\ sent' = sent + 1
                       /\ asks' = asks \cup {Request("auth", u)}
    /\ UNCHANGED <<key, sess, popover, view, panel, crossed>>

\* Mutant of FormFails: busy is reset on success only.
FormFailsBusy(f) == [f EXCEPT !.err = TRUE]

FormFails(f) == [f EXCEPT !.busy = FALSE, !.err = TRUE]

\* Whatever has become of the form that sent it.  onClose is the store's.
AuthAnswers ==
    \E r \in asks :
        /\ r.kind = "auth"
        /\ \/ /\ SignedInAs(r.as)
              /\ panel' = Followed(panel)
              /\ form' = [form EXCEPT !.busy = IF r.form = form.n THEN FALSE ELSE @]
              /\ IF Lists THEN Then(r, Request(view, r.as)) ELSE Over(r)
           \/ /\ form' = IF r.form = form.n
                         THEN FormFails(form) ELSE form
              /\ Over(r)
              /\ UNCHANGED <<key, sess, panel>>
        /\ UNCHANGED <<popover, view, crossed>>

Popover ==
    /\ Signed
    /\ popover' = ~ popover
    /\ UNCHANGED <<key, sess, form, view, panel, asks, sent, crossed>>

Logout ==
    /\ Signed /\ popover
    /\ popover' = FALSE
    /\ SignedOut
    /\ panel' = Followed(panel)
    /\ UNCHANGED <<form, view, asks, sent, crossed>>

\* The key is the browser's: another of its tabs signs in or out.
OtherTab ==
    /\ \E u \in Who \ {key} : key' = u
    /\ crossed' = TRUE
    /\ UNCHANGED <<sess, form, popover, view, panel, asks, sent>>

\* refreshUser answers, on boot or after the profile was saved.
RefreshAnswers ==
    \E r \in asks, ok \in BOOLEAN :
        /\ r.kind \in {"boot", "me"}
        /\ ok => r.as # Anyone
        /\ Refreshed(r, ok)
        /\ LET p == Followed(panel)
           IN panel' = IF r.kind = "me" THEN [p EXCEPT !.profile = "ok"] ELSE p
        /\ IF Lists THEN Then(r, Request(view, key)) ELSE Over(r)
        /\ UNCHANGED <<form, popover, view>>

-----------------------------------------------------------------------------
(***************************************************************************)
(* AccountSettings.                                                        *)
(***************************************************************************)

SaveSettings ==
    /\ view = "settings" /\ Signed
    /\ \E k \in {"profile", "password"} :
          Ask(k) /\ panel' = [panel EXCEPT ![k] = "none"]
    /\ UNCHANGED <<key, sess, form, popover, view, crossed>>

NewRecoveryCode ==
    /\ view = "settings" /\ Signed /\ ~ panel.code
    /\ Ask("code")
    /\ UNCHANGED <<key, sess, form, popover, view, panel, crossed>>

CopyCode ==
    /\ view = "settings" /\ Signed /\ panel.code /\ ~ panel.copied
    /\ panel' = [panel EXCEPT !.copied = TRUE]
    /\ UNCHANGED <<key, sess, form, popover, view, asks, sent, crossed>>

\* Saving the profile goes on with refreshUser, whose failure it never sees.
SettingsAnswer ==
    \E r \in asks, ok \in BOOLEAN :
        /\ r.kind \in {"profile", "password", "code"}
        /\ IF ok /\ r.kind = "profile" /\ sess.token # Anyone
           THEN Then(r, Request("me", key)) /\ UNCHANGED panel
           ELSE /\ Over(r)
                /\ panel' = CASE ok /\ r.kind = "code" ->
                                    [panel EXCEPT !.code = TRUE, !.copied = FALSE]
                              [] ~ ok /\ r.kind = "code" -> [panel EXCEPT !.password = "err"]
                              [] OTHER -> [panel EXCEPT ![r.kind] = IF ok THEN "ok" ELSE "err"]
        /\ UNCHANGED <<key, sess, form, popover, view, crossed>>

-----------------------------------------------------------------------------
(***************************************************************************)
(* AdminUsers: changing a user, then loading the list.                     *)
(***************************************************************************)

ChangeUser ==
    /\ view = "users" /\ IsAdmin /\ ~ panel.busy
    /\ \E k \in {"role", "active"} :
          /\ Ask(k)
          /\ panel' = [panel EXCEPT !.ok = FALSE, !.err = IF k = "active" THEN FALSE ELSE @]
    /\ UNCHANGED <<key, sess, form, popover, view, crossed>>

UsersAnswer ==
    \E r \in asks, ok \in BOOLEAN :
        /\ r.kind \in {"users", "role", "active"}
        /\ IF ok /\ r.kind # "users"
           THEN /\ panel' = [panel EXCEPT !.ok = TRUE, !.busy = TRUE, !.err = FALSE]
                /\ Then(r, Request("users", key))
           ELSE /\ panel' = [panel EXCEPT !.err = IF ok THEN @ ELSE TRUE,
                                          !.busy = IF r.kind = "users" THEN FALSE ELSE @]
                /\ Over(r)
        /\ UNCHANGED <<key, sess, form, popover, view, crossed>>

-----------------------------------------------------------------------------
(***************************************************************************)
(* AdminReports, and FlagModal, where anyone may send one.                 *)
(***************************************************************************)

PickFilter ==
    /\ view = "reports" /\ IsAdmin /\ sess.token # Anyone
    /\ \E f \in Cut \ {panel.filter} :
          /\ panel' = [panel EXCEPT !.filter = f, !.err = FALSE]
          /\ sent < MaxAsks /\ sent' = sent + 1
          /\ asks' = asks \cup {[Request("reports", key) EXCEPT !.filter = f]}
    /\ UNCHANGED <<key, sess, form, popover, view, crossed>>

\* Resolving asks for a closing note first; dismissing does not.
OpenNote ==
    /\ view = "reports" /\ IsAdmin /\ panel.listed # "nothing" /\ ~ panel.noted
    /\ panel' = [panel EXCEPT !.noted = TRUE]
    /\ UNCHANGED <<key, sess, form, popover, view, asks, sent, crossed>>

Resolve ==
    /\ view = "reports" /\ IsAdmin /\ panel.listed # "nothing" /\ panel.noted
    /\ Ask("act")
    /\ UNCHANGED <<key, sess, form, popover, view, panel, crossed>>

Dismiss ==
    /\ view = "reports" /\ IsAdmin /\ panel.listed # "nothing"
    /\ Ask("act")
    /\ panel' = [panel EXCEPT !.noted = FALSE]
    /\ UNCHANGED <<key, sess, form, popover, view, crossed>>

\* The load after an act is that of the filter the act was started under.
ReportsAnswer ==
    \E r \in asks, ok \in BOOLEAN :
        /\ r.kind \in {"reports", "act"}
        /\ IF ok /\ r.kind = "act"
           THEN /\ panel' = [panel EXCEPT !.noted = FALSE, !.err = FALSE]
                /\ Then(r, [Request("reports", key) EXCEPT !.filter = r.filter])
           ELSE /\ panel' = IF ok THEN [panel EXCEPT !.listed = r.filter]
                                  ELSE [panel EXCEPT !.err = TRUE]
                /\ Over(r)
        /\ UNCHANGED <<key, sess, form, popover, view, crossed>>

SendFlag ==
    /\ view = "flag" /\ ~ panel.busy /\ ~ panel.ok
    /\ Ask("flag")
    /\ panel' = [panel EXCEPT !.busy = TRUE, !.err = FALSE]
    /\ UNCHANGED <<key, sess, form, popover, view, crossed>>

FlagAnswers ==
    \E r \in asks, ok \in BOOLEAN :
        /\ r.kind = "flag"
        /\ Over(r)
        /\ panel' = [panel EXCEPT !.busy = FALSE, !.ok = ok, !.err = ~ ok]
        /\ UNCHANGED <<key, sess, form, popover, view, crossed>>

-----------------------------------------------------------------------------
SessionReplies ==
    \/ AuthAnswers \/ RefreshAnswers \/ SettingsAnswer
    \/ UsersAnswer \/ ReportsAnswer \/ FlagAnswers

SessionNext ==
    \/ RequestSignIn \/ DismissSignIn \/ FillForm \/ SwitchForm \/ SubmitForm
    \/ Popover \/ Logout \/ OtherTab
    \/ SaveSettings \/ NewRecoveryCode \/ CopyCode
    \/ ChangeUser \/ PickFilter \/ OpenNote \/ Resolve \/ Dismiss \/ SendFlag
    \/ SessionReplies

SessionSpec == SessionInit /\ [][SessionNext]_sessionVars /\ WF_sessionVars(SessionReplies)

-----------------------------------------------------------------------------
(***************************************************************************)
(* What the session promises.                                              *)
(***************************************************************************)

\* The user the menus and gates go by, the token of the store and the key that
\* requests are sent with are of one and the same person, as authStore.ts
\* keeps "in sync", unless another tab has moved the key or a refresh outlived
\* the session it was started for.
OneIdentity == crossed \/ (sess.user = sess.token /\ sess.token = key)

\* A tab that is signed in has no sign-in form waiting: signing out never
\* brings one up that nobody asked for.
NoFormBehind == Signed => ~ sess.open

SessionIsWhole == OneIdentity /\ NoFormBehind

\* The form says "Working...".
FormWaits == form.busy /\ FormShown
=============================================================================
