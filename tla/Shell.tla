------------------------------- MODULE Shell -------------------------------
(***************************************************************************)
(* The console around its pages (src/console/src/App.tsx, components/,     *)
(* pages/Login.tsx and lib/auth.ts): who is signed in and which page is    *)
(* mounted.  The sidebar and the keys of Shell navigate; the token is kept *)
(* in sessionStorage, so a reload stays signed in.                         *)
(***************************************************************************)
VARIABLES
    page,     \* the path, whose page is mounted while someone is signed in
    token,    \* sessionStorage and lib/auth hold a token
    authed,   \* App's state
    login,    \* Login: idle, loading or error
    typed     \* Login: the fields that are not empty

shellVars == <<page, token, authed, login, typed>>

Fields == {"username", "password"}

Pages == {"stream", "graph", "timeline", "replay", "settings"}

On(p) == authed /\ page = p

ShellInit ==
    /\ page = "stream" /\ token = FALSE /\ authed = FALSE
    /\ login = "idle" /\ typed = {}

(* RequireAuth shows Login to whoever is not signed in. *)
LoginShown == ~authed /\ ~token

(* A field of the form is filled or emptied, even while a request is under way. *)
Edit(field) ==
    /\ LoginShown
    /\ typed' = IF field \in typed THEN typed \ {field} ELSE typed \cup {field}
    /\ UNCHANGED <<page, token, authed, login>>

(* Submitting is disabled while a request is under way or a field is empty. *)
handleSubmit ==
    /\ LoginShown /\ login # "loading" /\ typed = Fields
    /\ login' = "loading"
    /\ UNCHANGED <<page, token, authed, typed>>

(* The answer: an error that is shown, or a token. *)
LoginRefused ==
    /\ LoginShown /\ login = "loading" /\ login' = "error"
    /\ UNCHANGED <<page, token, authed, typed>>

handleAuth ==
    /\ LoginShown /\ login = "loading" /\ login' = "idle" /\ typed' = {}
    /\ token' = TRUE /\ authed' = TRUE
    /\ UNCHANGED page

handleLogout ==
    /\ authed
    /\ token' = FALSE /\ authed' = FALSE
    /\ UNCHANGED <<page, login, typed>>

navigate(p) ==
    /\ authed /\ page # p /\ page' = p
    /\ UNCHANGED <<token, authed, login, typed>>

(* The browser unloads the application, and starts it again with the token   *)
(* that isAuthenticated finds, if there is one.                              *)
Unload ==
    /\ authed' = FALSE /\ login' = "idle" /\ typed' = {}
    /\ UNCHANGED <<page, token>>

Start ==
    /\ ~authed /\ token /\ authed' = TRUE
    /\ UNCHANGED <<page, token, login, typed>>
=============================================================================
