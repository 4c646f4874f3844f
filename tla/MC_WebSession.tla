--------------------------- MODULE MC_WebSession ---------------------------
(* Values for WebSession, and what comments of the code say of it that the *)
(* model refutes.                                                          *)
EXTENDS WebSession

\* "Only log out if explicit 401 Unauthorized from server" (App.tsx:66): a
\* getMe that was not answered leaves what is stored alone.
OnlyRefusalLogsOut ==
    [][me.st = "sent" /\ me' = NoMe /\ page' = page /\ stored' # stored
          => stored.token = NoOne]_vars

\* "Revoke backend session if token exists" (login-page.tsx:36): coming to
\* the login page with a token sends the server a logout.
LoginRevokes ==
    [][page # "login" /\ page' = "login" /\ stored.token # NoOne
          => \E c \in Requests : call'[c].op = "logout" /\ call'[c].token = stored.token]_vars

\* The cookie of a login stays until a later logout.
CookieStays == [][cookie # NoOne /\ cookie' = NoOne => stored.token # cookie]_vars

\* A login that has succeeded is not followed by the error page.
SuccessStays == redirect => page # "error"

\* No profile is shown to a tab that has no token.
NoGhost == stored.token = NoOne => nav = NoOne
=============================================================================
