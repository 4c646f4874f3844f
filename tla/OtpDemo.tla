------------------------------ MODULE OtpDemo ------------------------------
(***************************************************************************)
(* The "email OTP demo" of the ArcAuth page (ArcAuthPage of                *)
(* arcauth-page.tsx): three steps, of which the first two end in a timer   *)
(* that stands for the server, and a button that copies.  The pills that   *)
(* choose a method change colours only and are left out.                   *)
(***************************************************************************)
EXTENDS WebParams

CONSTANT Foreign  \* those of Users whose address has a letter outside Latin-1

\* The address there is at first, and that of a token for a blank address.
Admin == "admin@arcops.dev"

ASSUME OtpDemoAssumption ==
    /\ Foreign \subseteq Users /\ Admin \notin Users /\ None # Admin

Addresses == Users \cup {Admin, None}

\* step, loading   as in the component      email   None: blank
\* code    whether one is typed             token   of whom resultToken is
\* timer   what setTimeout was called for, and the address it was called with
\* copied, copies   the tick of the copy button, and its timers
VARIABLE od

NoTimer == [op |-> "none", email |-> None]

OdInit == od =
    [step |-> "idle", loading |-> FALSE, email |-> Admin, code |-> FALSE,
     token |-> None, timer |-> NoTimer, copied |-> FALSE, copies |-> 0]

\* The field of the first step, also while "Sending...".
OdEmail(e) ==
    /\ od.step = "idle" /\ od.email # e
    /\ od' = [od EXCEPT !.email = e]

\* handleSend
OdSend ==
    /\ od.step = "idle" /\ ~od.loading /\ od.email # None
    /\ od' = [od EXCEPT !.loading = TRUE,
                        !.timer = [op |-> "send", email |-> od.email]]

OdSent ==
    /\ od.timer.op = "send"
    /\ od' = [od EXCEPT !.step = "sent", !.loading = FALSE, !.timer = NoTimer]

\* The field of the second step, also while "Verifying...".
OdCode ==
    /\ od.step = "sent"
    /\ od' = [od EXCEPT !.code = ~@]

\* handleVerify: whatever the code is.
OdVerify ==
    /\ od.step = "sent" /\ ~od.loading
    /\ od' = [od EXCEPT !.loading = TRUE,
                        !.timer = [op |-> "verify", email |-> od.email]]

\* btoa throws for an address outside Latin-1, and what would come after it,
\* the step and the end of "Verifying...", does not come.
OdThrown ==
    /\ od.timer.op = "verify" /\ od.timer.email \in Foreign
    /\ od' = [od EXCEPT !.timer = NoTimer]

OdVerified ==
    /\ od.timer.op = "verify" /\ od.timer.email \notin Foreign
    /\ od' = [od EXCEPT !.step = "done", !.loading = FALSE, !.timer = NoTimer,
                        !.token = IF od.timer.email = None THEN Admin
                                  ELSE od.timer.email]

\* Changed program: the token of the demo before is kept.
OdResetKeeps ==
    /\ od.step = "done"
    /\ od' = [od EXCEPT !.step = "idle", !.code = FALSE]

\* "Reset demo": the address stays.
OdReset ==
    /\ od.step = "done"
    /\ od' = [od EXCEPT !.step = "idle", !.code = FALSE, !.token = None]

\* handleCopy: a timer each; the first that ends takes the tick away.
OdCopy ==
    /\ od.copies < MaxCalls
    /\ od' = [od EXCEPT !.copied = TRUE, !.copies = @ + 1]

OdCopyTimer ==
    /\ od.copies > 0
    /\ od' = [od EXCEPT !.copied = FALSE, !.copies = @ - 1]

OdNext ==
    \/ \E e \in Addresses : OdEmail(e)
    \/ OdSend \/ OdSent \/ OdCode \/ OdVerify \/ OdVerified \/ OdThrown
    \/ OdReset \/ OdCopy \/ OdCopyTimer

\* A timer ends.
OdFair == WF_od(OdSent \/ OdVerified \/ OdThrown) /\ WF_od(OdCopyTimer)
OdSpec == OdInit /\ [][OdNext]_od /\ OdFair

OdTypeOK ==
    od \in [step : {"idle", "sent", "done"}, loading : BOOLEAN,
            email : Addresses, code : BOOLEAN, token : Addresses,
            timer : [op : {"none", "send", "verify"}, email : Addresses],
            copied : BOOLEAN, copies : 0 .. MaxCalls]

\* "Verifying..." of an address that btoa does not take, after its timer.
OdStuck == od.loading /\ od.timer = NoTimer

\* A token is shown with "Authenticated!" and at no other step, and it is of
\* the address that is in the field, unless that is blank; the buttons are
\* disabled for as long as their timer runs and no longer, so that no step is
\* taken twice, but for the address that cannot be made a token, whose second
\* step they do not leave (arcauth-page.tsx:104-120).
OdWhose ==
    /\ od.token # None <=> od.step = "done"
    /\ od.step = "done" /\ od.email # None => od.token = od.email
    /\ od.timer # NoTimer => od.loading
    /\ OdStuck => od.step = "sent" /\ od.email \in Foreign
=============================================================================
