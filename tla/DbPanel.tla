------------------------------ MODULE DbPanel ------------------------------
(***************************************************************************)
(* The database cards of the dashboard (db-bento.tsx): the mode and the    *)
(* connection of each database as the component shows them, and what it    *)
(* keeps of both in localStorage.                                          *)
(*                                                                         *)
(* A database of ModeDbs (postgres, redis) takes its mode from the key     *)
(* db_mode_<id> when the cards are loaded; one of DsnDbs (mysql, mongodb,  *)
(* vector) takes it from whether byod_<id>_dsn is there.  A DSN stands for *)
(* the user who registered it, the text in the input for whether there is  *)
(* any.  The page is in one tab of the browser.  The size of the database, *)
(* the script editor and the downloads are those of DbScript.              *)
(***************************************************************************)
EXTENDS WebParams

CONSTANTS Owners,    \* the users who come to the page of the databases
          ModeDbs,   \* databases whose mode is read back
          DsnDbs,    \* databases whose mode follows from their DSN
          Pooled     \* those of DsnDbs that are managed without one (vector)

ASSUME DbPanelAssumption ==
    /\ Owners \subseteq Users
    /\ None \notin ModeDbs \cup DsnDbs \cup {"managed", "byod", "configure"}
    /\ ModeDbs \cap DsnDbs = {} /\ Pooled \subseteq DsnDbs

Dbs == ModeDbs \cup DsnDbs
Someone == Owners \cup {None}

\* user   the component's user: it hears of logins only, so that it outlives
\*        arcauth.logout() and what other tabs do
\* saved  db_mode_* and byod_*_dsn        card   databases
\* loads  loadTenantDatabases under way   modal  activeDb, a copy of a card
\* auth   showAuthModal                   input  dsnInput is not blank
\* reg    the registration under way: isEncrypting
\* left   registrations under way whose page was left
\* behind ghost: databases that one of those stored a DSN of, when no load
\*        and no registration has put it on the card since
VARIABLE db

Unconfigured == [d \in Dbs |-> [status |-> "configure", dsn |-> None]]
NoReg == [db |-> None, user |-> None]
NoModal == [db |-> None, status |-> "configure"]

\* The page as it is mounted with the session of u: the cards are still the
\* baseline and the first load is on its way.
Mounted(u, saved, left) ==
    [left |-> left, behind |-> {}, user |-> u, saved |-> saved, card |-> Unconfigured, loads |-> 1,
     modal |-> NoModal, auth |-> FALSE, input |-> FALSE, reg |-> NoReg]

DbInit == \E u \in Owners :
    db = Mounted(u, [d \in Dbs |-> [mode |-> None, dsn |-> None]], {})

\* What loadTenantDatabases makes of localStorage.
Restored(saved, d) ==
    IF d \in ModeDbs
    THEN IF saved[d].mode = None THEN "managed" ELSE saved[d].mode
    ELSE IF saved[d].dsn # None THEN "byod"
         ELSE IF d \in Pooled THEN "managed" ELSE "configure"

\* The modal of a database is shown to a user only; it covers the cards, and
\* so does the one that asks to sign in.
DetailShown == db.modal # NoModal /\ db.user # None
CardsReachable == ~DetailShown /\ ~db.auth

\* What the button of a card says.
DbLabel(d) ==
    IF db.user = None THEN "Configure"
    ELSE IF db.card[d].status = "managed" THEN "Managed"
    ELSE IF db.card[d].status = "byod" \/ db.card[d].dsn # None
    THEN "BYOD Active" ELSE "Configure"

-----------------------------------------------------------------------------
(* The session *)

\* The page is loaded, by the user of localStorage or after a login as u.
DbArrive(u) == db' = Mounted(u, db.saved, {})

\* It is left and opened again within the application: handleRegisterByod of
\* the component that went goes on.  Bound: one registration is left at a time.
DbReturn(u) ==
    /\ db.left = {} \/ db.reg = NoReg
    /\ db' = Mounted(u, db.saved, db.left \cup ({db.reg} \ {NoReg}))

\* A login event, which a Sign Out of Navbar dispatches too: checkUser makes
\* a new object, and the effect on it loads the cards again.
DbHear(u) ==
    /\ u # None => db.loads < MaxCalls
    /\ db' = [db EXCEPT !.user = u,
                        !.card = IF u = None /\ db.user # None THEN Unconfigured ELSE @,
                        !.loads = IF u = None THEN @ ELSE @ + 1]

\* The answer of the size query, whoever is the user by now: the cards are
\* what localStorage says.
DbLoaded ==
    /\ db.loads > 0
    /\ db' = [db EXCEPT !.loads = @ - 1,
                        !.behind = {},
                        !.card = [d \in Dbs |-> [status |-> Restored(db.saved, d),
                                                 dsn |-> db.saved[d].dsn]]]

-----------------------------------------------------------------------------
(* Cards, modals and modes *)

DbCardClick(d) ==
    /\ CardsReachable
    /\ db' = IF db.user = None THEN [db EXCEPT !.auth = TRUE]
             ELSE [db EXCEPT !.modal = [db |-> d, status |-> db.card[d].status]]

DbCloseAuth == db.auth /\ db' = [db EXCEPT !.auth = FALSE]

DbClose == DetailShown /\ db' = [db EXCEPT !.modal = NoModal]

DbType(b) == DetailShown /\ db' = [db EXCEPT !.input = b]

\* Changed program: a mode is switched without asking for a DSN.
DbToggleFree ==
    /\ DetailShown
    /\ LET d == db.modal.db
           new == IF db.card[d].status = "managed" THEN "byod" ELSE "managed" IN
       db' = [db EXCEPT !.card[d].status = new, !.saved[d].mode = new]

\* toggleManagedByodMode: to BYODB only with a DSN that is stored, shown or
\* typed.  The modal keeps its copy of the card.
DbToggle ==
    /\ DetailShown
    /\ LET d == db.modal.db
           new == IF db.card[d].status = "managed" THEN "byod" ELSE "managed" IN
       /\ new = "byod" => \/ db.saved[d].dsn # None \/ db.card[d].dsn # None
                          \/ db.input
       /\ db' = [db EXCEPT !.card[d].status = new, !.saved[d].mode = new]

-----------------------------------------------------------------------------
(* Registration of a DSN *)

\* The button is disabled while one is under way.
CanRegister == DetailShown /\ db.reg = NoReg /\ db.input

DbRegister ==
    /\ CanRegister
    /\ db' = [db EXCEPT !.reg = [db |-> db.modal.db, user |-> db.user]]

\* Changed program: the mode of a database that was registered is not stored.
DbRegisteredDsn ==
    /\ db.reg # NoReg
    /\ LET d == db.reg.db IN
       db' = [db EXCEPT !.saved[d].dsn = db.reg.user,
                        !.card[d] = [status |-> "byod", dsn |-> db.reg.user],
                        !.behind = @ \ {d}, !.input = FALSE,
                        !.modal = NoModal, !.reg = NoReg]

\* The answer is for the database whose modal was open at the click; the
\* input that is emptied and the modal that is closed are those of now.
DbRegistered ==
    /\ db.reg # NoReg
    /\ LET d == db.reg.db IN
       db' = [db EXCEPT !.saved[d] = [mode |-> "byod", dsn |-> db.reg.user],
                        !.card[d] = [status |-> "byod", dsn |-> db.reg.user],
                        !.behind = @ \ {d}, !.input = FALSE,
                        !.modal = NoModal, !.reg = NoReg]

DbRefused == db.reg # NoReg /\ db' = [db EXCEPT !.reg = NoReg]

\* One whose page was left ends: the DSN is stored, and nothing is shown of
\* it on the page there is now; or it is refused.
DbLeftEnds == \E r \in db.left :
    \/ db' = [db EXCEPT !.left = @ \ {r}, !.behind = @ \cup {r.db},
                        !.saved[r.db] = [mode |-> "byod", dsn |-> r.user]]
    \/ db' = [db EXCEPT !.left = @ \ {r}]

-----------------------------------------------------------------------------
DbNext ==
    \/ \E u \in Owners : DbArrive(u) \/ DbReturn(u)
    \/ \E u \in Someone : DbHear(u)
    \/ DbLoaded \/ DbCloseAuth \/ DbClose \/ DbToggle \/ DbRegister
    \/ DbRegistered \/ DbRefused \/ DbLeftEnds
    \/ \E d \in Dbs : DbCardClick(d)
    \/ \E b \in BOOLEAN : DbType(b)

\* The browser answers or gives up on every request.
DbFairness == WF_db(DbLoaded) /\ WF_db(DbRegistered \/ DbRefused)
              /\ WF_db(DbLeftEnds)

DbSpec == DbInit /\ [][DbNext]_db /\ DbFairness

-----------------------------------------------------------------------------
(* Properties *)

DbTypeOK ==
    LET Status == {"managed", "byod", "configure"} IN
    db \in [user : Someone,
            saved : [Dbs -> [mode : {"managed", "byod", None}, dsn : Someone]],
            card : [Dbs -> [status : Status, dsn : Someone]],
            loads : 0 .. MaxCalls + 1,
            modal : [db : Dbs \cup {None}, status : Status],
            auth : BOOLEAN, input : BOOLEAN,
            reg : [db : Dbs \cup {None}, user : Someone],
            left : SUBSET [db : Dbs, user : Owners], behind : SUBSET Dbs]

\* With no load under way, the cards shown to a user are those a reload of
\* the page would show: every handler writes both copies.  Excepted are the
\* modes of the databases whose mode is not read back, and a database whose
\* registration was left with the page and stored its DSN behind a later one
\* (db-bento.tsx:166-227 against 260-270 and 295-304).
DbShownIsSaved ==
    /\ DbTypeOK
    /\ db.user # None /\ db.loads = 0 =>
          /\ \A d \in ModeDbs \ db.behind : db.card[d].status = Restored(db.saved, d)
          /\ \A d \in Dbs \ db.behind : db.card[d].dsn = db.saved[d].dsn

\* A mode that needs a DSN is saved for a database without one only by the
\* switch, with a DSN typed and not registered (db-bento.tsx:281-293).
DbNoDsnOnlyTyped ==
    [][\A d \in Dbs :
          /\ db'.saved[d].mode = "byod" /\ db'.saved[d].dsn = None
          /\ db.saved[d].mode # "byod"
          => DetailShown /\ db.modal.db = d /\ db.input]_db

=============================================================================
