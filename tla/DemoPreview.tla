---------------------------- MODULE DemoPreview ----------------------------
(***************************************************************************)
(* Retrieving an object in the BuckStream demo                             *)
(* (src/buckstream/demo/src/App.tsx): the key, the requests and what is    *)
(* previewed of them.  The broker gives a key without uploads/ in front    *)
(* its welcome page.                                                       *)
(***************************************************************************)
EXTENDS WebParams

Keys == [name : Objects, full : BOOLEAN]
DpNoKey == [name |-> None, full |-> FALSE]
Welcome == "welcome"

ASSUME DemoPreviewAssumption == None # Welcome

\* key      downloadKey         loading, error, status   as in the component
\* mime     the object whose DpContent-Type is downloadMimeType
\* blob     the object behind downloadPreviewUrl
\* get      each retrieval: its key, and whether its headers have been read
\* saved    the last file saved: its name and its content
VARIABLE dp

NoGet == [key |-> DpNoKey, headers |-> FALSE]

DpInit == dp =
    [key |-> DpNoKey, loading |-> FALSE, error |-> FALSE, status |-> "none",
     mime |-> None, blob |-> None, get |-> [i \in Calls |-> NoGet],
     saved |-> [key |-> DpNoKey, blob |-> None]]

\* The key is typed, or left there by an upload.
DpKey(k) == dp.key # k /\ dp' = [dp EXCEPT !.key = k]

\* handleDownload up to its request: what is previewed goes.
DpStarted(k, s) ==
    {[s EXCEPT !.loading = TRUE, !.error = FALSE, !.blob = None,
               !.status = "fetching", !.get[i] = [NoGet EXCEPT !.key = k]] :
        i \in {j \in Calls : /\ s.get[j] = NoGet
                             /\ \A h \in Calls : h < j => s.get[h] # NoGet}}

\* "Retrieve & Preview"
DpRetrieve ==
    /\ dp.key # DpNoKey /\ ~dp.loading
    /\ dp' \in DpStarted(dp.key, dp)

\* "Preview" of a row: nothing disables it.
DpPreview(n) ==
  LET k == [name |-> n, full |-> TRUE] IN
    dp' \in DpStarted(k, [dp EXCEPT !.key = k])

\* What the broker has under a key.
DpContent(k) == IF k.full THEN k.name ELSE Welcome

DpHeaders(i) ==
    /\ dp.get[i] # NoGet /\ ~dp.get[i].headers
    /\ dp' = [dp EXCEPT !.get[i].headers = TRUE, !.mime = DpContent(dp.get[i].key)]

DpBlob(i) ==
    /\ dp.get[i].headers
    /\ dp' = [dp EXCEPT !.get[i] = NoGet, !.blob = DpContent(dp.get[i].key),
                        !.status = "retrieved", !.loading = FALSE]

\* Changed program: a body that breaks off is not told.
DpFailedSilent(i) ==
    /\ dp.get[i] # NoGet
    /\ dp' = [dp EXCEPT !.get[i] = NoGet, !.loading = FALSE, !.status = "none",
                        !.error = @ \/ ~dp.get[i].headers]

DpFailed(i) ==
    /\ dp.get[i] # NoGet
    /\ dp' = [dp EXCEPT !.get[i] = NoGet, !.loading = FALSE, !.status = "none",
                        !.error = TRUE]

\* "Save to Disk": under the name of the key there is now.
DpSave ==
    /\ dp.blob # None
    /\ dp' = [dp EXCEPT !.saved = [key |-> dp.key, blob |-> dp.blob]]

\* "Download" of a row: a request of its own, an alert when it fails.
DpToDisk(n) ==
    dp' = [dp EXCEPT !.saved = [key |-> [name |-> n, full |-> TRUE], blob |-> n]]

DpStep(i) == DpHeaders(i) \/ DpBlob(i) \/ DpFailed(i)

DpNext ==
    \/ \E k \in Keys \cup {DpNoKey} : DpKey(k)
    \/ DpRetrieve \/ DpSave
    \/ \E n \in Objects : DpPreview(n) \/ DpToDisk(n)
    \/ \E i \in Calls : DpStep(i)

\* Every request is answered or fails.
DpFair == \A i \in Calls : WF_dp(DpStep(i))
DpSpec == DpInit /\ [][DpNext]_dp /\ DpFair

DpTypeOK ==
    dp \in [key : Keys \cup {DpNoKey}, loading : BOOLEAN, error : BOOLEAN,
            status : {"none", "fetching", "retrieved"},
            mime : Objects \cup {None, Welcome},
            blob : Objects \cup {None, Welcome},
            get : [Calls -> [key : Keys \cup {DpNoKey}, headers : BOOLEAN]],
            saved : [key : Keys \cup {DpNoKey}, blob : Objects \cup {None, Welcome}]]

\* When no retrieval is out, the page says either that it has loaded nothing
\* yet, or shows what a retrieval fetched, or an error: whatever overlapped,
\* a retrieval is not lost without a word and "Retrieving..." is over.
DpToldOrShown ==
    (\A i \in Calls : dp.get[i] = NoGet) =>
        /\ ~dp.loading
        /\ dp.mime # None \/ dp.status # "none" => dp.blob # None \/ dp.error
=============================================================================
