----------------------------- MODULE DemoFiles -----------------------------
(***************************************************************************)
(* Uploading, listing and deleting in the BuckStream demo                  *)
(* (src/buckstream/demo/src/App.tsx) over its client (buckstream.js) and   *)
(* the broker.  An object is named for the file name it was sent with; its *)
(* key has uploads/ in front.                                              *)
(***************************************************************************)
EXTENDS WebParams

CONSTANT Small    \* names of files of at most 5 MB

ASSUME DemoFilesAssumption == Small \subseteq Objects

DfKey(n, full) == [name |-> n, full |-> full]
DfNoKey == DfKey(None, FALSE)

\* A call is an upload or a deletion, which starts a listing when it has
\* succeeded, or a listing.
NoCall == [op |-> "none", name |-> None, stage |-> "none", snap |-> {}]

\* files     objects of the broker          shown    files
\* selected, sendAs   selectedFile, uploadedKey      call   what is out
\* uploading, upError, status, method   the upload's loading flag, error,
\*           status line and strategy       left     downloadKey
\* listing, listError  of the list          alerted  ghost: alert() was called
\* older     ghost: of each listing that is answered, those answered before it
\* crossed   ghost: a listing was taken before one answered earlier
VARIABLE df

StartList(i, s) ==
    [s EXCEPT !.listing = TRUE, !.listError = FALSE,
              !.call[i] = [NoCall EXCEPT !.op = "list", !.stage = "sent"]]

DfInit == \E f \in SUBSET Objects : df = StartList(1,
    [files |-> f, shown |-> {}, selected |-> None, sendAs |-> None,
     call |-> [i \in Calls |-> NoCall], uploading |-> FALSE,
     upError |-> FALSE, status |-> "none", method |-> "none", left |-> DfNoKey,
     listing |-> FALSE, listError |-> FALSE, alerted |-> FALSE,
     older |-> [i \in Calls |-> {}], crossed |-> FALSE])

DfFree(i) ==
    /\ df.call[i].op = "none"
    /\ \A j \in Calls : j < i => df.call[j].op # "none"

\* Dropped on the zone, or chosen in its dialog.
DfChoose(n) == df' = [df EXCEPT !.selected = n, !.sendAs = n]

\* "Overwrite Destination Filename"
DfRename(n) ==
    /\ df.selected # None
    /\ df' = [df EXCEPT !.sendAs = n]

\* "Upload File": one at a time.
DfUpload == \E i \in Calls :
    /\ df.selected # None /\ ~df.uploading /\ DfFree(i)
    /\ df' = [df EXCEPT !.uploading = TRUE, !.upError = FALSE,
                        !.status = "requested", !.method = "none",
                        !.call[i] = [NoCall EXCEPT !.op = "upload",
                                        !.name = df.sendAs, !.stage = "sent",
                                        !.snap = {df.selected}]]

\* The row's "Delete", confirmed.
DfDelete(n) == \E i \in Calls :
    /\ n \in df.shown /\ DfFree(i)
    /\ df' = [df EXCEPT !.call[i] =
                  [NoCall EXCEPT !.op = "delete", !.name = n, !.stage = "sent"]]

\* "Refresh List"
DfRefresh == \E i \in Calls :
    ~df.listing /\ DfFree(i) /\ df' = StartList(i, df)

DfListing(i) == df.call[i].op = "list" /\ df.call[i].stage = "served"

DfServed(i) ==
  LET c == df.call[i] IN
    /\ c.stage = "sent"
    /\ df' = IF c.op = "list"
             THEN [df EXCEPT !.call[i].stage = "served",
                             !.call[i].snap = df.files,
                             !.older[i] = {j \in Calls : DfListing(j)}]
             ELSE [df EXCEPT !.call[i].stage = "served",
                             !.files = IF c.op = "upload" THEN @ \cup {c.name}
                                       ELSE @ \ {c.name}]

\* The key that client.Upload returns is the name it was called with.
ReturnedKey(n) == DfKey(n, FALSE)

\* The broker picks the strategy by the size of what is sent.
Method(n) == IF n \in Small THEN "proxy" ELSE "direct"

DfUploaded(i) ==
  LET c == df.call[i] IN
    /\ c.op = "upload" /\ c.stage = "served"
    /\ df' = StartList(i, [df EXCEPT !.uploading = FALSE, !.status = "uploaded",
                                     !.left = ReturnedKey(c.name),
                                     !.method = Method(CHOOSE n \in c.snap : TRUE)])

DfDeleted(i) ==
    /\ df.call[i].op = "delete" /\ df.call[i].stage = "served"
    /\ df' = StartList(i, df)

DfListed(i) ==
    /\ DfListing(i)
    /\ df' = [df EXCEPT !.call[i] = NoCall, !.shown = df.call[i].snap,
                        !.listing = FALSE, !.crossed = @ \/ df.older[i] # {},
                        !.older = Without(@, i)]

\* Changed program: a listing that fails is not told.
DfListFailedSilent(i) ==
    /\ df.call[i].op = "list"
    /\ df' = [df EXCEPT !.call[i] = NoCall, !.listing = FALSE,
                        !.older = Without(@, i)]

\* The old list stays, under the error.
DfListFailed(i) ==
    /\ df.call[i].op = "list"
    /\ df' = [df EXCEPT !.call[i] = NoCall, !.listError = TRUE,
                        !.listing = FALSE,
                        !.older = Without(@, i)]

\* With its effect or without.
DfUploadFailed(i) ==
    /\ df.call[i].op = "upload"
    /\ df' = [df EXCEPT !.call[i] = NoCall, !.upError = TRUE, !.status = "none",
                        !.uploading = FALSE]

DfDeleteFailed(i) ==
    /\ df.call[i].op = "delete"
    /\ df' = [df EXCEPT !.call[i] = NoCall, !.alerted = TRUE]

DfStep(i) ==
    \/ DfServed(i) \/ DfUploaded(i) \/ DfDeleted(i) \/ DfListed(i)
    \/ DfListFailed(i) \/ DfUploadFailed(i) \/ DfDeleteFailed(i)

DfNext ==
    \/ \E n \in Objects : DfChoose(n) \/ DfRename(n) \/ DfDelete(n)
    \/ DfUpload \/ DfRefresh
    \/ \E i \in Calls : DfStep(i)

\* Every request is answered or fails.
DfFair == \A i \in Calls : WF_df(DfStep(i))
DfSpec == DfInit /\ [][DfNext]_df /\ DfFair

DfTypeOK ==
    LET Call == [op : {"none", "upload", "delete", "list"},
                 name : Objects \cup {None}, stage : {"none", "sent", "served"},
                 snap : SUBSET (Objects \cup {None})] IN
    df \in [files : SUBSET Objects, shown : SUBSET Objects,
            selected : Objects \cup {None}, sendAs : Objects \cup {None},
            call : [Calls -> Call], uploading : BOOLEAN, upError : BOOLEAN,
            status : {"none", "requested", "uploaded"},
            method : {"none", "proxy", "direct"},
            left : [name : Objects \cup {None}, full : BOOLEAN],
            listing : BOOLEAN, listError : BOOLEAN, alerted : BOOLEAN,
            older : [Calls -> SUBSET Calls], crossed : BOOLEAN]

DfQuiet == \A i \in Calls : df.call[i].op = "none"

\* A page that waits for nothing shows the objects of the broker, or an error
\* it has told of, unless an older listing was taken after a newer one.
DfAgreesOrTold ==
    DfQuiet /\ ~df.crossed =>
        df.shown = df.files \/ df.listError \/ df.upError \/ df.alerted

=============================================================================
