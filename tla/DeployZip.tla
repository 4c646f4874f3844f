------------------------------ MODULE DeployZip ------------------------------
(***************************************************************************)
(* DeployZip (buckstream/pkg/storage/deploy.go): one goroutine per file of *)
(* a site's archive uploads it, at most Workers at a time, and the first   *)
(* failure cancels the context the others upload with.  An archive that    *)
(* does not parse ends the call before anything starts; it is left out.    *)
(***************************************************************************)
EXTENDS Naturals, FiniteSets

CONSTANTS Files,       \* the files of the archive, directories left out
          Workers,     \* the capacity of sem
          CallerLeaves \* whether the caller's context can be cancelled

ASSUME DeployAssumption == /\ IsFiniteSet(Files)
                           /\ Workers \in Nat \ {0}
                           /\ CallerLeaves \in BOOLEAN

VARIABLES pc,        \* pc[f]: where the goroutine of f is
          sem,       \* how many tokens the channel sem holds
          cancelled, \* cancelCtx is done
          gone,      \* its parent, the caller's context, is done
          errors,    \* the files whose error is in errChan
          stored,    \* the files the bucket has
          result     \* what DeployZip has returned

zipVars == <<pc, sem, cancelled, gone, errors, stored, result>>

\* At the select; with a token of sem, uploading; with a token and an error;
\* through.
Stage == {"waiting", "uploading", "failed", "done"}

ZipInit == /\ pc = [f \in Files |-> "waiting"]
           /\ sem = 0
           /\ cancelled = FALSE
           /\ gone = FALSE
           /\ errors = {}
           /\ stored = {}
           /\ result = "none"

Move(f, from, to) == pc[f] = from /\ pc' = [pc EXCEPT ![f] = to]

-----------------------------------------------------------------------------
\* The select takes the token; it may do so when the context is done as well.
TakeToken(f) == /\ sem < Workers
                /\ Move(f, "waiting", "uploading")
                /\ sem' = sem + 1
                /\ UNCHANGED <<cancelled, gone, errors, stored, result>>

\* The select finds the context done: the goroutine returns and reports nothing.
GiveUp(f) == /\ cancelled
             /\ Move(f, "waiting", "done")
             /\ UNCHANGED <<sem, cancelled, gone, errors, stored, result>>

\* Mutated: the token is given back after an error only.
MutStoredKeepsToken(f) == /\ Move(f, "uploading", "done")
                          /\ stored' = stored \cup {f}
                          /\ UNCHANGED <<sem, cancelled, gone, errors, result>>

\* UploadStream succeeds, which a provider can do under a context that is done;
\* the deferred call gives the token back.
Stored(f) == /\ Move(f, "uploading", "done")
             /\ sem' = sem - 1
             /\ stored' = stored \cup {f}
             /\ UNCHANGED <<cancelled, gone, errors, result>>

\* The file cannot be opened or UploadStream fails, whether the bucket has the
\* file or not: the goroutine cancels the others.
Fail(f) == /\ Move(f, "uploading", "failed")
           /\ cancelled' = TRUE
           /\ stored' \in {stored, stored \cup {f}}
           /\ UNCHANGED <<sem, gone, errors, result>>

\* Mutated: the context is cancelled and the error forgotten.
MutReportNothing(f) == /\ Move(f, "failed", "done")
                       /\ sem' = sem - 1
                       /\ UNCHANGED <<cancelled, gone, errors, stored, result>>

\* Mutated: the token is given back after a success only.
MutReportKeepsToken(f) == /\ Move(f, "failed", "done")
                          /\ errors' = errors \cup {f}
                          /\ UNCHANGED <<sem, cancelled, gone, stored, result>>

\* errChan has room for every file, so the send does not block; the deferred
\* call gives the token back.
Report(f) == /\ Move(f, "failed", "done")
             /\ sem' = sem - 1
             /\ errors' = errors \cup {f}
             /\ UNCHANGED <<cancelled, gone, stored, result>>

\* The caller's context ends, and cancelCtx with it.
CallerGone == /\ CallerLeaves
              /\ gone' = TRUE
              /\ cancelled' = TRUE
              /\ UNCHANGED <<pc, sem, errors, stored, result>>

\* Mutated: the first error ends the wait.
MutReturnOnError == /\ result = "none"
                    /\ errors # {} \/ \A f \in Files : pc[f] = "done"
                    /\ result' = IF errors = {} THEN "ok" ELSE "error"
                    /\ UNCHANGED <<pc, sem, cancelled, gone, errors, stored>>

\* wg.Wait is over: an error of the channel, if there is one, is the result.
ZipReturn == /\ result = "none"
             /\ \A f \in Files : pc[f] = "done"
             /\ result' = IF errors = {} THEN "ok" ELSE "error"
             /\ UNCHANGED <<pc, sem, cancelled, gone, errors, stored>>

Goroutine(f) == TakeToken(f) \/ GiveUp(f) \/ Stored(f) \/ Fail(f) \/ Report(f)

ZipNext == (\E f \in Files : Goroutine(f)) \/ CallerGone \/ ZipReturn

ZipSpec == ZipInit /\ [][ZipNext]_zipVars

\* A goroutine that can run runs and every upload ends: a provider's call
\* returns or is cut off by its own timeouts.
ZipFairSpec == ZipSpec /\ WF_zipVars(ZipReturn) /\ \A f \in Files : WF_zipVars(Goroutine(f))

-----------------------------------------------------------------------------
ZipTypeOK == /\ pc \in [Files -> Stage]
             /\ sem \in 0 .. Workers
             /\ cancelled \in BOOLEAN
             /\ gone \in BOOLEAN
             /\ errors \in SUBSET Files
             /\ stored \in SUBSET Files
             /\ result \in {"none", "ok", "error"}

\* The tokens of sem are those of the goroutines that upload or fail: none is
\* lost or given back twice on any path, so at most Workers run in parallel.
TokensMatch == sem = Cardinality({f \in Files : pc[f] \in {"uploading", "failed"}})

\* While the caller stays, nil means that the bucket has every file: a goroutine
\* that gives up does so because another has failed, and that one's error gets
\* through to the result.
SuccessIsComplete == result = "ok" /\ ~gone => stored = Files

\* Nobody writes to the site after DeployZip has returned, so the caller can
\* start over without meeting the files of the attempt before.
NothingAfterReturn == [][result # "none" => stored' = stored]_zipVars

\* DeployZip returns: the semaphore and the channel block nobody for ever.
Returns == <>(result # "none")

\* "Wait for all uploads to complete" (deploy.go:80), and then "Check if any
\* errors occurred" (deploy.go:84): with or without the caller, nil means that
\* the bucket has every file.
SuccessMeansUploaded == result = "ok" => stored = Files
=============================================================================
