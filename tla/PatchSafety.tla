---------------------------- MODULE PatchSafety ----------------------------
(***************************************************************************)
(* The tools on top of one language server: lsp_query, which calls it, and *)
(* verify_patch (internal/mutation/safety.go), which opens a file with the *)
(* patched text and waits for the first diagnostics of the file.  The text *)
(* a check opens is named after the check, the text on the disk after its  *)
(* file.                                                                   *)
(***************************************************************************)
EXTENDS LanguageServer

CONSTANTS
    Checks,  \* the clients that verify a patch; the others send one request
    Files

ASSUME PatchSafetyAssumption == Checks \subseteq Clients /\ Clients \cap Files = {}

VARIABLES
    file,     \* per check: the file of its patch
    opened,   \* per server: the checks whose text it was sent
    fired,    \* the checks whose once.Do has run
    diagChan, \* per check: the text whose diagnostics lie in its channel
    verdict   \* per check: the text whose diagnostics it returned

patchVars == <<file, opened, fired, diagChan, verdict>>
vars == <<lspVars, patchVars>>

NoText == "none"

Init ==
    /\ LspInit
    /\ op = [c \in Clients |-> IF c \in Checks THEN "open" ELSE "call"]
    /\ pc = [c \in Clients |-> IF c \in Checks THEN "verify" ELSE "ensure"]
    /\ file \in [Checks -> Files]
    /\ opened = [k \in Servers |-> {}]
    /\ fired = {}
    /\ diagChan = [v \in Checks |-> NoText]
    /\ verdict = [v \in Checks |-> NoText]

\* The patch is applied to the text in memory and the handler registered; it
\* stays registered for good.
VerifyPatchIntegrity(v) ==
    /\ at(v, "verify")
    /\ handlers' = handlers \cup {v}
    /\ goto(v, "ensure")
    /\ UNCHANGED <<manager, servers, reader, stream, op, id, chan, crashed, patchVars>>

\* EnsureStarted returned; Notify begins with one of its own.
openNext(v) ==
    /\ at(v, "open")
    /\ op' = [op EXCEPT ![v] = "notify"]
    /\ goto(v, "ensure")
    /\ UNCHANGED <<manager, servers, readers, id, chan, crashed, patchVars>>

\* From now on the server's document is the patched text.
didOpen(v) ==
    /\ Notify(v)
    /\ opened' = IF cmd \in alive THEN [opened EXCEPT ![cmd] = @ \cup {v}] ELSE opened
    /\ UNCHANGED <<file, fired, diagChan, verdict>>

fileOf(text) == IF text \in Files THEN text ELSE file[text]

\* The handler looks at the file's URI, and once.Do at what came before.
handles(v, text) == fileOf(text) = file[v] /\ v \notin fired

\* A server reports on the files of its workspace and on the texts it was given,
\* as often as it likes, and the handler of check v sends what it takes.
publishDiagnostics(k, v) ==
    /\ notifies(k, v)
    /\ \E text \in Files \cup opened[stream[k]] :
          /\ handles(v, text)
          /\ fired' = fired \cup {v}
          /\ diagChan' = [diagChan EXCEPT ![v] = text]
    /\ UNCHANGED <<lspVars, file, opened, verdict>>

\* didOpen is sent, or its error ignored; now the select.
diagnose(v) ==
    /\ at(v, "notified")
    /\ diagChan[v] # NoText
    /\ verdict' = [verdict EXCEPT ![v] = diagChan[v]]
    /\ diagChan' = [diagChan EXCEPT ![v] = NoText]
    /\ goto(v, "verified")
    /\ UNCHANGED <<manager, servers, readers, op, id, chan, crashed, file, opened, fired>>

\* Five seconds, or the end of the request.
timeout(v) ==
    /\ at(v, "notified")
    /\ goto(v, "failed")
    /\ UNCHANGED <<manager, servers, readers, op, id, chan, crashed, patchVars>>

CheckStep(v) ==
    \/ VerifyPatchIntegrity(v) \/ openNext(v) \/ didOpen(v) \/ diagnose(v) \/ timeout(v)

Next ==
    \/ LspNext /\ UNCHANGED patchVars
    \/ \E v \in Checks : CheckStep(v)
    \/ \E k \in Servers, v \in Checks : publishDiagnostics(k, v)

Spec == Init /\ [][Next]_vars

-----------------------------------------------------------------------------

\* The diagnostics that are returned say whether the patch introduces errors: they
\* are about the patched text.  It does not hold: the handler compares only the
\* URI, and takes the first diagnostics of the file there are.
VerdictOfPatch == \A v \in Checks : verdict[v] # NoText => verdict[v] = v
=============================================================================
