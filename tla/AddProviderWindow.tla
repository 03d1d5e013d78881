-------------------------- MODULE AddProviderWindow -------------------------
(***************************************************************************)
(* AddProviderWindow.xaml.cs and ProviderInstaller.cs: the dialog inspects *)
(* a package, offers to close a running provider, and extracts the package *)
(* over the installed one, file by file.  The dialog is modal: the handlers *)
(* of the main window do not run, the awaits of its scans do continue.     *)
(***************************************************************************)
EXTENDS ProviderDiscovery

CONSTANT Zips       \* packages: [valid, main, files, version]

\* InspectPackage asks for a manifest and for nothing else: a package need not
\* bring all executables of the directory it is extracted to.
ASSUME PackagesAssumption ==
    \A zip \in Zips : zip \in [valid : BOOLEAN, main : Exes \cup {NoExe},
                               files : SUBSET Exes, version : Versions]

VARIABLE
    dialog          \* _inspectionResult: the package (NoZip: none), the running
                    \* process it found, and the files still to extract

NoZip == [valid |-> FALSE, main |-> NoExe, files |-> {}, version |-> 0]

NoDialog == [zip |-> NoZip, pid |-> NoPid, todo |-> {}]

DialogTypeOK ==
    dialog \in [zip : Zips \cup {NoZip}, pid : Pids \cup {NoPid}, todo : SUBSET Exes]

\* ProviderInstaller.InspectPackage, after which every process is known: it
\* is the first one found with the name of the executable that counts.
Inspected(zip, ps) ==
    LET found == {pid \in Pids : ps[pid].life # "none" /\ ps[pid].exe = zip.main} IN
    \E pid \in IF zip.valid /\ found # {} THEN found ELSE {NoPid} :
       /\ dialog' = [zip |-> zip, pid |-> pid, todo |-> {}]
       /\ procs' = [p \in Pids |-> [ps[p] EXCEPT !.fresh = FALSE]]

AddsProvider ==
    /\ ui = "free" /\ Spend("dialog")
    /\ ui' = "dialog" /\ dialog' = NoDialog
    /\ UNCHANGED <<disk, procs, host, scans, list, registry, past>>

Browses ==
    /\ ui = "dialog"
    /\ \E zip \in Zips : Inspected(zip, procs)
    /\ UNCHANGED <<disk, host, scans, list, ui, registry, left, past>>

\* BtnTerminateProcess: Kill and WaitForExit(3000), on the UI thread.
Terminates ==
    /\ ui = "dialog" /\ dialog.zip.valid /\ dialog.pid # NoPid /\ Spend("click")
    /\ ui' = "killing"
    /\ procs' = Killed(procs, dialog.pid)
    /\ UNCHANGED <<disk, host, scans, list, registry, past, dialog>>

\* Kill throws, which TerminateProcess answers with FALSE.
TerminateFails ==
    /\ ui = "dialog" /\ dialog.zip.valid /\ dialog.pid # NoPid /\ Throws("killFailed")
    /\ UNCHANGED <<disk, procs, host, scans, list, registry, ui, dialog>>

\* It has ended, or had ended before, and the package is inspected again; or
\* it takes longer than three seconds and the user may try again.
Terminated ==
    /\ ui = "killing" /\ ui' = "dialog"
    /\ IF Exists(dialog.pid) THEN UNCHANGED <<procs, dialog>> ELSE Inspected(dialog.zip, procs)
    /\ UNCHANGED <<disk, host, scans, list, registry, left, past>>

\* All executables of the directories it is extracted to.
Complete(zip) ==
    \A e \in zip.files, f \in Exes : ProviderOf[e] = ProviderOf[f] => f \in zip.files

\* BtnInstall is enabled by an inspection that found no running process.
Installs ==
    /\ ui = "dialog" /\ dialog.zip.valid /\ dialog.pid = NoPid /\ Spend("click")
    /\ ui' = "extracting"
    /\ dialog' = [dialog EXCEPT !.todo = dialog.zip.files]
    /\ Note(IF Complete(dialog.zip) THEN {} ELSE {"incomplete"})
    /\ UNCHANGED <<disk, procs, host, scans, list, registry>>

NextFile == CHOOSE f \in dialog.todo : \A g \in dialog.todo : f =< g

\* Mutant: a file that is in use is passed over.
ExtractsPastLocks ==
    /\ ui = "extracting" /\ dialog.todo # {}
    /\ disk' = [disk EXCEPT ![NextFile] = IF Locked(NextFile) THEN @ ELSE dialog.zip.version]
    /\ dialog' = [dialog EXCEPT !.todo = @ \ {NextFile}]
    /\ UNCHANGED <<procs, host, scans, list, ui, registry, left, past>>

\* ExtractToFile(overwrite) of the next entry of the archive.
Extracts ==
    /\ ui = "extracting" /\ dialog.todo # {} /\ ~Locked(NextFile)
    /\ disk' = [disk EXCEPT ![NextFile] = dialog.zip.version]
    /\ dialog' = [dialog EXCEPT !.todo = @ \ {NextFile}]
    /\ UNCHANGED <<procs, host, scans, list, ui, registry, left, past>>

KnownLocks == {pid \in Running(dialog.zip.main) : ~procs[pid].fresh}

\* What is extracted already stays; the dialog stays open and says so.
ExtractFails ==
    /\ ui = "extracting" /\ dialog.todo # {}
    /\ \/ /\ Locked(NextFile) /\ left' = left
          /\ Note({"extractFailed"} \cup IF NextFile = dialog.zip.main /\ KnownLocks # {}
                                         THEN {"lockKnown"} ELSE {})
       \/ ~Locked(NextFile) /\ Throws("extractFailed")
    /\ ui' = "dialog"
    /\ dialog' = [dialog EXCEPT !.todo = {}]
    /\ UNCHANGED <<disk, procs, host, scans, list, registry>>

\* DialogResult is true: the main window scans again.
Extracted ==
    /\ ui = "extracting" /\ dialog.todo = {} /\ ui' = "free"
    /\ dialog' = NoDialog
    /\ \E s \in Scans : ScanBegins(s)
    /\ UNCHANGED <<disk, procs, host, registry, left>>

Cancels ==
    /\ ui = "dialog" /\ ui' = "free"
    /\ dialog' = NoDialog
    /\ UNCHANGED <<disk, procs, host, scans, list, registry, left, past>>

InstallerSteps == Terminated \/ Extracts \/ ExtractFails \/ Extracted

DialogClicks ==
    AddsProvider \/ Browses \/ Terminates \/ TerminateFails \/ Installs \/ Cancels
=============================================================================
