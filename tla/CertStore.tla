------------------------------ MODULE CertStore -------------------------------
(***************************************************************************)
(* The persisted certificate of the QUIC server: loadOrCreateCertificate   *)
(* and writeFileAtomic of internal/quicx/cert.go, run by the installer     *)
(* (EnsureCertificate) and by every start of the server.                   *)
(*                                                                         *)
(* A run may be killed between any two system calls, and the machine may   *)
(* lose power.  The file system is external: data that was not synced may  *)
(* be lost then, and so may a rename, since the directory is not synced.   *)
(***************************************************************************)
EXTENDS Naturals, FiniteSets

CONSTANTS
  Runs,            \* calls of loadOrCreateCertificate, each by its own process
  Names,           \* server names they may be given
  MaxPowerLosses   \* bound: losses of power

ASSUME CertAssumption ==
  IsFiniteSet(Runs) /\ MaxPowerLosses \in Nat

VARIABLES
  at,        \* where each run is
  name,      \* the server name of each run
  file,      \* the file each run creates, and what it holds
  path,      \* the run whose file is at the configured path, or None
  durable,   \* what the directory on disk has at that path
  reported,  \* per run: the certificate whose fingerprint it returned
  losses,    \* losses of power so far
  overlapped,\* history: whether two runs were ever under way at once
  forgotten  \* history: whether a loss of power undid a rename

vars == <<at, name, file, path, durable, reported, losses, overlapped, forgotten>>

None == "none"
Operator == "operator"   \* the certificate of CertificateFile and PrivateKeyFile

\* A certificate is known by the run that made it.
File == [data : {"absent", "empty", "partial", "whole"}, synced : {FALSE}]
          \cup [data : {"absent", "whole"}, synced : {TRUE}]

TypeOK ==
  /\ at \in [Runs -> {"idle", "read", "createTemp", "write", "sync", "rename",
                      "returned", "killed"}]
  /\ name \in [Runs -> Names]
  /\ file \in [Runs -> File]
  /\ path \in Runs \cup {None}
  /\ durable \in Runs \cup {None}
  /\ reported \in [Runs -> Runs \cup {None, Operator}]
  /\ losses \in 0..MaxPowerLosses
  /\ overlapped \in BOOLEAN /\ forgotten \in BOOLEAN

Init ==
  /\ at = [r \in Runs |-> "idle"]
  /\ name \in [Runs -> Names]
  /\ file = [r \in Runs |-> [data |-> "absent", synced |-> FALSE]]
  /\ path = None /\ durable = None
  /\ reported = [r \in Runs |-> None]
  /\ losses = 0 /\ overlapped = FALSE /\ forgotten = FALSE

Running == {r \in Runs : at[r] \notin {"idle", "returned", "killed"}}

-----------------------------------------------------------------------------
Goes(r, to) == at' = [at EXCEPT ![r] = to]

Start(r) ==
  /\ at[r] = "idle"
  /\ overlapped' = (overlapped \/ Running # {})
  /\ Goes(r, "read")
  /\ UNCHANGED <<name, file, path, durable, reported, losses, forgotten>>

(* loadServerCertificate of a server that is given a certificate and a key *)
(* by its operator: the pair is loaded and checked, and the path is not    *)
(* looked at.                                                              *)
LoadPair(r) ==
  /\ at[r] = "idle"
  /\ Goes(r, "returned")
  /\ \E c \in {Operator, None} : reported' = [reported EXCEPT ![r] = c]
  /\ UNCHANGED <<name, file, path, durable, losses, overlapped, forgotten>>

\* X509KeyPair and verifyCertificateName of what ReadFile returned.
usable(r) == file[path].data = "whole" /\ name[path] = name[r]

\* Mutant of AfterRead: a file that cannot be used is replaced.
AfterReadReplaces(r) ==
  IF path # None /\ usable(r)
  THEN Goes(r, "returned") /\ reported' = [reported EXCEPT ![r] = path]
  ELSE Goes(r, "createTemp") /\ UNCHANGED reported
\* A certificate that is there is returned or the run fails; only a path that
\* does not exist leads to a new one.
AfterRead(r) ==
  IF path = None
  THEN Goes(r, "createTemp") /\ UNCHANGED reported
  ELSE /\ Goes(r, "returned")
       /\ reported' = [reported EXCEPT ![r] = IF usable(r) THEN path ELSE None]

Read(r) ==
  /\ at[r] = "read"
  /\ \/ AfterRead(r)
     \/ Goes(r, "returned") /\ UNCHANGED reported     \* ReadFile or Chmod fails
  /\ UNCHANGED <<name, file, path, durable, losses, overlapped, forgotten>>

-----------------------------------------------------------------------------
\* Mutant of cleanedUp: the deferred remove is missing.
leftBehind(r) == file
\* The deferred remove of writeFileAtomic, unless the file was renamed.
cleanedUp(r) == [file EXCEPT ![r].data = "absent"]

Fails(r) == Goes(r, "returned") /\ file' = cleanedUp(r)

(* CreateTemp and Chmod.                                                   *)
CreateTemp(r) ==
  /\ at[r] = "createTemp"
  /\ \/ Goes(r, "write") /\ file' = [file EXCEPT ![r].data = "empty"]
     \/ Fails(r)
  /\ UNCHANGED <<name, path, durable, reported, losses, overlapped, forgotten>>

(* Write, of which a part may be there when the run is killed.             *)
Write(r) ==
  /\ at[r] = "write"
  /\ \/ file[r].data = "empty" /\ file' = [file EXCEPT ![r].data = "partial"] /\ UNCHANGED at
     \/ file' = [file EXCEPT ![r].data = "whole"] /\ Goes(r, "sync")
     \/ Fails(r)
  /\ UNCHANGED <<name, path, durable, reported, losses, overlapped, forgotten>>

\* Mutant of synced: the data stays in the cache.
notSynced(r) == file
synced(r) == [file EXCEPT ![r].synced = TRUE]

(* Sync and Close.                                                         *)
Sync(r) ==
  /\ at[r] = "sync"
  /\ \/ file' = synced(r) /\ Goes(r, "rename")
     \/ Fails(r)
  /\ UNCHANGED <<name, path, durable, reported, losses, overlapped, forgotten>>

(* Rename, and the return of the new certificate.                          *)
Rename(r) ==
  /\ at[r] = "rename"
  /\ \/ /\ path' = r
        /\ reported' = [reported EXCEPT ![r] = r]
        /\ Goes(r, "returned") /\ UNCHANGED file
     \/ Fails(r) /\ UNCHANGED <<path, reported>>
  /\ UNCHANGED <<name, durable, losses, overlapped, forgotten>>

-----------------------------------------------------------------------------
Kill(r) ==
  /\ r \in Running
  /\ Goes(r, "killed")
  /\ UNCHANGED <<name, file, path, durable, reported, losses, overlapped, forgotten>>

(* The system writes the directory back.                                   *)
Flush ==
  /\ durable # path
  /\ durable' = path
  /\ UNCHANGED <<at, name, file, path, reported, losses, overlapped, forgotten>>

(* Power is lost: what was not synced is torn or not, the directory is the *)
(* one on disk or the newer one, and no run survives.                      *)
PowerLoss ==
  /\ losses < MaxPowerLosses
  /\ losses' = losses + 1
  /\ at' = [r \in Runs |-> IF r \in Running THEN "killed" ELSE at[r]]
  /\ \E torn \in SUBSET {r \in Runs : file[r].data = "whole" /\ ~file[r].synced} :
       file' = [r \in Runs |-> IF r \in torn THEN [file[r] EXCEPT !.data = "partial"] ELSE file[r]]
  /\ path' \in {path, durable}
  /\ durable' = path'
  /\ forgotten' = (forgotten \/ path' # path)
  /\ UNCHANGED <<name, reported, overlapped>>

Call(r) == Start(r) \/ LoadPair(r) \/ Read(r) \/ CreateTemp(r) \/ Write(r) \/ Sync(r) \/ Rename(r)

Next == (\E r \in Runs : Call(r) \/ Kill(r)) \/ Flush \/ PowerLoss

Spec == Init /\ [][Next]_vars

-----------------------------------------------------------------------------
(* Whoever reads the configured path finds no file or a whole one, however *)
(* runs overlap, wherever they are killed and whenever power is lost: the  *)
(* data is synced before the rename.  A torn file would keep every later   *)
(* start of the server from succeeding.                                    *)
NeverTorn == path # None => file[path].data = "whole"

(* Only a run that was killed leaves a temporary file; a file counts as    *)
(* temporary when it was never renamed to the path.                        *)
TempsRemoved ==
  \A r \in Runs : at[r] = "returned" /\ file[r].data # "absent" => reported[r] = r

(* As long as runs have not overlapped and no loss of power undid a        *)
(* rename, one fingerprint of a made certificate is reported for ever,     *)
(* also when runs are killed, power fails, another server name is given,   *)
(* or a start with the operator's pair comes between: what clients pinned  *)
(* is what the server presents.  A rename can be undone because            *)
(* writeFileAtomic does not sync the directory.                            *)
PinStable ==
  ~overlapped /\ ~forgotten =>
    Cardinality({reported[r] : r \in Runs} \ {None, Operator}) <= 1
=============================================================================
