--------------------------- MODULE CertStoreProofs ---------------------------
(* Safety of CertStore, for every number of runs, server names and losses  *)
(* of power.                                                               *)
EXTENDS CertStore, FiniteSetTheorems, TLAPS

\* A certificate that reached the path: written, synced and returned.
Settled(r) == /\ file[r].data = "whole" /\ file[r].synced
              /\ at[r] = "returned" /\ reported[r] = r

\* The runs that found no certificate and are making one.
Making == {r \in Runs : at[r] \in {"createTemp", "write", "sync", "rename"}}

(* What the path leads to, now and after a loss of power, is settled; and  *)
(* a run has a file only between CreateTemp and the deferred remove.       *)
Files ==
  /\ path # None => Settled(path)
  /\ durable # None => Settled(durable)
  /\ \A r \in Runs :
       /\ at[r] = "rename" => file[r].data = "whole" /\ file[r].synced
       /\ at[r] \in {"idle", "read", "createTemp"} => file[r].data = "absent"
       /\ at[r] = "sync" => file[r].data = "whole"
       /\ at[r] \in {"idle", "read", "createTemp", "write"} => ~file[r].synced
  /\ TempsRemoved

(* One run at a time, and with the path as it left it: what was reported   *)
(* is at the path, and nobody makes a certificate when one is there.       *)
Pinned ==
  /\ ~overlapped => \A q, r \in Running : q = r
  /\ ~overlapped /\ ~forgotten =>
       /\ \A r \in Runs : reported[r] \in {None, Operator, path}
       /\ Making # {} => path = None

(* The inductive invariant.                                                *)
IInv == TypeOK /\ Files /\ Pinned

-----------------------------------------------------------------------------
(* It holds before the first run.                                          *)
LEMMA InitHolds == Init => IInv
<1> SUFFICES ASSUME Init
             PROVE  IInv
  OBVIOUS
<1>1. TypeOK
  <2>1. file \in [Runs -> File]
    BY DEF Init, File
  <2>2. losses \in 0..MaxPowerLosses
    BY CertAssumption DEF Init
  <2> QED
    BY <2>1, <2>2 DEF Init, TypeOK
<1>2. Files
  BY DEF Init, Files, TempsRemoved
<1>3. Pinned
  BY DEF Init, Pinned, Running, Making
<1> QED
  BY <1>1, <1>2, <1>3 DEF IInv

(* A run begins: another one may be under way, and is then remembered.     *)
LEMMA StartKeeps ==
  ASSUME IInv, NEW r \in Runs, Start(r)
  PROVE  IInv'
<1>1. TypeOK'
  BY DEF IInv, TypeOK, Start, Goes
<1>2. Files'
  BY DEF IInv, TypeOK, Files, Settled, TempsRemoved, Start, Goes
<1>3. Pinned'
  BY DEF IInv, TypeOK, Pinned, Running, Making, Start, Goes
<1> QED
  BY <1>1, <1>2, <1>3 DEF IInv

(* The operator's pair is loaded.                                          *)
LEMMA LoadPairKeeps ==
  ASSUME IInv, NEW r \in Runs, LoadPair(r)
  PROVE  IInv'
<1>1. TypeOK'
  BY DEF IInv, TypeOK, LoadPair, Goes
<1>2. Files'
  BY DEF IInv, TypeOK, Files, Settled, TempsRemoved, LoadPair, Goes
<1>3. Pinned'
  BY DEF IInv, TypeOK, Pinned, Running, Making, LoadPair, Goes
<1> QED
  BY <1>1, <1>2, <1>3 DEF IInv

(* The path is read.                                                       *)
LEMMA ReadKeeps ==
  ASSUME IInv, NEW r \in Runs, Read(r)
  PROVE  IInv'
<1>1. TypeOK'
  BY DEF IInv, TypeOK, Read, AfterRead, Goes
<1>2. Files'
  BY DEF IInv, TypeOK, Files, Settled, TempsRemoved, Read, AfterRead, Goes
<1>3. Pinned'
  BY DEF IInv, TypeOK, Pinned, Running, Making, Read, AfterRead, Goes
<1> QED
  BY <1>1, <1>2, <1>3 DEF IInv

(* The data of the file of one run changes, and where the run is.          *)
LEMMA OneFile ==
  ASSUME IInv, NEW r \in Runs, NEW f \in File, NEW to,
         r \in Making, to \in {"write", "sync", "rename", "returned"},
         at' = [at EXCEPT ![r] = to], file' = [file EXCEPT ![r] = f],
         UNCHANGED <<name, path, durable, reported, losses, overlapped, forgotten>>,
         to = "write" => ~f.synced, to = "sync" => f.data = "whole",
         to = "rename" => f.data = "whole" /\ f.synced, to = "returned" => f.data = "absent"
  PROVE  IInv'
<1>1. TypeOK'
  BY DEF IInv, TypeOK
<1>2. Files'
  <2>1. \A p \in {path, durable} : p # None => Settled(p)'
    BY DEF IInv, TypeOK, Files, Settled, Making
  <2>2. TempsRemoved'
    BY DEF IInv, TypeOK, Files, TempsRemoved, Making
  <2> QED
    BY <2>1, <2>2 DEF IInv, TypeOK, Files, Making
<1>3. Pinned'
  BY DEF IInv, TypeOK, Pinned, Running, Making
<1> QED
  BY <1>1, <1>2, <1>3 DEF IInv

(* Any step of writeFileAtomic fails: the temporary file is removed.       *)
LEMMA FailureKeeps ==
  ASSUME IInv, NEW r \in Runs, r \in Making, Fails(r),
         UNCHANGED <<name, path, durable, reported, losses, overlapped, forgotten>>
  PROVE  IInv'
<1> DEFINE f == [file[r] EXCEPT !.data = "absent"]
<1>1. f \in File /\ f.data = "absent"
  BY DEF IInv, TypeOK, File
<1>2. at' = [at EXCEPT ![r] = "returned"] /\ file' = [file EXCEPT ![r] = f]
  BY DEF Fails, Goes, cleanedUp, IInv, TypeOK
<1> HIDE DEF f
<1> QED
  BY <1>1, <1>2, OneFile

(* The steps of writeFileAtomic before the rename.                         *)
LEMMA CreateTempKeeps ==
  ASSUME IInv, NEW r \in Runs, CreateTemp(r)
  PROVE  IInv'
<1>1. CASE Goes(r, "write") /\ file' = [file EXCEPT ![r].data = "empty"]
  <2> DEFINE f == [file[r] EXCEPT !.data = "empty"]
  <2>1. ~file[r].synced /\ file[r] \in File
    BY DEF CreateTemp, IInv, TypeOK, Files
  <2>2. f \in File /\ ~f.synced
    BY <2>1 DEF File
  <2>3. at' = [at EXCEPT ![r] = "write"] /\ file' = [file EXCEPT ![r] = f]
    BY <1>1 DEF Goes, IInv, TypeOK
  <2> HIDE DEF f
  <2> QED
    BY <2>2, <2>3, OneFile DEF CreateTemp, Making
<1>2. CASE Fails(r)
  BY <1>2, FailureKeeps DEF CreateTemp, Making
<1> QED
  BY <1>1, <1>2 DEF CreateTemp

(* Write, of which a part may be done.                                     *)
LEMMA WriteKeeps ==
  ASSUME IInv, NEW r \in Runs, Write(r)
  PROVE  IInv'
<1>0. ~file[r].synced /\ file[r] \in File /\ at[r] = "write"
  BY DEF Write, IInv, TypeOK, Files
<1>1. CASE file' = [file EXCEPT ![r].data = "partial"] /\ UNCHANGED at
  <2> DEFINE f == [file[r] EXCEPT !.data = "partial"]
  <2>1. f \in File /\ ~f.synced
    BY <1>0 DEF File
  <2>2. at' = [at EXCEPT ![r] = "write"] /\ file' = [file EXCEPT ![r] = f]
    BY <1>0, <1>1 DEF IInv, TypeOK
  <2> HIDE DEF f
  <2> QED
    BY <1>0, <2>1, <2>2, OneFile DEF Write, Making
<1>2. CASE file' = [file EXCEPT ![r].data = "whole"] /\ Goes(r, "sync")
  <2> DEFINE f == [file[r] EXCEPT !.data = "whole"]
  <2>1. f \in File /\ f.data = "whole"
    BY <1>0 DEF File
  <2>2. at' = [at EXCEPT ![r] = "sync"] /\ file' = [file EXCEPT ![r] = f]
    BY <1>2 DEF Goes, IInv, TypeOK
  <2> HIDE DEF f
  <2> QED
    BY <1>0, <2>1, <2>2, OneFile DEF Write, Making
<1>3. CASE Fails(r)
  BY <1>0, <1>3, FailureKeeps DEF Write, Making
<1> QED
  BY <1>1, <1>2, <1>3 DEF Write

(* Sync, after which the data outlives a loss of power.                    *)
LEMMA SyncKeeps ==
  ASSUME IInv, NEW r \in Runs, Sync(r)
  PROVE  IInv'
<1>0. file[r].data = "whole" /\ file[r] \in File /\ at[r] = "sync"
  BY DEF Sync, IInv, TypeOK, Files
<1>1. CASE file' = synced(r) /\ Goes(r, "rename")
  <2> DEFINE f == [file[r] EXCEPT !.synced = TRUE]
  <2>1. f \in File /\ f.data = "whole" /\ f.synced
    BY <1>0 DEF File
  <2>2. at' = [at EXCEPT ![r] = "rename"] /\ file' = [file EXCEPT ![r] = f]
    BY <1>1 DEF Goes, synced, IInv, TypeOK
  <2> HIDE DEF f
  <2> QED
    BY <1>0, <2>1, <2>2, OneFile DEF Sync, Making
<1>2. CASE Fails(r)
  BY <1>0, <1>2, FailureKeeps DEF Sync, Making
<1> QED
  BY <1>1, <1>2 DEF Sync

(* Rename: the file is whole and synced, so the path is settled.           *)
LEMMA RenameKeeps ==
  ASSUME IInv, NEW r \in Runs, Rename(r)
  PROVE  IInv'
<1>1. CASE /\ path' = r /\ reported' = [reported EXCEPT ![r] = r]
           /\ Goes(r, "returned") /\ UNCHANGED file
  <2>1. TypeOK'
    BY <1>1 DEF IInv, TypeOK, Rename, Goes
  <2>2. Files'
    <3>1. Settled(r)'
      BY <1>1 DEF IInv, TypeOK, Files, Settled, Rename, Goes
    <3>2. durable # None => Settled(durable)'
      BY <1>1 DEF IInv, TypeOK, Files, Settled, Rename, Goes
    <3>3. TempsRemoved'
      BY <1>1 DEF IInv, TypeOK, Files, TempsRemoved, Rename, Goes
    <3> QED
      BY <1>1, <3>1, <3>2, <3>3 DEF IInv, TypeOK, Files, Rename, Goes
  <2>3. Pinned'
    <3>1. r \in Running /\ r \in Making
      BY DEF Rename, Running, Making
    <3>2. Running' \subseteq Running \ {r} /\ Making' \subseteq Making \ {r} /\ Making \subseteq Running
      BY <1>1 DEF IInv, TypeOK, Running, Making, Goes
    <3> QED
      BY <1>1, <3>1, <3>2 DEF IInv, TypeOK, Pinned, Rename
  <2> QED
    BY <2>1, <2>2, <2>3 DEF IInv
<1>2. CASE Fails(r) /\ UNCHANGED <<path, reported>>
  BY <1>2, FailureKeeps DEF Rename, Making
<1> QED
  BY <1>1, <1>2 DEF Rename

(* A run is killed and leaves what it has done.                            *)
LEMMA KillKeeps ==
  ASSUME IInv, NEW r \in Runs, Kill(r)
  PROVE  IInv'
<1>1. TypeOK'
  BY DEF IInv, TypeOK, Kill, Goes
<1>2. Files'
  BY DEF IInv, TypeOK, Files, Settled, TempsRemoved, Kill, Goes, Running
<1>3. Pinned'
  BY DEF IInv, TypeOK, Pinned, Running, Making, Kill, Goes
<1> QED
  BY <1>1, <1>2, <1>3 DEF IInv

(* The directory is written back.                                          *)
LEMMA FlushKeeps ==
  ASSUME IInv, Flush
  PROVE  IInv'
BY DEF IInv, TypeOK, Files, Settled, TempsRemoved, Pinned, Running, Making, Flush

(* Power is lost.  What is settled was synced and is not torn, and the     *)
(* path leads to where it led, or to where the directory on disk did.      *)
LEMMA PowerLossKeeps ==
  ASSUME IInv, PowerLoss
  PROVE  IInv'
<1> PICK torn \in SUBSET {r \in Runs : file[r].data = "whole" /\ ~file[r].synced} :
      file' = [r \in Runs |-> IF r \in torn THEN [file[r] EXCEPT !.data = "partial"] ELSE file[r]]
  BY DEF PowerLoss
<1>1. TypeOK'
  <2>1. file' \in [Runs -> File]
    BY ZenonT(40) DEF IInv, TypeOK, File
  <2>2. losses' \in 0..MaxPowerLosses
    BY CertAssumption DEF IInv, TypeOK, PowerLoss
  <2> QED
    BY <2>1, <2>2 DEF IInv, TypeOK, PowerLoss
<1>2. \A r \in Runs : /\ file[r].synced => file'[r] = file[r]
                      /\ at[r] = "returned" => at'[r] = "returned"
                      /\ at'[r] \in {"idle", "returned"} => at'[r] = at[r]
                      /\ at'[r] \in {"idle", "returned", "killed"}
  BY DEF PowerLoss, Running
<1>3. Files'
  <2>1. \A p \in {path, durable} : p # None => Settled(p)'
    BY <1>2 DEF IInv, TypeOK, Files, Settled, PowerLoss
  <2>2. \A r \in Runs : file[r].data = "absent" => file'[r] = file[r]
    OBVIOUS
  <2>3. \A r \in Runs : ~file[r].synced => ~file'[r].synced
    BY DEF IInv, TypeOK, File
  <2>4. TempsRemoved'
    BY <1>2, <2>2 DEF IInv, Files, TempsRemoved, PowerLoss
  <2> QED
    BY <1>2, <2>1, <2>2, <2>3, <2>4 DEF IInv, Files, PowerLoss
<1>4. Pinned'
  <2>1. Running' = {} /\ Making' = {}
    BY <1>2 DEF Running, Making
  <2>2. ~forgotten' => path' = path /\ ~forgotten
    BY DEF PowerLoss, IInv, TypeOK
  <2> QED
    BY <2>1, <2>2 DEF IInv, Pinned, PowerLoss
<1> QED
  BY <1>1, <1>3, <1>4 DEF IInv

(* Every step keeps the invariant.                                         *)
LEMMA NextKeeps == IInv /\ [Next]_vars => IInv'
<1> SUFFICES ASSUME IInv, [Next]_vars
             PROVE  IInv'
  OBVIOUS
<1>1. ASSUME NEW r \in Runs, Call(r) \/ Kill(r)
      PROVE  IInv'
  BY <1>1, StartKeeps, LoadPairKeeps, ReadKeeps, CreateTempKeeps, WriteKeeps, SyncKeeps,
     RenameKeeps, KillKeeps DEF Call
<1>2. CASE UNCHANGED vars
  BY <1>2 DEF vars, IInv, TypeOK, Files, Settled, TempsRemoved, Pinned, Running, Making
<1> QED
  BY <1>1, <1>2, FlushKeeps, PowerLossKeeps DEF Next

-----------------------------------------------------------------------------
(* The inductive invariant holds in every behaviour of the runs of         *)
(* loadOrCreateCertificate (cert.go).                                      *)
THEOREM Invariance == Spec => []IInv
BY InitHolds, NextKeeps, PTL DEF Spec

(* For any number of overlapping runs, kills and losses of power: the      *)
(* configured path has no file or a whole one (cert.go, writeFileAtomic).  *)
THEOREM PathNeverTorn == Spec => []NeverTorn
<1>1. IInv => NeverTorn
  BY DEF IInv, Files, Settled, NeverTorn
<1> QED
  BY <1>1, Invariance, PTL

(* A run of writeFileAtomic that returns leaves no temporary file.         *)
THEOREM TempsAlwaysRemoved == Spec => []TempsRemoved
<1>1. IInv => TempsRemoved
  BY DEF IInv, Files
<1> QED
  BY <1>1, Invariance, PTL

(* For any number of runs, kills, server names and losses of power that    *)
(* undo no rename: runs of loadOrCreateCertificate that do not overlap     *)
(* report one fingerprint.                                                 *)
THEOREM PinAlwaysStable == Spec => []PinStable
<1>1. IInv => PinStable
  <2> SUFFICES ASSUME IInv, ~overlapped, ~forgotten
               PROVE  Cardinality({reported[r] : r \in Runs} \ {None, Operator}) <= 1
    BY DEF PinStable
  <2> DEFINE pins == {reported[r] : r \in Runs} \ {None, Operator}
  <2>1. pins = {} \/ pins = {path}
    BY DEF IInv, Pinned
  <2>2. Cardinality({}) = 0 /\ Cardinality({path}) = 1
    BY FS_EmptySet, FS_Singleton
  <2> QED
    BY <2>1, <2>2
<1> QED
  BY <1>1, Invariance, PTL
=============================================================================
