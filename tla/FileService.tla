---------------------------- MODULE FileService ----------------------------
(***************************************************************************)
(* What a file system driver promises through the trait FileSystem of      *)
(* zamak-core/src/fs.rs: find_file answers once, with the entry the path   *)
(* names on the volume, and read_file then answers once, with the bytes of *)
(* that file; on a device that fails either may answer IoError instead.    *)
(* A volume the driver does not claim to understand binds it to nothing.   *)
(***************************************************************************)
CONSTANTS None, IoError

VARIABLES
  promise,  \* what the volume holds: [binding, faulty, found, entry, data]
  entry,    \* the answer of find_file, None before
  data      \* the answer of read_file, None before

Right(answer, right) ==
  promise.binding => answer = right \/ (promise.faulty /\ answer = IoError)

Find ==
  /\ entry = None /\ entry' # None
  /\ Right(entry', promise.entry)
  /\ UNCHANGED <<promise, data>>

Read ==
  /\ entry # None /\ data = None /\ data' # None
  /\ promise.binding => promise.found /\ entry = promise.entry
  /\ Right(data', promise.data)
  /\ UNCHANGED <<promise, entry>>

ServiceInit == entry = None /\ data = None

ServiceSafety == ServiceInit /\ [][Find \/ Read]_<<promise, entry, data>>

(* Both calls return: find_file always, read_file when a file was found. *)
Returned == entry # None /\ (promise.found /\ entry = promise.entry => data # None)
ServiceReturns == promise.binding ~> Returned

Service == ServiceSafety /\ ServiceReturns
=============================================================================
