---------------------------- MODULE ContractStore ----------------------------
(***************************************************************************)
(* The local contract registry (src/unnamed/part_000, package              *)
(* contractregistry, contractStore): the in-memory contractIndex (address  *)
(* -> ContractInfo) and contractRegistrations (registered name ->          *)
(* ContractInfo) under idxLock, the contract_<addr>.instance.json files    *)
(* that back them, and buildIndex, which rebuilds both maps from the       *)
(* storage directory at start and migrates legacy                          *)
(* contract_<addr>.swagger.json files into instance files.                 *)
(*                                                                         *)
(* A ContractInfo is reduced to its address and RegisteredAs (NoName is    *)
(* the empty string: no registration); the ABI id, paths and timestamps    *)
(* are data no property tells apart.  Addresses are numbers so that the    *)
(* directory listing can be sorted the way ReadDir sorts file names.       *)
(* Callers of AddContract (the deploy path of the REST gateway) run        *)
(* concurrently; each call is two steps, the index update under idxLock    *)
(* and the file write after it.  The process can restart at any step.      *)
(***************************************************************************)
EXTENDS Naturals, Sequences, FiniteSets, SequencesExt

CONSTANTS
    Addrs,         \* contract addresses (numbers: ReadDir order)
    AbiIds,        \* ids of deployable ABIs (numbers: ReadDir order)
    Names,         \* names a contract can be registered as
    NoName,        \* RegisteredAs == ""
    Callers,       \* goroutines calling AddContract
    LegacyFiles,   \* legacy swagger files on disk at first start
    WriteErrors,   \* whether ioutil.WriteFile / os.Remove may fail
    ReadErrors,    \* whether ReadDir / os.OpenFile / Decode may fail
    Reregister,    \* whether AddContract is called for an address again
    MaxCrashes,
    None

Regs == Names \cup {NoName}

ASSUME /\ Addrs \subseteq Nat /\ AbiIds \subseteq Nat /\ NoName \notin Names
       /\ LegacyFiles \in [Addrs -> Regs \cup {None}]
       /\ WriteErrors \in BOOLEAN /\ Reregister \in BOOLEAN
       /\ ReadErrors \in BOOLEAN

VARIABLES
    phase,    \* "starting" while buildIndex runs, then "running"
    todo,     \* the files ReadDir listed that buildIndex has yet to visit
    index,    \* contractIndex: address -> RegisteredAs of its ContractInfo
    regs,     \* contractRegistrations: name -> address (never set for NoName)
    files,    \* instance files: address -> RegisteredAs stored in it
    legacy,   \* legacy swagger files: address -> registered-name extension
    pc,       \* a caller: idle, or indexed (index updated, file not written)
    arg,      \* the [addr, name] a caller passed to AddContract
    used,     \* addresses passed to AddContract so far
    bound,    \* history: <<name, addr>> of every successful registration
    crashes,
    abiIndex, \* abiIndex: the ABI ids indexed in memory
    abiFiles, \* the abi_<id>.deploy.json files
    cache     \* abiCache: the LocalABI locations GetABI has cached

memVars  == <<index, regs>>
diskVars == <<files, legacy>>
abiVars  == <<abiIndex, abiFiles, cache>>
vars     == <<phase, todo, memVars, diskVars, pc, arg, used, bound, crashes,
             abiVars>>

-----------------------------------------------------------------------------
(* buildIndex                                                              *)

\* ReadDir lists the directory sorted by file name: abi_<id>.deploy.json
\* before every contract_ file, contract_<a>.instance.json before
\* contract_<a>.swagger.json, and ids or addresses of equal length sort as
\* numbers.
FileBefore(f, g) ==
    \/ f.kind = "abi" /\ g.kind # "abi"
    \/ (f.kind = "abi") = (g.kind = "abi") /\ f.addr < g.addr
    \/ f.addr = g.addr /\ f.kind = "instance" /\ g.kind = "swagger"

Listing(fs, lg, af) ==
    SetToSortSeq(
        {[addr |-> i, kind |-> "abi"] : i \in af}
        \cup {[addr |-> a, kind |-> "instance"] : a \in {x \in Addrs : fs[x] # None}}
        \cup {[addr |-> a, kind |-> "swagger"] : a \in {x \in Addrs : lg[x] # None}},
        FileBefore)

\* buildIndex's ioutil.ReadDir: the listing, or on an error nothing (the
\* error is logged, buildIndex returns and Init still succeeds).
ReadDir(fs, lg, af) ==
    {Listing(fs, lg, af)} \cup (IF ReadErrors THEN {<<>>} ELSE {})

\* NewContractStore, then Init: empty maps, and buildIndex starts from the
\* directory listing.  The first start finds only legacy files.
Init ==
    /\ phase = "starting"
    /\ files = [a \in Addrs |-> None]
    /\ legacy = LegacyFiles
    /\ todo \in ReadDir([a \in Addrs |-> None], LegacyFiles, {})
    /\ index = [a \in Addrs |-> None]
    /\ regs = [n \in Regs |-> None]
    /\ pc = [c \in Callers |-> "idle"]
    /\ arg = [c \in Callers |-> None]
    /\ used = {a \in Addrs : LegacyFiles[a] # None}
    /\ bound = {}
    /\ crashes = 0
    /\ abiIndex = {}
    /\ abiFiles = {}
    /\ cache = {}

\* addToContractIndex without its RegisteredAs != "" test: every contract,
\* named or not, is checked against and registered under its name.
IndexedEmptyName(a, n) ==
    IF regs[n] # None
    THEN [ok |-> FALSE, index |-> index, regs |-> regs]
    ELSE [ok |-> TRUE, index |-> [index EXCEPT ![a] = n],
          regs |-> [regs EXCEPT ![n] = a]]

\* addToContractIndex storing contractIndex[address] before the name check:
\* a clashing call fails with the address indexed anyway.
IndexedBeforeCheck(a, n) ==
    IF n # NoName /\ regs[n] # None
    THEN [ok |-> FALSE, index |-> [index EXCEPT ![a] = n], regs |-> regs]
    ELSE [ok |-> TRUE,
          index |-> [index EXCEPT ![a] = n],
          regs |-> IF n = NoName THEN regs ELSE [regs EXCEPT ![n] = a]]

\* addToContractIndex, under idxLock: a registered name that is taken fails
\* the call (CheckNameAvailable); otherwise the name is registered and the
\* address indexed, replacing whatever the address was indexed with.
Indexed(a, n) ==
    IF n # NoName /\ regs[n] # None
    THEN [ok |-> FALSE, index |-> index, regs |-> regs]
    ELSE [ok |-> TRUE,
          index |-> [index EXCEPT ![a] = n],
          regs |-> IF n = NoName THEN regs ELSE [regs EXCEPT ![n] = a]]

\* The bound names a successful registration of a as n adds.
Claim(a, n) == IF n = NoName THEN {} ELSE {<<n, a>>}

\* addFileToContractIndex: the instance file's ContractInfo goes through
\* addToContractIndex; a clash is only logged.  A file that fails to open
\* or decode is logged and skipped.
IndexInstanceFile ==
    /\ phase = "starting"
    /\ todo # <<>> /\ Head(todo).kind = "instance"
    /\ \/ LET r == Indexed(Head(todo).addr, files[Head(todo).addr])
          IN  index' = r.index /\ regs' = r.regs
       \/ ReadErrors /\ UNCHANGED memVars
    /\ todo' = Tail(todo)
    /\ UNCHANGED <<phase, diskVars, pc, arg, used, bound, crashes, abiVars>>

\* migrateLegacyContract once the swagger file is read: AddContract(address,
\* deployment id, address, registered name) indexes, then writes the
\* instance file; only if both succeeded is the legacy file removed, and a
\* failed remove is logged.
MigrateReadFile ==
    LET a == Head(todo).addr
        n == legacy[a]
        r == Indexed(a, n)
    IN  /\ index' = r.index
        /\ regs' = r.regs
        /\ \/ /\ r.ok
              /\ files' = [files EXCEPT ![a] = n]
              /\ bound' = bound \cup Claim(a, n)
              /\ \/ legacy' = [legacy EXCEPT ![a] = None]
                 \/ WriteErrors /\ UNCHANGED legacy
           \/ /\ ~r.ok \/ WriteErrors
              /\ UNCHANGED <<diskVars, bound>>

\* migrateLegacyContract: a swagger file that fails to open or decode is
\* logged and left on disk.
MigrateLegacyFile ==
    /\ phase = "starting"
    /\ todo # <<>> /\ Head(todo).kind = "swagger"
    /\ \/ ReadErrors /\ UNCHANGED <<memVars, diskVars, bound>>
       \/ MigrateReadFile
    /\ todo' = Tail(todo)
    /\ UNCHANGED <<phase, pc, arg, used, crashes, abiVars>>

\* addFileToABIIndex: the deploy file is decoded and AddABI indexes its id;
\* a file that fails to open or decode is logged and skipped.
IndexABIFile ==
    /\ phase = "starting"
    /\ todo # <<>> /\ Head(todo).kind = "abi"
    /\ \/ abiIndex' = abiIndex \cup {Head(todo).addr}
       \/ ReadErrors /\ UNCHANGED abiIndex
    /\ todo' = Tail(todo)
    /\ UNCHANGED <<phase, memVars, diskVars, pc, arg, used, bound, crashes,
                   abiFiles, cache>>

\* buildIndex has visited every file: the store serves requests.
IndexBuilt ==
    /\ phase = "starting" /\ todo = <<>>
    /\ phase' = "running"
    /\ UNCHANGED <<todo, memVars, diskVars, pc, arg, used, bound, crashes,
                   abiVars>>

-----------------------------------------------------------------------------
(* AddContract -> storeContractInfo                                        *)

\* AddContract(a, .., n): addToContractIndex.  An error returns at once.
\* Unless Reregister, a is a fresh address, as after a deployment.
AddContract(c, a, n) ==
    /\ phase = "running" /\ pc[c] = "idle"
    /\ Reregister \/ a \notin used
    /\ used' = used \cup {a}
    /\ LET r == Indexed(a, n)
       IN  /\ index' = r.index
           /\ regs' = r.regs
           /\ IF r.ok THEN /\ pc' = [pc EXCEPT ![c] = "indexed"]
                           /\ arg' = [arg EXCEPT ![c] = [addr |-> a, name |-> n]]
                      ELSE UNCHANGED <<pc, arg>>
    /\ UNCHANGED <<phase, todo, diskVars, bound, crashes, abiVars>>

\* storeContractInfo, after the index: ioutil.WriteFile of the instance
\* file.  Success returns the ContractInfo; failure returns an error and
\* leaves the index as it is.
StoreFile(c) ==
    /\ pc[c] = "indexed"
    /\ \/ /\ files' = [files EXCEPT ![arg[c].addr] = arg[c].name]
          /\ bound' = bound \cup Claim(arg[c].addr, arg[c].name)
       \/ WriteErrors /\ UNCHANGED <<files, bound>>
    /\ pc' = [pc EXCEPT ![c] = "idle"]
    /\ arg' = [arg EXCEPT ![c] = None]
    /\ UNCHANGED <<phase, todo, memVars, legacy, used, crashes, abiVars>>

-----------------------------------------------------------------------------
(* ABIs                                                                    *)

\* A deployable ABI is stored: its abi_<id>.deploy.json is written (by the
\* REST gateway) and AddABI puts the fresh id in abiIndex under idxLock.  A
\* failed write returns before AddABI.
AddABI(id) ==
    /\ phase = "running" /\ id \notin abiFiles
    /\ \/ /\ abiFiles' = abiFiles \cup {id}
          /\ abiIndex' = abiIndex \cup {id}
       \/ WriteErrors /\ UNCHANGED <<abiFiles, abiIndex>>
    /\ UNCHANGED <<phase, todo, memVars, diskVars, pc, arg, used, bound,
                   crashes, cache>>

\* getLocalABI: GetLocalABIInfo finds the id in abiIndex and loadDeployMsg
\* reads and parses its deploy file.
LocalABILoads(id) == id \in abiIndex /\ id \in abiFiles

\* GetABI(LocalABI id, refresh): without refresh a cached entry is returned;
\* otherwise the ABI is loaded and, if that succeeded, added to abiCache.
\* The cache holds at most DefaultABICacheSize = 25 entries, more than the
\* ids a run has, so it never evicts.
GetABI(id, refresh) ==
    /\ phase = "running"
    /\ \/ ~refresh /\ id \in cache /\ UNCHANGED cache
       \/ /\ refresh \/ id \notin cache
          /\ cache' = IF LocalABILoads(id) THEN cache \cup {id} ELSE cache
    /\ UNCHANGED <<phase, todo, memVars, diskVars, pc, arg, used, bound,
                   crashes, abiIndex, abiFiles>>

\* The process stops at any step: memory is lost and the next start runs
\* buildIndex over what is on disk.
Restart ==
    /\ crashes < MaxCrashes
    /\ crashes' = crashes + 1
    /\ phase' = "starting"
    /\ todo' \in ReadDir(files, legacy, abiFiles)
    /\ index' = [a \in Addrs |-> None]
    /\ regs' = [n \in Regs |-> None]
    /\ pc' = [c \in Callers |-> "idle"]
    /\ arg' = [c \in Callers |-> None]
    /\ abiIndex' = {}
    /\ cache' = {}
    /\ UNCHANGED <<diskVars, used, bound, abiFiles>>

Next ==
    \/ IndexInstanceFile \/ MigrateLegacyFile \/ IndexABIFile \/ IndexBuilt
    \/ \E c \in Callers :
          \/ StoreFile(c)
          \/ \E a \in Addrs, n \in Regs : AddContract(c, a, n)
    \/ \E id \in AbiIds : AddABI(id) \/ \E refresh \in BOOLEAN : GetABI(id, refresh)
    \/ Restart

-----------------------------------------------------------------------------

TypeOK ==
    /\ phase \in {"starting", "running"}
    /\ index \in [Addrs -> Regs \cup {None}]
    /\ regs \in [Regs -> Addrs \cup {None}] /\ regs[NoName] = None
    /\ files \in [Addrs -> Regs \cup {None}]
    /\ legacy \in [Addrs -> Regs \cup {None}]
    /\ pc \in [Callers -> {"idle", "indexed"}]
    /\ used \subseteq Addrs
    /\ bound \subseteq Names \X Addrs
    /\ crashes \in 0..MaxCrashes
    /\ abiIndex \subseteq AbiIds /\ abiFiles \subseteq AbiIds
    /\ cache \subseteq AbiIds

\* ResolveContractAddress and GetContractByAddress: the two lookups.
ResolveContractAddress(n) == regs[n]
GetContractByAddress(a) == index[a]

\* "Protect against overwrite" (addToContractIndex): a name that a
\* successful AddContract or migration registered for one address is never
\* registered successfully for another, across restarts.
NameNeverRebound ==
    \A b1, b2 \in bound : b1[1] = b2[1] => b1[2] = b2[2]

\* The two maps addToContractIndex keeps under idxLock agree: a contract
\* that GetContractByAddress shows as registered under a name is the one
\* ResolveContractAddress answers for that name.
IndexAgreesWithRegistrations ==
    \A a \in Addrs :
        GetContractByAddress(a) \in Names =>
            ResolveContractAddress(GetContractByAddress(a)) = a

=============================================================================
