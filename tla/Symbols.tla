-------------------------------- MODULE Symbols --------------------------------
(***************************************************************************)
(* Where the hooks go (utils/handlers/symbol_resolver.py).  Before it      *)
(* launches cmd.exe the controller looks up the addresses of the functions *)
(* to hook in the PDB of the installed cmd.exe.  The PDB is downloaded     *)
(* into a cache that outlives the session, in a directory named after the  *)
(* build.  Whatever fails, the addresses that were not found are left to   *)
(* the defaults in the DLL.                                                *)
(*                                                                         *)
(* Faults: "headers" cmd.exe cannot be read or has no debug directory      *)
(*         "network" the server cannot be reached                          *)
(*         "cut"     the connection is lost during the download            *)
(*         "dbghelp" a call of dbghelp.dll fails                           *)
(***************************************************************************)
EXTENDS Naturals, Sequences

CONSTANTS Builds,       \* builds of cmd.exe
          DefaultBuild, \* the one the DLL's default addresses are for
          Elsewhere,    \* those whose PDB is in C:\symbols or _NT_SYMBOL_PATH
          Names,        \* the functions to hook
          Faults        \* the faults that may happen

VARIABLES build,        \* the build that is installed
          pdb,          \* pdb[b]: the cache directory of build b
          looking,      \* where resolve_cmd_symbol_rvas is
          resolved,     \* the names it has found
          troubled      \* history: something failed in this resolution

symbolVars == <<build, pdb, looking, resolved, troubled>>

CacheStates == {"none", "empty", "partial", "whole"}

(* _ensure_pdb takes a PDB that exists for a good one. *)
CachedDirectory(b) == pdb[b] # "none"
Cached(b) == pdb[b] \in {"partial", "whole"}

(* SymLoadModuleExW and SymFromName: dbghelp has no use for a partial PDB. *)
FoundOrNone(b) == IF pdb[b] = "whole" \/ b \in Elsewhere THEN Names ELSE {"None"}
Found(b) == IF pdb[b] = "whole" \/ b \in Elsewhere THEN Names ELSE {}

Resolve ==
  /\ looking = "idle"
  /\ looking' = "parsing"
  /\ UNCHANGED <<build, pdb, resolved, troubled>>

(* _parse_cmd_debug_info and the look into the cache; the directory is     *)
(* made before the download.                                               *)
ParseHeaders ==
  /\ looking = "parsing"
  /\ looking' = IF Cached(build) THEN "loading" ELSE "fetching"
  /\ pdb' = IF Cached(build) THEN pdb ELSE [pdb EXCEPT ![build] = "empty"]
  /\ UNCHANGED <<build, resolved, troubled>>

NoHeaders ==
  /\ "headers" \in Faults
  /\ looking = "parsing"
  /\ looking' = "loading"
  /\ troubled' = TRUE
  /\ UNCHANGED <<build, pdb, resolved>>

Download ==
  /\ looking = "fetching"
  /\ looking' = "loading"
  /\ pdb' = [pdb EXCEPT ![build] = "whole"]
  /\ UNCHANGED <<build, resolved, troubled>>

(* urlretrieve raises before it has created the file, or leaves what it    *)
(* has written; either way resolution goes on without.                     *)
Unreachable ==
  /\ "network" \in Faults
  /\ looking = "fetching"
  /\ looking' = "loading"
  /\ troubled' = TRUE
  /\ UNCHANGED <<build, pdb, resolved>>

LeavePartial == pdb' = [pdb EXCEPT ![build] = "partial"]

CutShort ==
  /\ "cut" \in Faults
  /\ looking = "fetching"
  /\ looking' = "loading"
  /\ LeavePartial
  /\ UNCHANGED <<build, resolved, troubled>>

(* SymInitializeW or SymLoadModuleExW may fail, and each SymFromName.      *)
LookUp ==
  /\ looking = "loading"
  /\ looking' = "done"
  /\ \/ resolved' = Found(build) /\ UNCHANGED troubled
     \/ /\ "dbghelp" \in Faults
        /\ \E found \in SUBSET Found(build) : resolved' = found
        /\ troubled' = TRUE
  /\ UNCHANGED <<build, pdb>>

(* The program ends in the middle of it: a download may be cut short. *)
Abandon ==
  /\ looking' = "idle" /\ resolved' = {} /\ troubled' = FALSE
  /\ \/ looking = "fetching" /\ LeavePartial
     \/ UNCHANGED pdb
  /\ UNCHANGED build

(* What was resolved has been put to use. *)
Forget ==
  /\ looking = "done"
  /\ looking' = "idle" /\ resolved' = {} /\ troubled' = FALSE
  /\ UNCHANGED <<build, pdb>>

(* An update of Windows brings another cmd.exe. *)
Update(b) ==
  /\ looking = "idle"
  /\ b # build
  /\ build' = b
  /\ UNCHANGED <<pdb, looking, resolved, troubled>>

SymbolInit ==
  /\ build = DefaultBuild
  /\ pdb = [b \in Builds |-> "none"]
  /\ looking = "idle"
  /\ resolved = {}
  /\ troubled = FALSE

ResolveStep ==
  ParseHeaders \/ NoHeaders \/ Download \/ Unreachable \/ CutShort \/ LookUp

(* The types of these variables, a part of the type invariant of Sessions. *)
SymbolTypes ==
  /\ build \in Builds
  /\ pdb \in [Builds -> CacheStates]
  /\ looking \in {"idle", "parsing", "fetching", "loading", "done"}
  /\ resolved \subseteq Names
  /\ troubled \in BOOLEAN

===============================================================================
