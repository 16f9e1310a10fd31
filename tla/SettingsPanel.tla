----------------------------- MODULE SettingsPanel ----------------------------
(***************************************************************************)
(* The settings of the web panel: settings.yaml, the endpoints of          *)
(* web/api.py that read and patch it, and the scan that reads it under a   *)
(* lock.  Each endpoint runs in a thread of its own, and nothing orders    *)
(* two of them.  A settings tree is a function from its leaves to values,  *)
(* on which a deep merge is leaf by leaf.                                  *)
(***************************************************************************)
EXTENDS Naturals

CONSTANTS
    Requests,         \* threads that serve a request
    Installed,        \* what settings.yaml may be when the server starts
    MaxCrashes        \* bound on the ends of the server

VARIABLES
    file,             \* settings.yaml, or Absent
    stage,            \* how far each request is
    patch,            \* leaves a request changes, with their values
    seen,             \* settings a request has read
    scanner,          \* the request that holds _scan_lock, or NoOne
    crashes,
    acked             \* history: the last value each leaf was answered with

vars == <<file, stage, patch, seen, scanner, crashes, acked>>

Leaves == {"symbols", "risk", "strategies", "tradability", "ranking", "paper",
           "provider", "enrich", "broker"}
Unset == "unset"
Absent == [l \in {} |-> "absent"]      \* there is no file
NoOne == "no one"

Nothing == [l \in Leaves |-> Unset]
DefaultSettings == [l \in Leaves |-> "default"]
Example == [l \in Leaves |-> "example"]

\* deep_merge(base, override)
DeepMerge(base, override) ==
    [l \in Leaves |-> IF override[l] = Unset THEN base[l] ELSE override[l]]

\* What is in the file: nothing when it is missing or was just truncated.
Content == IF file = Absent THEN Nothing ELSE file
LoadSettings == DeepMerge(DefaultSettings, Content)

Init == /\ file \in Installed
        /\ stage = [r \in Requests |-> "idle"]
        /\ patch = [r \in Requests |-> Nothing]
        /\ seen = [r \in Requests |-> Nothing]
        /\ scanner = NoOne /\ crashes = 0
        /\ acked = Nothing

Goto(r, from, to) == stage[r] = from /\ stage' = [stage EXCEPT ![r] = to]

-----------------------------------------------------------------------------
(* The endpoints that patch.  A body without a value, an unknown strategy, *)
(* provider or parameter and a number out of range are answered with an    *)
(* error and change nothing, so only the accepted ones are actions.        *)

Accept(r, next, changed) ==
    /\ Goto(r, "idle", next)
    /\ patch' = [patch EXCEPT ![r] = [l \in Leaves |->
                    IF l \in DOMAIN changed THEN changed[l] ELSE Unset]]
    /\ UNCHANGED <<file, seen, scanner, crashes, acked>>

One(l, v) == [x \in {l} |-> v]

UpdateTradability(r) == \E v \in {"on", "off"} : Accept(r, "read", One("tradability", v))
UpdateRanking(r) == \E v \in {"on", "off"} : Accept(r, "read", One("ranking", v))
UpdateStrategy(r) == \E v \in {"on", "off"} : Accept(r, "read", One("strategies", v))
UpdateSymbols(r) == Accept(r, "read", One("symbols", "on"))
UpdateRisk(r) == Accept(r, "read", One("risk", "on"))
UpdateBroker(r) == \E v \in {"on", "off"} : Accept(r, "read", One("broker", v))
UpdatePaperTrading(r) == \E v \in {"on", "off"} : Accept(r, "read", One("paper", v))

\* The provider and the enrichment may change together; to switch enrichment
\* on, the settings are read first.
UpdateDatasource(r) ==
    \/ Accept(r, "read", One("provider", "on"))
    \/ Accept(r, "read", [l \in {"provider", "enrich"} |-> "off"])
    \/ Accept(r, "enrich", One("enrich", "on"))

\* Enrichment is refused unless the broker is enabled.
CheckBroker(r) ==
    /\ Goto(r, "enrich", IF LoadSettings["broker"] = "on" THEN "read" ELSE "idle")
    /\ UNCHANGED <<file, patch, seen, scanner, crashes, acked>>

-----------------------------------------------------------------------------
(* _patch_settings: read, merge, truncate, write.                          *)

ReadFile(r) ==
    /\ Goto(r, "read", "truncate")
    /\ seen' = [seen EXCEPT ![r] = Content]
    /\ UNCHANGED <<file, patch, scanner, crashes, acked>>

\* Path.write_text opens the file for writing, which empties it.
Truncate(r) ==
    /\ Goto(r, "truncate", "write")
    /\ file' = Nothing
    /\ UNCHANGED <<patch, seen, scanner, crashes, acked>>

Write(r) ==
    /\ Goto(r, "write", "idle")
    /\ file' = DeepMerge(seen[r], patch[r])
    /\ acked' = DeepMerge(acked, patch[r])
    /\ UNCHANGED <<patch, seen, scanner, crashes>>

-----------------------------------------------------------------------------
(* Reading.  _settings copies the example when there is no settings.yaml.  *)

GetSettings(r) ==
    \/ /\ file # Absent
       /\ Goto(r, "idle", "idle")
       /\ UNCHANGED <<file, patch, seen, scanner, crashes, acked>>
    \/ /\ file = Absent
       /\ Goto(r, "idle", "example")
       /\ file' = Nothing
       /\ UNCHANGED <<patch, seen, scanner, crashes, acked>>

WriteExample(r) ==
    /\ Goto(r, "example", "idle")
    /\ file' = Example
    /\ UNCHANGED <<patch, seen, scanner, crashes, acked>>

\* run_scan: a second scan is refused while _scan_lock is held; the test and
\* the acquisition have no await between them.  The pass runs in a thread
\* with the settings read at its beginning.
StartScan(r) ==
    /\ scanner = NoOne
    /\ file # Absent
    /\ Goto(r, "idle", "scan")
    /\ scanner' = r
    /\ seen' = [seen EXCEPT ![r] = LoadSettings]
    /\ UNCHANGED <<file, patch, crashes, acked>>

\* The lock is released whether the pass succeeded or raised.
EndScan(r) ==
    /\ Goto(r, "scan", "idle")
    /\ scanner' = NoOne
    /\ UNCHANGED <<file, patch, seen, crashes, acked>>

-----------------------------------------------------------------------------
\* The server ends and is started again; no request survives.
Crash ==
    /\ crashes < MaxCrashes
    /\ crashes' = crashes + 1
    /\ stage' = [r \in Requests |-> "idle"]
    /\ scanner' = NoOne
    /\ UNCHANGED <<file, patch, seen, acked>>

Next ==
    \/ \E r \in Requests :
         \/ UpdateTradability(r) \/ UpdateRanking(r) \/ UpdateStrategy(r)
         \/ UpdateSymbols(r) \/ UpdateRisk(r) \/ UpdateBroker(r)
         \/ UpdatePaperTrading(r) \/ UpdateDatasource(r) \/ CheckBroker(r)
         \/ ReadFile(r) \/ Truncate(r) \/ Write(r)
         \/ GetSettings(r) \/ WriteExample(r) \/ StartScan(r) \/ EndScan(r)
    \/ Crash

Spec == Init /\ [][Next]_vars

-----------------------------------------------------------------------------
\* "The structure and all other values are preserved" by _patch_settings: once
\* nobody is at work, the file has the value of every change it acknowledged.
OthersPreserved ==
    (\A r \in Requests : stage[r] = "idle") =>
        \A l \in Leaves : acked[l] = Unset \/ Content[l] = acked[l]
=============================================================================
