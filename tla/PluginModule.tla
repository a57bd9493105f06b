---------------------------- MODULE PluginModule ----------------------------
(***************************************************************************)
(* rfx_module of main.cpp: a filter plugin that is loaded from a file when *)
(* the proxy starts and again, once a second, whenever the file has        *)
(* changed.  The filters of the running sessions are destroyed before the  *)
(* old code is unloaded and made again from the new code; their state is   *)
(* carried over.                                                           *)
(*                                                                         *)
(* plugins_check_cb is one callback, so no session runs while it does, but *)
(* the file may be replaced between any two of its system calls (phase).   *)
(***************************************************************************)
EXTENDS Integers

CONSTANTS Instances,    \* identities of rfx_instance: one for each session
          States,       \* what a filter may have to remember
          Fresh,        \* the state of a new filter
          MaxTime,      \* bound of the clock
          MaxVersion    \* bound of the versions of the file

NoState == "no state"   \* rfx_instance.st while it is NULL

ASSUME PluginAssumption ==
    /\ Fresh \in States
    /\ NoState \notin States
    /\ MaxTime \in Nat
    /\ MaxVersion \in Nat \ {0}

VARIABLES
    now,        \* time(NULL)
    file,       \* the file: its version, st_mtime, and whether it can be loaded
    dlh,        \* rfx_module.dlh: the version that is mapped, or NULL
    filter_new, \* rfx_module.filter_new: the version it points into, NULL, or Wild
    tstamp,     \* rfx_module.tstamp
    phase,      \* where the callback is; "crashed" after a wild call
    opened,     \* the version dlopen() has mapped in load()
    inst,       \* the existing instances
    flt,        \* flt[i]: the version rfx_instance.flt was made by, or NULL
    memory,     \* memory[i]: the state inside that filter
    st,         \* st[i]: rfx_instance.st, a saved state or NULL
    want,       \* history: want[i] is the state filter i was last brought to
    raced       \* history: the file was replaced after it was mapped, but with
                \* the time stamp that was taken for it

vars == <<now, file, dlh, filter_new, tstamp, phase, opened, inst, flt, memory, st, want, raced>>
image == <<dlh, filter_new, tstamp, opened>>
filters == <<inst, flt, memory, st, want>>
-----------------------------------------------------------------------------
NULL == 0               \* versions are counted from 1
Wild == -1              \* filter_new before the first load() that succeeds
Versions == 1 .. MaxVersion

Init ==
    /\ now = 0
    /\ file \in [ver : {1}, mtime : {0}, kind : {"good", "bad", "absent"}]
    /\ dlh = NULL
    /\ filter_new \in {NULL, Wild}
    /\ tstamp \in 0 .. MaxTime           \* not initialised
    /\ phase = "open"                   \* load_plugins calls load()
    /\ opened = NULL
    /\ inst = {}
    /\ flt = [i \in Instances |-> NULL]
    /\ memory = [i \in Instances |-> Fresh]
    /\ st = [i \in Instances |-> NoState]
    /\ want = [i \in Instances |-> Fresh]
    /\ raced = FALSE

Tick ==
    /\ now < MaxTime
    /\ now' = now + 1
    /\ UNCHANGED <<file, phase, image, filters, raced>>

\* A build replaces the file, by a loadable one or not, or removes it.
Replace(kind) ==
    /\ file.ver < MaxVersion
    /\ file' = [ver |-> file.ver + 1, mtime |-> now, kind |-> kind]
    /\ raced' = (raced \/ phase = "stat" \/ now = tstamp)
    /\ UNCHANGED <<now, phase, image, filters>>

-----------------------------------------------------------------------------
\* rfx_module::new_instance, for a new session.
new_instance(i) ==
    /\ phase = "idle"
    /\ i \notin inst
    /\ phase' = IF filter_new = Wild THEN "crashed" ELSE "idle"
    /\ inst' = inst \cup {i}
    /\ flt' = [flt EXCEPT ![i] = IF filter_new = Wild THEN NULL ELSE filter_new]
    /\ memory' = [memory EXCEPT ![i] = Fresh]
    /\ st' = [st EXCEPT ![i] = NoState]
    /\ want' = [want EXCEPT ![i] = Fresh]
    /\ UNCHANGED <<now, file, image, raced>>

\* ~rfx_instance, when the session ends.
delete_instance(i) ==
    /\ phase = "idle"
    /\ i \in inst
    /\ inst' = inst \ {i}
    /\ flt' = [flt EXCEPT ![i] = NULL]
    /\ st' = [st EXCEPT ![i] = NoState]
    /\ want' = [want EXCEPT ![i] = Fresh]
    /\ memory' = [memory EXCEPT ![i] = Fresh]
    /\ UNCHANGED <<now, file, phase, image, raced>>

\* The filter of a session processes something and changes its state; a filter
\* chain passes over instances that have no filter.
process(i, s) ==
    /\ phase = "idle"
    /\ i \in inst /\ flt[i] # NULL
    /\ memory' = [memory EXCEPT ![i] = s]
    /\ want' = [want EXCEPT ![i] = s]
    /\ UNCHANGED <<now, file, phase, image, inst, flt, st, raced>>

\* rfx_module::need_reload; with the faults that only a file that is newer by
\* more than a second counts as changed, and that an unloaded module is left alone.
ChangedFaulty == file.kind # "absent" /\ file.mtime > tstamp + 1 /\ now - file.mtime > 1
Changed == file.kind # "absent" /\ file.mtime # tstamp /\ now - file.mtime > 1
need_reloadFaulty == dlh # NULL /\ Changed
need_reload == dlh = NULL \/ Changed

\* The state that reload() saves for instance i, if it has a filter.
Saved(i) == IF flt[i] # NULL THEN memory[i] ELSE st[i]

\* What is left of the filter of instance i when the code is unloaded; with the
\* fault that only a filter with a state is destroyed.
LeftFaulty(i) == IF memory[i] # Fresh THEN NULL ELSE flt[i]
Left(i) == NULL

\* rfx_module::reload up to the dlopen() of load(): if there is old code, the
\* filters are saved and destroyed, and it is unloaded.
Unload ==
    /\ phase = "idle"
    /\ need_reload
    /\ phase' = "open"
    /\ IF dlh # NULL
       THEN /\ st' = [i \in Instances |-> IF i \in inst THEN Saved(i) ELSE st[i]]
            /\ flt' = [i \in Instances |-> IF i \in inst THEN Left(i) ELSE flt[i]]
            /\ memory' = [i \in Instances |-> Fresh]
            /\ dlh' = NULL
            /\ filter_new' = NULL
       ELSE UNCHANGED <<st, flt, memory, dlh, filter_new>>
    /\ UNCHANGED <<now, file, tstamp, opened, inst, want, raced>>

\* rfx_module::load: dlopen() and the checks of the symbols.
Open ==
    /\ phase = "open"
    /\ IF file.kind = "good"
       THEN opened' = file.ver /\ phase' = "stat"
       ELSE opened' = NULL /\ phase' = "idle"
    /\ raced' = FALSE
    /\ UNCHANGED <<now, file, dlh, filter_new, tstamp, filters>>

\* The instances whose filter reload() makes again; with the fault that it is
\* only those with a saved state.
RemadeFaulty == {i \in inst : st[i] # NoState}
Remade == inst

\* rfx_module.tstamp after load(): stat() may fail; with the fault that it is
\* only set by the first load().
StampedFaulty == IF dlh = NULL /\ inst = {} /\ file.kind # "absent" THEN file.mtime ELSE tstamp
Stamped == IF file.kind # "absent" THEN file.mtime ELSE tstamp

\* The state of the filter made again for instance i; with the fault that it
\* does not take back what was saved.
RestoredFaulty(i) == Fresh
Restored(i) == IF st[i] # NoState THEN st[i] ELSE Fresh

\* rfx_module::load from its stat() on, and the rest of reload(): the filters
\* are made again and take their states back.
Finish ==
    /\ phase = "stat"
    /\ phase' = "idle"
    /\ tstamp' = Stamped
    /\ dlh' = opened
    /\ filter_new' = opened
    /\ opened' = NULL
    /\ flt' = [i \in Instances |-> IF i \in Remade THEN opened ELSE flt[i]]
    /\ memory' = [i \in Instances |-> IF i \in Remade THEN Restored(i) ELSE memory[i]]
    /\ st' = [i \in Instances |-> IF i \in Remade THEN NoState ELSE st[i]]
    /\ UNCHANGED <<now, file, inst, want, raced>>

plugins_check_cb == Unload \/ Open \/ Finish

Next ==
    \/ Tick
    \/ \E kind \in {"good", "bad", "absent"} : Replace(kind)
    \/ \E i \in Instances : new_instance(i)
    \/ \E i \in Instances : delete_instance(i)
    \/ \E i \in Instances : \E s \in States : process(i, s)
    \/ plugins_check_cb

Spec == Init /\ [][Next]_vars

\* The check runs once a second, for ever; time passes.
FairSpec == Spec /\ WF_vars(plugins_check_cb) /\ WF_vars(Tick)
-----------------------------------------------------------------------------
TypeOK ==
    /\ now \in 0 .. MaxTime
    /\ file \in [ver : Versions, mtime : 0 .. now, kind : {"good", "bad", "absent"}]
    /\ dlh \in Versions \cup {NULL}
    /\ filter_new \in Versions \cup {NULL, Wild}
    /\ tstamp \in 0 .. MaxTime
    /\ phase \in {"idle", "open", "stat", "crashed"}
    /\ opened \in Versions \cup {NULL}
    /\ inst \subseteq Instances
    /\ flt \in [Instances -> Versions \cup {NULL}]
    /\ memory \in [Instances -> States]
    /\ st \in [Instances -> States \cup {NoState}]
    /\ want \in [Instances -> States]
    /\ raced \in BOOLEAN

\* No filter outlives the code that made it: its methods and its destructor
\* are in the image that is mapped.
NoStaleCode ==
    /\ \A i \in Instances : flt[i] # NULL => i \in inst /\ flt[i] = dlh
    /\ filter_new \in {dlh, Wild}

\* A session's filter remembers what it was told through every reload, those
\* that failed before one succeeded included.
StateSurvives ==
    \A i \in inst : want[i] = IF flt[i] # NULL THEN memory[i]
                              ELSE IF st[i] # NoState THEN st[i] ELSE Fresh

\* While the module is loaded no session is without its filter, sessions that
\* began when it was not included, and no saved state is left behind.
NoSessionUnfiltered ==
    phase = "idle" /\ dlh # NULL => \A i \in inst : flt[i] # NULL /\ st[i] = NoState

\* A module is not reloaded from a file it was loaded from already.
NoNeedlessReload == phase = "idle" /\ dlh # NULL /\ need_reload => file.ver # dlh

\* A module whose file is good from some time on is loaded again.
LoadedInTheEnd == <>[](file.kind = "good" /\ phase # "crashed") => <>[](dlh # NULL \/ phase # "idle")

\* main.cpp:433, "return true if module needs reloading": it does when the file
\* has been another one for more than a second, unless the change fell between
\* the dlopen() and the stat() of load(), or into the second of the time stamp:
\* such a change is never noticed.
ChangeNoticed ==
    /\ phase = "idle" /\ dlh # NULL /\ ~raced
    /\ file.kind = "good" /\ file.ver # dlh /\ now - file.mtime > 1
    => need_reload
=============================================================================
