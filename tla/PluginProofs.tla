---------------------------- MODULE PluginProofs ----------------------------
(***************************************************************************)
(* Proofs about PluginModule, for every number of sessions, every set of   *)
(* filter states, and every bound of time and of versions.                 *)
(***************************************************************************)
EXTENDS PluginModule, TLAPS

\* Where the callback is decides what is mapped: nothing while a reload is under
\* way, and a pointer into nothing only before the first load that succeeded.
PhaseMatches ==
    /\ dlh # NULL => phase \in {"idle", "crashed"} /\ filter_new = dlh
    /\ opened # NULL <=> phase = "stat"

\* An instance that does not exist has neither a filter nor a saved state, and
\* one that does has a filter while the module is loaded.
Manned ==
    /\ \A i \in Instances \ inst : flt[i] = NULL /\ st[i] = NoState
    /\ dlh # NULL => \A i \in inst : flt[i] # NULL /\ st[i] = NoState

\* The versions that are mapped are no newer than the file.
NoFuture == dlh <= file.ver /\ opened <= file.ver

\* The time stamp is that of the mapped version while it is the file's, and,
\* unless they raced, another one as soon as it is not.
StampTells ==
    /\ dlh # NULL /\ dlh = file.ver => file.kind = "good" /\ file.mtime = tstamp
    /\ dlh # NULL /\ dlh # file.ver /\ ~raced => file.mtime # tstamp
    /\ phase = "stat" /\ opened = file.ver => file.kind = "good"
    /\ phase = "stat" /\ ~raced => opened = file.ver

IInv ==
    /\ TypeOK
    /\ NoStaleCode
    /\ StateSurvives
    /\ PhaseMatches
    /\ Manned
    /\ NoFuture
    /\ StampTells
-----------------------------------------------------------------------------
LEMMA InitIInv == Init => IInv
<1> SUFFICES ASSUME Init PROVE IInv
  OBVIOUS
<1> USE PluginAssumption DEF Init, NULL, Wild, Versions
<1>1. TypeOK
  <2>1. file \in [ver : Versions, mtime : 0 .. now, kind : {"good", "bad", "absent"}]
    OBVIOUS
  <2>2. /\ flt \in [Instances -> Versions \cup {NULL}]
        /\ memory \in [Instances -> States]
        /\ st \in [Instances -> States \cup {NoState}]
        /\ want \in [Instances -> States]
    OBVIOUS
  <2>3. /\ dlh \in Versions \cup {NULL} /\ opened \in Versions \cup {NULL}
        /\ filter_new \in Versions \cup {NULL, Wild}
        /\ now \in 0 .. MaxTime /\ tstamp \in 0 .. MaxTime
    OBVIOUS
  <2>4. /\ phase \in {"idle", "open", "stat", "crashed"}
        /\ inst \subseteq Instances /\ raced \in BOOLEAN
    OBVIOUS
  <2> QED
    BY ONLY <2>1, <2>2, <2>3, <2>4 DEF TypeOK
<1>2. NoStaleCode /\ StateSurvives /\ PhaseMatches /\ Manned /\ NoFuture /\ StampTells
  BY DEF NoStaleCode, StateSurvives, PhaseMatches, Manned, NoFuture, StampTells
<1> QED
  BY <1>1, <1>2 DEF IInv

\* Time passes and the file is replaced, at any point of a reload.
LEMMA WorldIInv ==
    ASSUME IInv, Tick \/ \E kind \in {"good", "bad", "absent"} : Replace(kind)
    PROVE  IInv'
<1> USE PluginAssumption DEF IInv, NULL, Wild, Versions, image, filters
<1>1. CASE Tick
  <2>1. TypeOK'
    <3>1. file' \in [ver : Versions, mtime : 0 .. now', kind : {"good", "bad", "absent"}]
      BY <1>1 DEF TypeOK, Tick
    <3> QED
      BY <1>1, <3>1 DEF TypeOK, Tick
  <2>2. NoStaleCode' /\ StateSurvives' /\ Manned' /\ PhaseMatches'
    BY <1>1 DEF NoStaleCode, StateSurvives, PhaseMatches, Manned, Tick
  <2>3. NoFuture' /\ StampTells'
    BY <1>1 DEF NoFuture, StampTells, Tick
  <2> QED
    BY <2>1, <2>2, <2>3
<1>2. ASSUME NEW kind \in {"good", "bad", "absent"}, Replace(kind)
      PROVE  IInv'
  <2>1. /\ file'.ver = file.ver + 1 /\ file'.mtime = now
        /\ file' \in [ver : Versions, mtime : 0 .. now', kind : {"good", "bad", "absent"}]
    BY <1>2 DEF TypeOK, Replace
  <2>2. TypeOK'
    BY <1>2, <2>1 DEF TypeOK, Replace
  <2>3. NoStaleCode' /\ StateSurvives' /\ Manned' /\ PhaseMatches'
    BY <1>2 DEF NoStaleCode, StateSurvives, PhaseMatches, Manned, Replace
  <2>4. NoFuture'
    BY <1>2, <2>1 DEF NoFuture, Replace, TypeOK
  <2>5. StampTells'
    <3>1. dlh < file'.ver /\ opened < file'.ver
      BY <2>1 DEF NoFuture, TypeOK
    <3>2. raced' <=> (raced \/ phase = "stat" \/ now = tstamp)
      BY <1>2 DEF Replace
    <3>3. UNCHANGED <<dlh, opened, phase, tstamp>>
      BY <1>2 DEF Replace
    <3> QED
      BY <2>1, <3>1, <3>2, <3>3 DEF StampTells, TypeOK
  <2> QED
    BY <2>2, <2>3, <2>4, <2>5
<1> QED
  BY <1>1, <1>2

\* Sessions begin, end and are filtered.
LEMMA SessionIInv ==
    ASSUME IInv, NEW i \in Instances,
           new_instance(i) \/ delete_instance(i) \/ \E s \in States : process(i, s)
    PROVE  IInv'
<1> USE PluginAssumption DEF IInv, NULL, Wild, Versions, image
<1>1. TypeOK'
  BY DEF TypeOK, new_instance, delete_instance, process
<1>2. NoStaleCode' /\ PhaseMatches' /\ Manned'
  BY DEF NoStaleCode, PhaseMatches, Manned, TypeOK, new_instance, delete_instance, process
<1>3. StateSurvives'
  BY DEF StateSurvives, TypeOK, new_instance, delete_instance, process
<1>4. NoFuture' /\ StampTells'
  BY DEF NoFuture, StampTells, new_instance, delete_instance, process
<1> QED
  BY <1>1, <1>2, <1>3, <1>4

\* The old code is unloaded: every filter was saved.
LEMMA UnloadIInv == ASSUME IInv, Unload PROVE IInv'
<1> USE PluginAssumption DEF IInv, NULL, Wild, Versions, Saved, Left
<1>1. TypeOK'
  BY DEF TypeOK, Unload
<1>2. NoStaleCode' /\ PhaseMatches' /\ Manned'
  BY DEF NoStaleCode, PhaseMatches, Manned, TypeOK, Unload
<1>3. StateSurvives'
  BY DEF StateSurvives, Manned, TypeOK, Unload
<1>4. NoFuture' /\ StampTells'
  BY DEF NoFuture, StampTells, TypeOK, Unload
<1> QED
  BY <1>1, <1>2, <1>3, <1>4

\* The new code is mapped.
LEMMA OpenIInv == ASSUME IInv, Open PROVE IInv'
<1> USE PluginAssumption DEF IInv, NULL, Wild, Versions, filters
<1>1. TypeOK'
  BY DEF TypeOK, Open
<1>2. NoStaleCode' /\ PhaseMatches' /\ Manned' /\ StateSurvives'
  BY DEF NoStaleCode, PhaseMatches, Manned, StateSurvives, TypeOK, Open
<1>3. NoFuture' /\ StampTells'
  BY DEF NoFuture, StampTells, PhaseMatches, TypeOK, Open
<1> QED
  BY <1>1, <1>2, <1>3

\* The filters are made again and get their states back.
LEMMA FinishIInv == ASSUME IInv, Finish PROVE IInv'
<1> USE PluginAssumption DEF IInv, NULL, Wild, Versions, Stamped, Remade, Restored
<1>1. TypeOK'
  BY DEF TypeOK, Finish
<1>2. dlh = NULL /\ \A i \in Instances : flt[i] = NULL
  BY DEF NoStaleCode, PhaseMatches, TypeOK, Finish
<1>3. NoStaleCode' /\ PhaseMatches' /\ Manned'
  BY <1>2 DEF NoStaleCode, PhaseMatches, Manned, TypeOK, Finish
<1>4. StateSurvives'
  BY <1>2 DEF StateSurvives, PhaseMatches, TypeOK, Finish
<1>5. NoFuture' /\ StampTells'
  BY DEF NoFuture, StampTells, PhaseMatches, TypeOK, Finish
<1> QED
  BY <1>1, <1>3, <1>4, <1>5

LEMMA NextIInv == IInv /\ [Next]_vars => IInv'
<1> SUFFICES ASSUME IInv, [Next]_vars PROVE IInv'
  OBVIOUS
<1>1. CASE UNCHANGED vars
  BY <1>1 DEF vars, IInv, TypeOK, NoStaleCode, StateSurvives, PhaseMatches, Manned,
              NoFuture, StampTells
<1>2. CASE Next
  BY <1>2, WorldIInv, SessionIInv, UnloadIInv, OpenIInv, FinishIInv DEF Next, plugins_check_cb
<1> QED
  BY <1>1, <1>2

LEMMA SpecIInv == Spec => []IInv
BY InitIInv, NextIInv, PTL DEF Spec
-----------------------------------------------------------------------------
\* No filter outlives the code that made it, through any sequence of reloads,
\* failed loads and sessions that come and go.
THEOREM SpecNoStaleCode == Spec => []NoStaleCode
<1>1. IInv => NoStaleCode
  BY DEF IInv
<1> QED
  BY <1>1, SpecIInv, PTL

\* What a filter was told survives every reload, and every number of failed ones.
THEOREM SpecStateSurvives == Spec => []StateSurvives
<1>1. IInv => StateSurvives
  BY DEF IInv
<1> QED
  BY <1>1, SpecIInv, PTL

\* While the module is loaded every session has its filter.
THEOREM SpecNoSessionUnfiltered == Spec => []NoSessionUnfiltered
<1>1. IInv => NoSessionUnfiltered
  BY DEF IInv, Manned, NoSessionUnfiltered
<1> QED
  BY <1>1, SpecIInv, PTL

\* A module is not reloaded from the file it was loaded from.
THEOREM SpecNoNeedlessReload == Spec => []NoNeedlessReload
<1>1. IInv => NoNeedlessReload
  BY DEF IInv, StampTells, NoNeedlessReload, need_reload, Changed
<1> QED
  BY <1>1, SpecIInv, PTL

\* A change of the file is noticed, wherever it falls outside the window of the
\* race between dlopen() and stat().
THEOREM SpecChangeNoticed == Spec => []ChangeNoticed
<1>1. IInv => ChangeNoticed
  BY DEF IInv, StampTells, ChangeNoticed, need_reload, Changed
<1> QED
  BY <1>1, SpecIInv, PTL
=============================================================================
