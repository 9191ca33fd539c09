--------------------------- MODULE Config_proofs ---------------------------
(***************************************************************************)
(* Proofs about what the program keeps of a session: about Settings, for   *)
(* any number of profiles, templates, values of the settings and changes   *)
(* by other programs, and about Repositories, for any URLs, credentials,   *)
(* limits and edits by hand.  The two share no state (see Session).        *)
(*                                                                         *)
(* The invariant of Settings relates its copies to each other.  What       *)
(* it adds to the properties is mainly FlagsAgree: while the program runs, *)
(* the flag for unsaved changes is clear only when the profile in force is *)
(* one that was read from a file or written to one, and that is why        *)
(* nothing can be lost unasked.  It needs TemplatesStay, because reading a *)
(* template again must not make the session forget what it knew of it.     *)
(*                                                                         *)
(* That of Repositories is about the operation that goes on: where its     *)
(* credential comes from, and which refusals the dialog has counted.  A    *)
(* second one, FileInv, says that the lists could have been loaded: no     *)
(* name is in them twice and none is over its limit, and that is why the   *)
(* loader, which drops what is, gives back all that was saved.  What the   *)
(* loader computes, a fold, is shown entry by entry with Induction.        *)
(***************************************************************************)
EXTENDS Session, Induction, SequenceTheorems, TLAPS

AppType == [basic : Basics, proxy : Proxies, ui : UIs, path : Templates \cup Paths \cup {None}]
ConfType == [basic : Basics, proxy : Proxies, fault : Faults]
EditorType == [before : AppType, dirty : BOOLEAN, proxy : Proxies]

SavedType == [basic : Basics, proxy : Proxies]
Known == [{None} \cup Templates \cup Paths -> UIs \cup {None}]
ProfilesType == [Templates \cup Paths -> UIs \cup {None, Broken}]

Types ==
    /\ conf \in ConfType \cup {None}
    /\ profile \in ProfilesType
    /\ app \in AppType
    /\ dirty \in BOOLEAN /\ running \in BOOLEAN /\ fresh \in BOOLEAN
    /\ savedUI \in UIs \cup {None}
    /\ saved \in SavedType
    /\ editor # None => editor \in EditorType
    /\ others \in Nat
    /\ known \in Known

\* A template says what it always said, and is known as that if at all.
TemplatesStay ==
    \A t \in Templates : profile[t] = TemplateUI /\ known[t] \in {None, TemplateUI}

\* The flag for unsaved changes tells whether the profile in force is another
\* than the one saved, which is known from a file; before there is one saved,
\* the profile in force is.
FlagsAgree ==
    /\ editor # None => running /\ savedUI # None
    /\ running => IF savedUI = None
                  THEN ~dirty /\ app.ui \in Range(known)
                  ELSE savedUI \in Range(known) /\ (dirty <=> app.ui # savedUI)

Inv == Types /\ TemplatesStay /\ FlagsAgree /\ ProxyIsStaged /\ SavedMirrorsFile

----------------------------------------------------------------------------
(* What the operators give *)

\* What is loaded has its type, and the settings of a valid file.
LEMMA LoadedType ==
    ASSUME Types, NEW path \in {None} \cup Paths \cup Templates, NEW c \in Written,
           path # None => Loads(path, c)
    PROVE  /\ Loaded(path) \in AppType
           /\ Loaded(path).path = path
           /\ c = None \/ c \in ConfType
           /\ Valid(c) => SettingsOf(Loaded(path)) = SettingsOf(c)
<1>1. Defaults \in AppType /\ DefaultConf \in ConfType
  BY DefaultsAssumption DEF Defaults, DefaultConf, AppType, ConfType, Proxies, Faults
<1>2. c = None \/ c \in ConfType
  BY <1>1 DEF Types, Written, ConfType, Faults
<1>3. Read \in AppType /\ Read.path = None
  BY <1>1 DEF Read, Types, AppType, ConfType, Defaults
<1>4. path # None => profile[path] \in UIs
  <2> HAVE path # None
  <2>1. path \in Templates \cup Paths /\ profile[path] \notin {None, Broken}
    BY DEF Loads
  <2> QED BY <2>1 DEF Types, ProfilesType
<1>5. Loaded(path) \in AppType /\ Loaded(path).path = path
  BY <1>3, <1>4 DEF Loaded, AppType
<1>6. ASSUME Valid(c) PROVE Read.basic = c.basic /\ Read.proxy = c.proxy
  <2>1. CASE conf = None
    BY <1>6, <2>1, DefaultsAssumption DEF Read, Valid, Written, DefaultConf, Defaults
  <2>2. CASE conf # None
    BY <1>6, <2>2, <1>1 DEF Read, Valid, Written, AppType
  <2> QED BY <2>1, <2>2
<1>7. Loaded(path).basic = Read.basic /\ Loaded(path).proxy = Read.proxy
  BY <1>3 DEF Loaded, AppType
<1> QED BY <1>2, <1>5, <1>6, <1>7 DEF SettingsOf

\* Knowing a profile keeps the type and leaves what is said of the others.
LEMMA KnowingMore ==
    ASSUME Types, NEW a \in AppType
    PROVE  /\ Knowing(a) \in Known
           /\ a.ui \in Range(Knowing(a))
           /\ Knowing(a)[a.path] = a.ui
           /\ \A x \in ({None} \cup Templates \cup Paths) \ {a.path} : Knowing(a)[x] = known[x]
BY DEF Types, Known, Knowing, AppType, Range

\* A profile that is saved goes to a file of the user, over another one only
\* if the user agreed.
LEMMA SavedWhere ==
    ASSUME Types, NEW as \in BOOLEAN, NEW o \in SaveProfile(as)
    PROVE  /\ o.to \in Paths /\ o.to # None
           /\ profile[o.to] # None => o.to = app.path \/ o.agrees
           /\ o.agrees \in BOOLEAN
           /\ o.conf = None \/ o.conf \in ConfType
<1>1. \A c \in Written : c = None \/ c \in ConfType
  BY LoadedType
<1>2. /\ o.to \in IF Personal(as) THEN Paths ELSE {app.path}
      /\ o.conf \in Written
      /\ o.agrees = (Personal(as) /\ profile[o.to] # None) /\ o.agrees \in BOOLEAN
  BY DEF SaveProfile
<1>3. Personal(as) \in BOOLEAN
  BY DEF Personal, IsTemplate
<1>4. o.to \in Paths
  BY <1>2 DEF Personal, IsTemplate, Types, AppType
<1> QED BY <1>1, <1>2, <1>3, <1>4, PathsAssumption

LEMMA NotSavedWhere ==
    ASSUME Types, NEW o \in NotSaved
    PROVE  o.to = None /\ ~o.agrees /\ (o.conf = None \/ o.conf \in ConfType)
<1>1. \A c \in Written : c = None \/ c \in ConfType
  BY LoadedType
<1> QED BY <1>1 DEF NotSaved, Types, ConfType

\* The settings of what is in force, and the flags, have their types.
LEMMA OtherTypes ==
    /\ \A a \in AppType : SettingsOf(a) \in SavedType
    /\ \A ui : Changed(ui) \in BOOLEAN
    /\ \A c : Valid(c) \in BOOLEAN
<1>1. \A a \in AppType : SettingsOf(a) \in SavedType
  BY DEF AppType, SavedType, SettingsOf
<1>2. \A ui : Changed(ui) \in BOOLEAN
  BY DEF Changed
<1>3. \A c : Valid(c) \in BOOLEAN
  BY DEF Valid
<1> QED BY <1>1, <1>2, <1>3

\* So has what is known after a profile was saved.
LEMMA SavedTypes ==
    ASSUME Types, NEW o, o.to \in Paths, ProfileSaved(o)
    PROVE  profile' \in ProfilesType /\ known' \in Known /\ savedUI' \in UIs /\ dirty' = FALSE
<1>1. app.ui \in UIs
  BY DEF Types, AppType
<1> QED BY <1>1 DEF ProfileSaved, Types, ProfilesType, Known

----------------------------------------------------------------------------
THEOREM InitInv == Init => Inv
<1> SUFFICES ASSUME Init PROVE Inv
  OBVIOUS
<1> USE DefaultsAssumption, PathsAssumption DEF Init
<1>1. Types
  <2>1. conf \in ConfType \cup {None}
    BY DEF ConfType, DefaultConf, Proxies, Faults
  <2>2. app \in AppType /\ saved \in SavedType
    BY DEF AppType, SavedType, Defaults, SettingsOf, Proxies
  <2>3. profile \in ProfilesType
    BY DEF ProfilesType
  <2>4. known \in Known
    BY DEF Known
  <2> QED BY <2>1, <2>2, <2>3, <2>4 DEF Types
<1>2. TemplatesStay
  BY DEF TemplatesStay
<1>3. FlagsAgree /\ ProxyIsStaged /\ SavedMirrorsFile
  BY DEF FlagsAgree, ProxyIsStaged, SavedMirrorsFile
<1> QED BY <1>1, <1>2, <1>3 DEF Inv

----------------------------------------------------------------------------
(* The types *)

LEMMA TypesKept == Types /\ [Next]_vars => Types'
<1> SUFFICES ASSUME Types, [Next]_vars PROVE Types'
  OBVIOUS
<1> USE DefaultsAssumption, PathsAssumption
<1>1. CASE Start
  <2>1. PICK path \in {None} \cup Paths \cup Templates, c \in Written :
             /\ path # None => Loads(path, c)
             /\ conf' = c /\ fresh' = Valid(c)
             /\ app' = Loaded(path)
    BY <1>1 DEF Start
  <2>2. app' \in AppType /\ (conf' \in ConfType \cup {None}) /\ fresh' \in BOOLEAN
    BY <2>1, LoadedType, OtherTypes
  <2>3. known' \in Known
    BY <1>1, <2>2, KnowingMore DEF Start
  <2> QED BY <1>1, <2>2, <2>3, OtherTypes DEF Start, Types
<1>2. CASE Reload
  <2>1. PICK c \in Written :
         /\ conf' = c
         /\ IF Loads(app.path, c)
            THEN /\ app' = Loaded(app.path) /\ known' = Knowing(app')
                 /\ dirty' = FALSE /\ savedUI' = app'.ui
                 /\ saved' = SettingsOf(app') /\ fresh' = Valid(c)
            ELSE UNCHANGED <<app, dirty, savedUI, saved, known>> /\ fresh' = (fresh /\ c = conf)
    BY <1>2 DEF Reload
  <2>2. app.path \in {None} \cup Paths \cup Templates
    BY DEF Types, AppType
  <2>3. conf' \in ConfType \cup {None}
    BY <2>1, LoadedType
  <2>4. CASE Loads(app.path, c)
    <3>1. app' \in AppType /\ fresh' \in BOOLEAN
      BY <2>1, <2>2, <2>4, LoadedType, OtherTypes
    <3>2. known' \in Known
      BY <2>1, <2>4, <3>1, KnowingMore
    <3>3. savedUI' \in UIs /\ saved' \in SavedType /\ dirty' = FALSE
      BY <2>1, <2>4, <3>1, OtherTypes DEF AppType
    <3> QED BY <1>2, <2>3, <3>1, <3>2, <3>3 DEF Reload, Types
  <2>5. CASE ~Loads(app.path, c)
    <3>1. UNCHANGED <<app, dirty, savedUI, saved, known>> /\ fresh' \in BOOLEAN
      BY <2>1, <2>5 DEF Types
    <3> QED BY <1>2, <2>3, <3>1 DEF Reload, Types
  <2> QED BY <2>4, <2>5
<1>3. CASE Quit
  BY <1>3 DEF Quit, ghosts, Types
<1>4. ASSUME NEW as \in BOOLEAN, Save(as) PROVE Types'
  <2>1. PICK o \in SaveProfile(as) \cup NotSaved :
         /\ conf' = o.conf /\ fresh' = (fresh /\ o.conf = conf)
         /\ IF o.to = None
            THEN UNCHANGED <<profile, app, savedUI, dirty, known>>
            ELSE ProfileSaved(o) /\ app' = [app EXCEPT !.path = o.to]
    BY <1>4 DEF Save
  <2>2. (o.to = None \/ o.to \in Paths) /\ (conf' \in ConfType \cup {None})
    BY <2>1, SavedWhere, NotSavedWhere
  <2>3. app' \in AppType
    BY <2>1, <2>2 DEF Types, AppType
  <2>4. /\ profile' \in ProfilesType /\ known' \in Known
        /\ savedUI' \in UIs \cup {None} /\ dirty' \in BOOLEAN
    BY <2>1, <2>2, SavedTypes DEF Types
  <2>5. fresh' \in BOOLEAN
    BY <2>1 DEF Types
  <2> QED BY <1>4, <2>2, <2>3, <2>4, <2>5 DEF Save, Types
<1>5. ASSUME NEW as \in BOOLEAN, SaveEditor(as) PROVE Types'
  <2>1. PICK o \in IF dirty \/ as THEN SaveProfile(as) \cup NotSaved
                   ELSE {[to |-> None, conf |-> conf, agrees |-> FALSE]} : SavedInEditor(as, o)
    BY <1>5 DEF SaveEditor
  <2>2. (o.to = None \/ o.to \in Paths) /\ (o.conf \in ConfType \cup {None})
    <3>1. CASE o \in SaveProfile(as) \cup NotSaved
      BY <3>1, SavedWhere, NotSavedWhere
    <3>2. CASE o = [to |-> None, conf |-> conf, agrees |-> FALSE]
      BY <3>2 DEF Types
    <3> QED BY <2>1, <3>1, <3>2
  <2>3. WithTarget(o) \in AppType
    BY <2>2 DEF WithTarget, Types, AppType
  <2>4. editor \in EditorType
    BY <1>5 DEF SaveEditor, Types
  <2>5. Staged(WithTarget(o)) \in AppType
    BY <2>3, <2>4 DEF Staged, AppType, EditorType
  <2>6. Rewritten(WithTarget(o).basic) \in ConfType
    BY <2>3, <2>4 DEF Rewritten, AppType, EditorType, ConfType, Faults
  <2>7. conf' \in ConfType \cup {None}
    BY <2>1, <2>2, <2>6 DEF SavedInEditor
  <2>8. app' \in AppType
    BY <2>1, <2>3, <2>5 DEF SavedInEditor, Restored
  <2>9. saved' \in SavedType
    BY <2>1, <2>5, OtherTypes DEF SavedInEditor, Types
  <2>10. /\ profile' \in ProfilesType
         /\ known' \in Known
         /\ savedUI' \in UIs \cup {None} /\ dirty' \in BOOLEAN
    BY <2>1, <2>2, SavedTypes DEF SavedInEditor, Types
  <2>11. fresh' \in BOOLEAN /\ (editor' = None \/ editor' = editor)
    BY <2>1 DEF SavedInEditor, Types
  <2> QED BY <1>5, <2>4, <2>7, <2>8, <2>9, <2>10, <2>11
          DEF SaveEditor, Types
<1>6. CASE Open
  <2>1. app \in AppType /\ app.ui \in UIs /\ app.proxy \in Proxies
    BY DEF Types, AppType
  <2>2. dirty' \in BOOLEAN /\ savedUI' \in UIs \cup {None}
    BY <1>6, <2>1 DEF Open, Types
  <2>3. editor' \in EditorType
    BY <1>6, <2>1, <2>2 DEF Open, EditorType
  <2> QED BY <1>6, <2>1, <2>2, <2>3 DEF Open, ghosts, Types
<1>7. CASE Edit
  <2>1. editor \in EditorType
    BY <1>7 DEF Edit, Types
  <2>2. app' \in AppType /\ (editor' = None \/ editor' \in EditorType) /\ dirty' \in BOOLEAN
    BY <1>7, <2>1, OtherTypes DEF Edit, Types, AppType, EditorType
  <2> QED BY <1>7, <2>2 DEF Edit, ghosts, Types
<1>8. CASE Template
  <2>1. PICK t \in Templates, c \in Written :
         /\ conf' = c /\ fresh' = (fresh /\ c = conf)
         /\ IF Loads(t, c)
            THEN /\ app' = [app EXCEPT !.ui = profile[t], !.path = t]
                 /\ known' = Knowing(app')
            ELSE UNCHANGED <<app, known>>
    BY <1>8 DEF Template
  <2>2. conf' \in ConfType \cup {None}
    BY <2>1, LoadedType
  <2>3. app' \in AppType
    <3>1. t \in Templates \cup Paths /\ t # None
      OBVIOUS
    <3>2. Loads(t, c) => profile[t] \in UIs
      BY <3>1 DEF Loads, Types, ProfilesType
    <3> QED BY <2>1, <3>2 DEF Types, AppType
  <2>4. known' \in Known
    BY <2>1, <2>3, KnowingMore DEF Types
  <2>5. dirty' \in BOOLEAN /\ fresh' \in BOOLEAN
    BY <1>8, <2>1, OtherTypes DEF Template, Types
  <2> QED BY <1>8, <2>2, <2>3, <2>4, <2>5 DEF Template, Types
<1>9. CASE Apply
  <2>1. editor \in EditorType
    BY <1>9 DEF Apply, Types
  <2>2. app' \in AppType
    BY <1>9, <2>1 DEF Apply, Types, AppType, EditorType
  <2> QED BY <1>9, <2>2 DEF Apply, ghosts, Types
<1>10. CASE Cancel
  <2>1. editor \in EditorType
    BY <1>10 DEF Cancel, Types
  <2>2. app' \in AppType /\ dirty' \in BOOLEAN
    BY <1>10, <2>1, OtherTypes DEF Cancel, FlagAfterCancel, EditorType
  <2> QED BY <1>10, <2>2 DEF Cancel, ghosts, Types
<1>11. CASE OthersWrite
  <2>1. conf' \in ConfType \cup {None}
    <3>1. OtherConfs \subseteq ConfType \cup {None}
      BY OthersAssumption DEF ConfType, Proxies, Faults
    <3> QED BY <1>11, <3>1 DEF OthersWrite, Types
  <2>2. profile' \in ProfilesType
    BY <1>11 DEF OthersWrite, Types, ProfilesType
  <2>3. fresh' \in BOOLEAN
    BY <1>11 DEF OthersWrite, Types
  <2>4. others' \in Nat
    <3>1. others' = others + 1 /\ others \in Nat
      BY <1>11 DEF OthersWrite, Types
    <3> QED BY <3>1
  <2> QED BY <1>11, <2>1, <2>2, <2>3, <2>4 DEF OthersWrite, memory, Types
<1>12. CASE UNCHANGED vars
  BY <1>12 DEF vars, memory, ghosts, Types
<1> QED
  BY <1>1, <1>2, <1>3, <1>4, <1>5, <1>6, <1>7, <1>8, <1>9, <1>10, <1>11, <1>12 DEF Next

----------------------------------------------------------------------------
(* The templates *)

LEMMA TemplatesKept == Types /\ TemplatesStay /\ [Next]_vars => TemplatesStay'
<1> SUFFICES ASSUME Types, TemplatesStay, [Next]_vars, NEW t \in Templates
             PROVE  profile'[t] = TemplateUI /\ known'[t] \in {None, TemplateUI}
  BY DEF TemplatesStay
<1> USE PathsAssumption
<1>1. profile[t] = TemplateUI /\ known[t] \in {None, TemplateUI}
  BY DEF TemplatesStay
<1>2. \A a \in AppType : a.path \in Templates => profile[a.path] = TemplateUI
  BY DEF TemplatesStay
\* A profile that is loaded is known as what it says.
<1>3. ASSUME NEW a \in AppType, a.path \in Templates => a.ui = TemplateUI
      PROVE  Knowing(a)[t] \in {None, TemplateUI}
  BY <1>1, <1>3, KnowingMore
<1>4. ASSUME NEW path \in {None} \cup Paths \cup Templates, path \in Templates
      PROVE  Loaded(path).ui = TemplateUI
  <2>1. profile[path] = TemplateUI /\ path # None
    BY <1>4 DEF TemplatesStay
  <2>2. Read \in AppType
    BY DefaultsAssumption DEF Read, Types, AppType, ConfType, Defaults, Proxies
  <2> QED BY <2>1, <2>2 DEF Loaded, AppType
\* What is saved goes to a file of the user.
<1>5. ASSUME NEW o, o.to \in Paths, ProfileSaved(o)
      PROVE  profile'[t] = profile[t] /\ known'[t] = known[t]
  BY <1>5 DEF ProfileSaved, Types, ProfilesType, Known
<1>6. CASE Start
  <2>1. PICK path \in {None} \cup Paths \cup Templates, c \in Written :
             /\ path # None => Loads(path, c)
             /\ app' = Loaded(path)
    BY <1>6 DEF Start
  <2>2. app' \in AppType /\ app'.path = path
    BY <2>1, LoadedType
  <2>3. path \in Templates => app'.ui = TemplateUI
    BY <2>1, <1>4
  <2>4. Knowing(app')[t] \in {None, TemplateUI}
    BY <1>3, <2>2, <2>3
  <2> QED BY <1>1, <1>6, <2>4 DEF Start
<1>7. CASE Reload
  <2>1. PICK c \in Written :
         IF Loads(app.path, c)
         THEN app' = Loaded(app.path) /\ known' = Knowing(app')
         ELSE UNCHANGED known
    BY <1>7 DEF Reload
  <2>2. app.path \in {None} \cup Paths \cup Templates
    BY DEF Types, AppType
  <2>3. CASE Loads(app.path, c)
    <3>1. app' \in AppType /\ app'.path = app.path
      BY <2>1, <2>2, <2>3, LoadedType
    <3>2. app.path \in Templates => app'.ui = TemplateUI
      BY <2>1, <2>2, <2>3, <1>4
    <3>3. Knowing(app')[t] \in {None, TemplateUI}
      BY <1>3, <3>1, <3>2
    <3> QED BY <1>1, <1>7, <2>1, <2>3, <3>3 DEF Reload
  <2> QED BY <1>1, <1>7, <2>1, <2>3 DEF Reload
<1>8. ASSUME NEW as \in BOOLEAN, Save(as) PROVE UNCHANGED <<profile, known>> \/ \E o :
                 o.to \in Paths /\ ProfileSaved(o)
  BY <1>8, SavedWhere, NotSavedWhere DEF Save
<1>9. ASSUME NEW as \in BOOLEAN, SaveEditor(as)
      PROVE UNCHANGED <<profile, known>> \/ \E o : o.to \in Paths /\ ProfileSaved(o)
  <2>1. PICK o \in IF dirty \/ as THEN SaveProfile(as) \cup NotSaved
                   ELSE {[to |-> None, conf |-> conf, agrees |-> FALSE]} : SavedInEditor(as, o)
    BY <1>9 DEF SaveEditor
  <2>2. o.to = None \/ o.to \in Paths
    <3>1. CASE o \in SaveProfile(as) \cup NotSaved
      BY <3>1, SavedWhere, NotSavedWhere
    <3>2. CASE o = [to |-> None, conf |-> conf, agrees |-> FALSE]
      BY <3>2
    <3> QED BY <2>1, <3>1, <3>2
  <2> QED BY <2>1, <2>2 DEF SavedInEditor
<1>10. CASE Template
  <2>1. PICK u \in Templates, c \in Written :
         IF Loads(u, c)
         THEN /\ app' = [app EXCEPT !.ui = profile[u], !.path = u]
              /\ known' = Knowing(app')
         ELSE UNCHANGED known
    BY <1>10 DEF Template
  <2>2. CASE Loads(u, c)
    <3>1. app' \in AppType
      BY TypesKept, [Next]_vars DEF Types
    <3>2. app'.ui = TemplateUI
      BY <2>1, <2>2 DEF TemplatesStay, Types, AppType
    <3> QED BY <1>1, <1>3, <1>10, <2>1, <2>2, <3>1, <3>2 DEF Template
  <2> QED BY <1>1, <1>10, <2>1, <2>2 DEF Template
<1>11. CASE OthersWrite
  <2>1. profile'[t] = profile[t]
    BY <1>11 DEF OthersWrite, Types, ProfilesType
  <2> QED BY <1>1, <1>11, <2>1 DEF OthersWrite
<1>12. CASE UNCHANGED <<profile, known>>
  BY <1>1, <1>12
<1> QED
  BY <1>1, <1>5, <1>6, <1>7, <1>8, <1>9, <1>10, <1>11, <1>12
     DEF Next, vars, ghosts, Quit, Open, Edit, Apply, Cancel

----------------------------------------------------------------------------
(* The flags *)

\* What is known and not forgotten is in the range.
LEMMA StillKnown ==
    ASSUME Types, TemplatesStay, NEW a \in AppType, a.path \in Templates => a.ui = TemplateUI,
           NEW v \in Range(known), v # None, a.path \in Templates
    PROVE  v \in Range(Knowing(a))
<1>1. PICK x \in {None} \cup Templates \cup Paths : known[x] = v
  BY DEF Range, Types, Known
<1>2. Knowing(a) \in Known /\ Knowing(a)[a.path] = TemplateUI
  BY KnowingMore
<1>3. CASE x = a.path
  <2>1. v = TemplateUI
    BY <1>1, <1>3 DEF TemplatesStay
  <2> QED BY <1>2, <2>1 DEF Range, Known
<1>4. CASE x # a.path
  <2>1. Knowing(a)[x] = v
    BY <1>1, <1>4, KnowingMore
  <2> QED BY <1>1, <1>2, <2>1 DEF Range, Known
<1> QED BY <1>3, <1>4

\* After a profile was saved nothing is unsaved.
LEMMA NothingUnsaved ==
    ASSUME Types, NEW o, o.to \in Paths, ProfileSaved(o)
    PROVE  savedUI' = app.ui /\ savedUI' # None /\ savedUI' \in Range(known') /\ dirty' = FALSE
<1>1. app.ui \in UIs /\ app.ui # None
  BY PathsAssumption DEF Types, AppType
<1>2. known' \in Known /\ known'[o.to] = app.ui
  BY <1>1 DEF ProfileSaved, Types, Known
<1> QED BY <1>1, <1>2 DEF ProfileSaved, Range, Known

LEMMA FlagsKept == Types /\ TemplatesStay /\ FlagsAgree /\ [Next]_vars => FlagsAgree'
<1> SUFFICES ASSUME Types, TemplatesStay, FlagsAgree, [Next]_vars PROVE FlagsAgree'
  OBVIOUS
<1>1. Types' /\ TemplatesStay'
  BY TypesKept, TemplatesKept
<1>2. app'.ui \in UIs /\ app'.ui # None
  BY <1>1, PathsAssumption DEF Types, AppType
<1>3. CASE Start
  <2>1. app' \in AppType /\ known' = Knowing(app')
    BY <1>1, <1>3 DEF Start, Types
  <2>2. app'.ui \in Range(known')
    BY <2>1, KnowingMore
  <2> QED BY <1>3, <2>2 DEF Start, FlagsAgree
<1>4. CASE Reload
  <2>1. PICK c \in Written :
         IF Loads(app.path, c)
         THEN /\ known' = Knowing(app')
              /\ dirty' = FALSE /\ savedUI' = app'.ui
         ELSE UNCHANGED <<app, dirty, savedUI, saved, known>>
    BY <1>4 DEF Reload
  <2>2. CASE Loads(app.path, c)
    <3>1. app'.ui \in Range(known')
      BY <1>1, <2>1, <2>2, KnowingMore DEF Types
    <3> QED BY <1>2, <1>4, <2>1, <2>2, <3>1 DEF Reload, FlagsAgree
  <2>3. CASE ~Loads(app.path, c)
    BY <1>4, <2>1, <2>3 DEF Reload, FlagsAgree
  <2> QED BY <2>2, <2>3
<1>5. ASSUME NEW as \in BOOLEAN, Save(as) PROVE FlagsAgree'
  <2>1. PICK o \in SaveProfile(as) \cup NotSaved :
         IF o.to = None
         THEN UNCHANGED <<profile, app, savedUI, dirty, known>>
         ELSE ProfileSaved(o) /\ app' = [app EXCEPT !.path = o.to]
    BY <1>5 DEF Save
  <2>2. o.to = None \/ o.to \in Paths
    BY <2>1, SavedWhere, NotSavedWhere
  <2>3. CASE o.to = None
    BY <1>5, <2>1, <2>3 DEF Save, FlagsAgree
  <2>4. CASE o.to # None
    <3>1. app'.ui = app.ui
      BY <2>1, <2>4 DEF Types, AppType
    <3>2. savedUI' = app.ui /\ savedUI' # None /\ savedUI' \in Range(known') /\ dirty' = FALSE
      BY <2>1, <2>2, <2>4, NothingUnsaved
    <3> QED BY <1>5, <3>1, <3>2 DEF Save, FlagsAgree
  <2> QED BY <2>3, <2>4
<1>6. ASSUME NEW as \in BOOLEAN, SaveEditor(as) PROVE FlagsAgree'
  <2>1. PICK o \in IF dirty \/ as THEN SaveProfile(as) \cup NotSaved
                   ELSE {[to |-> None, conf |-> conf, agrees |-> FALSE]} : SavedInEditor(as, o)
    BY <1>6 DEF SaveEditor
  <2>2. o.to = None \/ o.to \in Paths
    <3>1. CASE o \in SaveProfile(as) \cup NotSaved
      BY <3>1, SavedWhere, NotSavedWhere
    <3>2. CASE o = [to |-> None, conf |-> conf, agrees |-> FALSE]
      BY <3>2
    <3> QED BY <2>1, <3>1, <3>2
  <2>3. app'.ui = app.ui /\ (editor' # None => editor # None) /\ running' = running
    <3>1. WithTarget(o) \in AppType /\ WithTarget(o).ui = app.ui
      BY <2>2 DEF WithTarget, Types, AppType
    <3>2. Staged(WithTarget(o)).ui = app.ui
      BY <3>1 DEF Staged, AppType
    <3> QED BY <1>6, <2>1, <3>1, <3>2 DEF SavedInEditor, SaveEditor, Restored
  <2>4. CASE o.to = None
    <3>1. UNCHANGED <<profile, savedUI, dirty, known>>
      BY <2>1, <2>4 DEF SavedInEditor
    <3> QED BY <2>3, <3>1 DEF FlagsAgree
  <2>5. CASE o.to # None
    <3>1. savedUI' = app.ui /\ savedUI' # None /\ savedUI' \in Range(known') /\ dirty' = FALSE
      BY <2>1, <2>2, <2>5, NothingUnsaved DEF SavedInEditor
    <3> QED BY <1>6, <2>3, <3>1 DEF FlagsAgree, SaveEditor
  <2> QED BY <2>4, <2>5
<1>7. CASE Open
  <2>1. savedUI = None => app.ui \in Range(known) /\ ~dirty
    BY <1>7 DEF Open, FlagsAgree
  <2>2. savedUI' # None /\ savedUI' \in Range(known') /\ running'
    BY <1>2, <1>7, <2>1 DEF Open, ghosts, FlagsAgree
  <2>3. dirty' <=> app'.ui # savedUI'
    BY <1>7, <2>1 DEF Open, FlagsAgree
  <2> QED BY <2>2, <2>3 DEF FlagsAgree
<1>8. ASSUME editor # None, savedUI' = savedUI, known' = known, running' = running,
             dirty' = Changed(app'.ui)
      PROVE  FlagsAgree'
  BY <1>8 DEF FlagsAgree, Changed
<1>9. CASE Edit
  BY <1>8, <1>9 DEF Edit, ghosts
<1>10. CASE Template
  <2>1. PICK t \in Templates, c \in Written :
         IF Loads(t, c)
         THEN /\ app' = [app EXCEPT !.ui = profile[t], !.path = t]
              /\ known' = Knowing(app')
         ELSE UNCHANGED <<app, known>>
    BY <1>10 DEF Template
  <2>2. editor # None /\ running /\ savedUI # None /\ savedUI \in Range(known)
    BY <1>10 DEF Template, FlagsAgree
  <2>3. savedUI \in Range(known')
    <3>1. CASE Loads(t, c)
      <4>1. app' \in AppType /\ app'.path = t /\ app'.ui = TemplateUI
        BY <1>1, <2>1, <3>1 DEF TemplatesStay, Types, AppType
      <4> QED BY <2>1, <2>2, <3>1, <4>1, StillKnown
    <3> QED BY <2>1, <2>2, <3>1
  <2> QED BY <1>10, <2>2, <2>3 DEF Template, FlagsAgree, Changed
<1>11. CASE Apply
  <2>1. app'.ui = app.ui
    BY <1>11 DEF Apply, Types, AppType
  <2> QED BY <1>11, <2>1 DEF Apply, ghosts, FlagsAgree
<1>12. CASE Cancel
  BY <1>8, <1>12 DEF Cancel, FlagAfterCancel, ghosts
<1>13. CASE UNCHANGED <<memory, known>>
  BY <1>13 DEF memory, FlagsAgree
<1>14. CASE Quit
  BY <1>14 DEF Quit, FlagsAgree
<1> QED
  BY <1>3, <1>4, <1>5, <1>6, <1>7, <1>9, <1>10, <1>11, <1>12, <1>13, <1>14
     DEF Next, vars, ghosts, OthersWrite

----------------------------------------------------------------------------
(* The staged proxy, and the copy of nav.toml *)

LEMMA ProxyStaysStaged == Types /\ FlagsAgree /\ ProxyIsStaged /\ [Next]_vars => ProxyIsStaged'
<1> SUFFICES ASSUME Types, FlagsAgree, ProxyIsStaged, [Next]_vars, editor' # None
             PROVE  app'.proxy = editor'.before.proxy
  BY DEF ProxyIsStaged
<1>1. ASSUME NEW as \in BOOLEAN, SaveEditor(as) PROVE app'.proxy = editor'.before.proxy
  <2>1. PICK o : SavedInEditor(as, o)
    BY <1>1 DEF SaveEditor
  <2>2. WithTarget(o).proxy = app.proxy
    BY DEF WithTarget, Types, AppType
  <2>3. app' = WithTarget(o) /\ editor' = editor
    BY <2>1 DEF SavedInEditor, Restored
  <2> QED BY <1>1, <2>2, <2>3 DEF SaveEditor, ProxyIsStaged
<1>2. CASE Open
  BY <1>2 DEF Open
<1>3. CASE Edit
  <2>1. editor \in EditorType /\ app.proxy = editor.before.proxy
    BY <1>3 DEF Edit, Types, ProxyIsStaged
  <2>2. app'.proxy = app.proxy /\ editor'.before = editor.before
    BY <1>3, <2>1 DEF Edit, Types, AppType, EditorType
  <2> QED BY <2>1, <2>2
<1>4. CASE Template
  BY <1>4 DEF Template, ProxyIsStaged, Types, AppType
<1>5. CASE UNCHANGED <<app, editor>>
  BY <1>5 DEF ProxyIsStaged
\* Before and after all others there is no editor.
<1>6. Start => editor = None /\ editor' = None
  BY DEF Start, FlagsAgree
<1> QED
  BY <1>1, <1>2, <1>3, <1>4, <1>5, <1>6
     DEF Next, vars, memory, Reload, Quit, Save, Apply, Cancel, OthersWrite

LEMMA SavedStaysMirrored == Types /\ SavedMirrorsFile /\ [Next]_vars => SavedMirrorsFile'
<1> SUFFICES ASSUME Types, SavedMirrorsFile, [Next]_vars, running', fresh'
             PROVE  saved' = SettingsOf(conf')
  BY DEF SavedMirrorsFile
<1>1. CASE Start
  <2>1. PICK path \in {None} \cup Paths \cup Templates, c \in Written :
             /\ path # None => Loads(path, c)
             /\ conf' = c /\ fresh' = Valid(c)
             /\ app' = Loaded(path)
    BY <1>1 DEF Start
  <2>2. Valid(c)
    BY <2>1
  <2>3. SettingsOf(app') = SettingsOf(c)
    BY <2>1, <2>2, LoadedType
  <2> QED BY <1>1, <2>1, <2>3 DEF Start
<1>2. CASE Reload
  <2>1. PICK c \in Written :
         /\ conf' = c
         /\ IF Loads(app.path, c)
            THEN /\ app' = Loaded(app.path)
                 /\ saved' = SettingsOf(app') /\ fresh' = Valid(c)
            ELSE UNCHANGED <<app, dirty, savedUI, saved, known>> /\ fresh' = (fresh /\ c = conf)
    BY <1>2 DEF Reload
  <2>2. app.path \in {None} \cup Paths \cup Templates
    BY DEF Types, AppType
  <2>3. CASE Loads(app.path, c)
    <3>1. Valid(c)
      BY <2>1, <2>3
    <3>2. SettingsOf(app') = SettingsOf(c)
      BY <2>1, <2>2, <2>3, <3>1, LoadedType
    <3> QED BY <2>1, <2>3, <3>2
  <2>4. CASE ~Loads(app.path, c)
    BY <1>2, <2>1, <2>4 DEF Reload, SavedMirrorsFile
  <2> QED BY <2>3, <2>4
<1>3. ASSUME NEW as \in BOOLEAN, Save(as) PROVE saved' = SettingsOf(conf')
  BY <1>3 DEF Save, SavedMirrorsFile
<1>4. ASSUME NEW as \in BOOLEAN, SaveEditor(as) PROVE saved' = SettingsOf(conf')
  <2>1. PICK o : SavedInEditor(as, o)
    BY <1>4 DEF SaveEditor
  <2>2. CASE conf' = Rewritten(WithTarget(o).basic) /\ saved' = SettingsOf(Staged(WithTarget(o)))
    <3>1. WithTarget(o).basic = app.basic /\ Staged(WithTarget(o)) = [WithTarget(o) EXCEPT !.proxy = editor.proxy]
      BY DEF WithTarget, Staged, Types, AppType
    <3>2. WithTarget(o) = app \/ WithTarget(o) = [app EXCEPT !.path = o.to]
      BY DEF WithTarget
    <3>3. Staged(WithTarget(o)).proxy = editor.proxy /\ Staged(WithTarget(o)).basic = app.basic
      BY <3>1, <3>2 DEF Types, AppType
    <3> QED BY <2>2, <3>1, <3>3 DEF Rewritten, SettingsOf
  <2>3. CASE conf' = o.conf /\ fresh' = (fresh /\ o.conf = conf) /\ UNCHANGED saved
    BY <1>4, <2>3 DEF SaveEditor, SavedMirrorsFile
  <2> QED BY <2>1, <2>2, <2>3 DEF SavedInEditor
<1>5. CASE Template
  BY <1>5 DEF Template, SavedMirrorsFile
<1>6. CASE UNCHANGED <<conf, saved, running, fresh>>
  BY <1>6 DEF SavedMirrorsFile
<1>7. CASE OthersWrite
  BY <1>7 DEF OthersWrite, memory, SavedMirrorsFile
<1> QED
  BY <1>1, <1>2, <1>3, <1>4, <1>5, <1>6, <1>7
     DEF Next, vars, memory, ghosts, Quit, Open, Edit, Apply, Cancel

----------------------------------------------------------------------------
THEOREM NextInv == Inv /\ [Next]_vars => Inv'
BY TypesKept, TemplatesKept, FlagsKept, ProxyStaysStaged, SavedStaysMirrored DEF Inv

\* Whatever the user, other programs and failures do, the copies of the
\* settings stay related as Inv says.
THEOREM InvHolds == Spec => []Inv
BY InitInv, NextInv, PTL DEF Spec

\* Every copy of the settings has its type.
THEOREM TypeCorrect == Spec => []TypeOK
<1>1. Inv => TypeOK
  <2> HAVE Inv
  <2>1. Types
    BY DEF Inv
  <2>2. conf = None \/ conf \in ConfType
    BY <2>1 DEF Types
  <2> QED BY <2>1, <2>2 DEF Types, TypeOK, ConfType, AppType, SavedType, ProfilesType
<1> QED BY <1>1, InvHolds, PTL

\* The staged proxy is not in force before Apply or a save that succeeded.
THEOREM NetworkIsStaged == Spec => []ProxyIsStaged
<1>1. Inv => ProxyIsStaged
  BY DEF Inv
<1> QED BY <1>1, InvHolds, PTL

\* What "unsaved" is judged by is what nav.toml says.
THEOREM UnsavedIsJudgedRight == Spec => []SavedMirrorsFile
<1>1. Inv => SavedMirrorsFile
  BY DEF Inv
<1> QED BY <1>1, InvHolds, PTL

----------------------------------------------------------------------------
\* No profile but the one in force is replaced unasked, and no template ever.
WritesOnlyNamed ==
    others' = others =>
      \A p \in DOMAIN profile : profile'[p] # profile[p] =>
         p \in Paths /\ (profile[p] = None \/ p = app.path \/ how' = "agrees")

LEMMA StepWrites == Types /\ [Next]_vars => WritesOnlyNamed
<1> SUFFICES ASSUME Types, [Next]_vars, others' = others,
                    NEW p \in DOMAIN profile, profile'[p] # profile[p]
             PROVE  p \in Paths /\ (profile[p] = None \/ p = app.path \/ how' = "agrees")
  BY DEF WritesOnlyNamed
\* Only a save writes a profile, and only where SavedWhere says.
<1>1. ASSUME NEW as \in BOOLEAN, NEW o \in SaveProfile(as) \cup NotSaved,
             o.to = None => profile' = profile,
             o.to # None => ProfileSaved(o),
             how' = IF o.agrees THEN "agrees" ELSE "silent"
      PROVE  p \in Paths /\ (profile[p] = None \/ p = app.path \/ how' = "agrees")
  <2>1. o.to # None /\ p = o.to
    BY <1>1 DEF ProfileSaved, Types, ProfilesType
  <2>2. o \in SaveProfile(as)
    BY <1>1, <2>1, NotSavedWhere
  <2> QED BY <1>1, <2>1, <2>2, SavedWhere
<1>2. ASSUME NEW as \in BOOLEAN,
                 Save(as) PROVE p \in Paths /\ (profile[p] = None \/ p = app.path \/ how' = "agrees")
  BY <1>1, <1>2 DEF Save
<1>3. ASSUME NEW as \in BOOLEAN, SaveEditor(as)
      PROVE  p \in Paths /\ (profile[p] = None \/ p = app.path \/ how' = "agrees")
  <2>1. PICK o \in IF dirty \/ as THEN SaveProfile(as) \cup NotSaved
                   ELSE {[to |-> None, conf |-> conf, agrees |-> FALSE]} : SavedInEditor(as, o)
    BY <1>3 DEF SaveEditor
  <2>2. CASE o \in SaveProfile(as) \cup NotSaved
    <3>1. /\ o.to = None => profile' = profile
          /\ o.to # None => ProfileSaved(o)
          /\ how' = IF o.agrees THEN "agrees" ELSE "silent"
      BY <2>1 DEF SavedInEditor
    <3> QED BY <1>1, <2>2, <3>1
  <2>3. CASE o = [to |-> None, conf |-> conf, agrees |-> FALSE]
    BY <2>1, <2>3 DEF SavedInEditor
  <2> QED BY <2>1, <2>2, <2>3
<1>4. ~OthersWrite
  BY DEF OthersWrite, Types
<1> QED
  BY <1>2, <1>3, <1>4 DEF Next, vars, Start, Reload, Quit, Open, Edit, Template, Apply, Cancel

\* The program writes no template, and no profile but the one in force unless
\* the user agrees, with any number of profiles.
THEOREM OnlyNamedWritten == Spec => OnlyNamedFilesWritten
<1>1. Inv /\ [Next]_vars => [WritesOnlyNamed]_vars
  BY StepWrites DEF Inv
<1> QED BY <1>1, InvHolds, PTL DEF Spec, OnlyNamedFilesWritten, WritesOnlyNamed

----------------------------------------------------------------------------
\* A silent step replaces nothing that is neither read from a file nor written
\* to one, does not end the program over it, and puts the staged proxy in
\* force when it closes the Preferences.
LosesNothing ==
    running /\ how' = "silent" =>
      /\ app.ui \notin Range(known) => app'.ui = app.ui /\ running'
      /\ SettingsDirty => app'.basic = app.basic /\ running'
      /\ app'.proxy \in {app.proxy, saved'.proxy} \/ editor # None
      /\ editor # None /\ editor' = None => app'.proxy = editor.proxy

\* What is not known from a file counts as unsaved.
LEMMA UnknownIsDirty == FlagsAgree /\ running /\ app.ui \notin Range(known) => dirty
BY DEF FlagsAgree

LEMMA StepLosesNothing == Types /\ FlagsAgree /\ [Next]_vars => LosesNothing
<1> SUFFICES ASSUME Types, FlagsAgree, [Next]_vars, running, how' = "silent"
             PROVE  LosesNothing
  BY DEF LosesNothing
<1>1. CASE Reload
  <2>1. ~dirty /\ ~SettingsDirty
    BY <1>1 DEF Reload, Agreeing
  <2>2. app.ui \in Range(known)
    BY <2>1, UnknownIsDirty
  <2>3. editor = None /\ app'.proxy \in {app.proxy, saved'.proxy}
    BY <1>1 DEF Reload, SettingsOf
  <2> QED BY <2>1, <2>2, <2>3 DEF LosesNothing
<1>2. CASE Quit
  <2>1. ~dirty /\ ~SettingsDirty
    BY <1>2 DEF Quit, Agreeing
  <2>2. app.ui \in Range(known)
    BY <2>1, UnknownIsDirty
  <2> QED BY <1>2, <2>1, <2>2 DEF Quit, LosesNothing
<1>3. ASSUME NEW as \in BOOLEAN, Save(as) PROVE LosesNothing
  <2>1. /\ app'.ui = app.ui /\ app'.basic = app.basic /\ app'.proxy = app.proxy
        /\ editor = None /\ running'
    BY <1>3 DEF Save, Types, AppType
  <2> QED BY <2>1 DEF LosesNothing
<1>4. ASSUME NEW as \in BOOLEAN, SaveEditor(as) PROVE LosesNothing
  <2>1. PICK o : SavedInEditor(as, o)
    BY <1>4 DEF SaveEditor
  <2>2. WithTarget(o).ui = app.ui /\ WithTarget(o).basic = app.basic
    BY DEF WithTarget, Types, AppType
  <2>3. /\ Staged(WithTarget(o)).ui = app.ui /\ Staged(WithTarget(o)).basic = app.basic
        /\ Staged(WithTarget(o)).proxy = editor.proxy
    <3>1. WithTarget(o) = app \/ WithTarget(o) = [app EXCEPT !.path = o.to]
      BY DEF WithTarget
    <3> QED BY <3>1 DEF Staged, Types, AppType
  <2>4. editor # None /\ running'
    BY <1>4 DEF SaveEditor
  <2>5. app' \in {WithTarget(o), Staged(WithTarget(o))}
    BY <2>1 DEF SavedInEditor, Restored
  <2>6. editor' = None => app' = Staged(WithTarget(o))
    BY <2>1, <2>4 DEF SavedInEditor
  <2> QED BY <2>2, <2>3, <2>4, <2>5, <2>6 DEF LosesNothing
<1>5. CASE Template
  <2>1. ~dirty /\ editor # None /\ UNCHANGED <<editor, running>>
    BY <1>5 DEF Template, Agreeing
  <2>2. app.ui \in Range(known)
    BY <2>1, UnknownIsDirty
  <2>3. app'.basic = app.basic
    BY <1>5 DEF Template, Types, AppType
  <2> QED BY <2>1, <2>2, <2>3 DEF LosesNothing
<1>6. CASE Apply
  <2>1. app'.ui = app.ui /\ app'.basic = app.basic /\ app'.proxy = editor.proxy
    BY <1>6 DEF Apply, Types, AppType
  <2> QED BY <1>6, <2>1 DEF Apply, LosesNothing
<1>7. CASE Cancel
  <2>1. /\ app.ui = editor.before.ui /\ SettingsOf(app) = SettingsOf(editor.before)
        /\ editor.proxy = editor.before.proxy
    BY <1>7 DEF Cancel, Agreeing
  <2>2. app.basic = editor.before.basic
    BY <2>1 DEF SettingsOf
  <2> QED BY <1>7, <2>1, <2>2 DEF Cancel, LosesNothing
<1>8. CASE UNCHANGED <<app, running, editor>>
  BY <1>8 DEF LosesNothing
<1>9. CASE Open
  BY <1>9 DEF Open, LosesNothing
<1>10. ~Start /\ ~Edit
  BY DEF Start, Edit
<1> QED
  BY <1>1, <1>2, <1>3, <1>4, <1>5, <1>6, <1>7, <1>8, <1>9, <1>10
     DEF Next, vars, memory, OthersWrite

\* Nothing is lost unless the user edits it or agrees, whatever a half-failed
\* save has changed on the way, with any number of profiles and settings.
THEOREM NothingIsLost == Spec => NothingLostSilently
<1>1. Inv /\ [Next]_vars => [LosesNothing]_vars
  BY StepLosesNothing DEF Inv
<1> QED BY <1>1, InvHolds, PTL DEF Spec, NothingLostSilently, LosesNothing

----------------------------------------------------------------------------
(* The other half of what is kept: repositories and authentication scopes  *)

\* Nothing is known of the lists but what a step does to them: what was loaded
\* is the value of a fold.
Named == Saved!Range(repos) \cup Saved!Range(scopes)

\* A credential the user did not choose for the operation is one that a
\* repository or a rule names, still there, for a root that the resource is in.
\* The dialog may replace that rule; only the user's choice leads on from it.
Vouched ==
    op.state # "asking" /\ op.once = None /\ op.credential # None =>
      \E r \in Named : r.credential = op.credential /\ r.root = op.root
                       /\ Saved!Within(op.url, op.root)

\* What the server refused has been noted as tried, or will be by the dialog.
Counted ==
    refused \ {None} \subseteq
      op.tried \cup (IF op.state = "needed" /\ ~locked THEN {op.credential} ELSE {})

OperationInv ==
    op # None =>
      /\ DOMAIN op = {"url", "once", "state", "tried", "root", "credential"}
      /\ op.url \in Resources
      /\ op.once \in {None, op.url}
      /\ op.state \in {"request", "needed", "asking"}
      /\ Vouched
      /\ Counted

\* What is resolved for a resource is vouched for.
LEMMA ResolvedIsNamed ==
    ASSUME NEW url, Saved!Resolve(url).credential # None
    PROVE  \E r \in Named : /\ r.credential = Saved!Resolve(url).credential
                            /\ r.root = Saved!Resolve(url).root
                            /\ Saved!Within(url, r.root)
<1> DEFINE r == Saved!Longest(repos, url)
           s == Saved!Longest(scopes, url)
<1>1. \A i \in r : repos[i] \in Named /\ Saved!Within(url, repos[i].root)
  BY DEF Named, Saved!Range, Saved!Longest
<1>2. \A i \in s : scopes[i] \in Named /\ Saved!Within(url, scopes[i].root)
  BY DEF Named, Saved!Range, Saved!Longest
<1>3. CASE \E i \in r : repos[i].credential # None
  <2> DEFINE i == CHOOSE i \in r : TRUE
  <2>1. i \in r
    BY <1>3
  <2>2. /\ Saved!Resolve(url).credential = repos[i].credential
        /\ Saved!Resolve(url).root = repos[i].root
    BY <1>3 DEF Saved!Resolve
  <2> QED BY <2>1, <2>2, <1>1
<1>4. CASE ~(\E i \in r : repos[i].credential # None) /\ s # {}
  <2> DEFINE i == CHOOSE i \in s : TRUE
  <2>1. i \in s
    BY <1>4
  <2>2. /\ Saved!Resolve(url).credential = scopes[i].credential
        /\ Saved!Resolve(url).root = scopes[i].root
    BY <1>4 DEF Saved!Resolve
  <2> QED BY <2>1, <2>2, <1>2
<1>5. CASE ~(\E i \in r : repos[i].credential # None) /\ s = {}
  BY <1>5 DEF Saved!Resolve
<1> QED BY <1>3, <1>4, <1>5

\* The retry is with a credential the user chose, for this resource alone, and
\* the user was asked if it had been tried, or went past the question by hand.
LEMMA RetryHolds ==
    ASSUME Saved!ConstantsAssumption, OperationInv, op # None, op.state = "asking",
               UNCHANGED refused,
           NEW picked, NEW c, c # None, NEW root, Saved!Retried(picked, c, root)
    PROVE  /\ OperationInv'
           /\ op' # None => op'.credential = c
           /\ c \in op.tried => agreed' # "no"
           /\ refused \ {None} \subseteq op.tried
<1>0. /\ op' = [op EXCEPT !.credential = c, !.root = root, !.once = op.url,
                          !.state = "request", !.tried = @ \cup {c}]
      /\ c \in op.tried => agreed' # "no"
  BY DEF Saved!Retried, Saved!Bound
<1> DEFINE t == [op EXCEPT !.credential = c, !.root = root, !.once = op.url,
                           !.state = "request", !.tried = @ \cup {c}]
<1>1. /\ DOMAIN t = DOMAIN op
      /\ t.url = op.url /\ t.once = op.url /\ t.state = "request"
      /\ t.tried = op.tried \cup {c} /\ t.credential = c
  BY DEF OperationInv
<1>2. op' = t
  BY <1>0
<1> HIDE DEF t
<1>3. op.url # None
  BY DEF Saved!ConstantsAssumption, OperationInv
<1>4. t.once # None /\ refused \ {None} \subseteq op.tried
  BY <1>1, <1>3 DEF OperationInv, Counted
<1>5. Vouched'
  BY <1>2, <1>4 DEF Vouched
<1>6. Counted'
  BY <1>1, <1>2, <1>4 DEF Counted
<1> QED BY <1>0, <1>1, <1>2, <1>4, <1>5, <1>6 DEF OperationInv

\* What a step does to an operation that goes on, or begins.
LEMMA OperationSteps ==
    ASSUME Saved!ConstantsAssumption, Saved!Next, op' # None
    PROVE  \/ Saved!Open
           \/ Saved!Request
           \/ Saved!Ask
           \/ /\ op # None /\ op.state = "asking" /\ UNCHANGED <<sent, refused>>
              /\ \E picked, c, root : c # None /\ Saved!Retried(picked, c, root)
           \/ /\ UNCHANGED <<op, refused, sent>>
              /\ UNCHANGED <<repos, scopes, locked>> \/ op.state = "asking"
<1>1. ~Saved!NoOperation /\ ~Saved!CancelOperation
  BY DEF Saved!NoOperation, Saved!CancelOperation
<1>2. ~Saved!AddRepository /\ ~Saved!EditRepository /\ ~Saved!RemoveRepository /\ ~Saved!Reload
  BY <1>1 DEF Saved!AddRepository, Saved!EditRepository, Saved!RemoveRepository, Saved!Reload
<1>3. CASE Saved!OthersEdit
  BY <1>3 DEF Saved!OthersEdit, Saved!operation
<1>4. CASE Saved!Unlock \/ Saved!Lock
  BY <1>4 DEF Saved!Unlock, Saved!Lock, Saved!operation, Saved!config
<1>5. CASE Saved!UseOnce
  <2>1. PICK c \in Credentials : Saved!Retried(c, c, op.root)
    BY <1>5 DEF Saved!UseOnce
  <2> QED BY <1>5, <2>1 DEF Saved!UseOnce, Saved!Asking, Saved!ConstantsAssumption
<1>6. CASE Saved!Remember
  <2>1. \/ \E c \in Credentials : \E root : Saved!Retried(c, c, root)
        \/ op' = op
    BY <1>6 DEF Saved!Remember, Saved!DialogStays
  <2> QED BY <1>6, <2>1 DEF Saved!Remember, Saved!Asking, Saved!ConstantsAssumption
<1>7. CASE Saved!AddForRetry
  <2>1. \/ \E picked, c, root : c # None /\ Saved!Retried(picked, c, root)
        \/ op' = op
    BY <1>7 DEF Saved!AddForRetry, Saved!DialogStays
  <2> QED BY <1>7, <2>1 DEF Saved!AddForRetry, Saved!Asking
<1> QED
  BY <1>1, <1>2, <1>3, <1>4, <1>5, <1>6, <1>7 DEF Saved!Next

\* The invariant of an operation is kept.
LEMMA OperationStep ==
    ASSUME Saved!ConstantsAssumption, OperationInv, [Saved!Next]_(Saved!vars)
    PROVE  OperationInv'
<1> SUFFICES ASSUME op' # None
             PROVE  OperationInv'
  BY DEF OperationInv
<1>1. CASE Saved!Open
  <2>1. PICK url \in Resources :
          op' = [url |-> url, once |-> None, state |-> "request", tried |-> {},
                 root |-> Saved!Resolve(url).root,
                 credential |-> Saved!Resolve(url).credential]
    BY <1>1 DEF Saved!Open
  <2>2. UNCHANGED <<repos, scopes, locked>> /\ refused' = {}
    BY <1>1 DEF Saved!Open, Saved!config
  <2>3. Vouched'
    <3>1. Named' = Named
      BY <2>2 DEF Named
    <3>2. op'.credential # None =>
            \E r \in Named : r.credential = op'.credential /\ r.root = op'.root
                             /\ Saved!Within(op'.url, op'.root)
      BY <2>1, ResolvedIsNamed
    <3> QED BY <3>1, <3>2 DEF Vouched, Saved!Within
  <2> QED BY <2>1, <2>2, <2>3 DEF OperationInv, Counted
<1>2. CASE Saved!Request
  <2>1. /\ op # None /\ op.state = "request"
        /\ UNCHANGED <<repos, scopes, locked>>
        /\ op' = [op EXCEPT !.state = "needed"]
        /\ \/ locked /\ op.credential # None /\ refused' = refused
           \/ ~(locked /\ op.credential # None) /\ refused' = refused \cup {op.credential}
    BY <1>2 DEF Saved!Request, Saved!config
  <2>2. /\ DOMAIN op' = DOMAIN op
        /\ op'.url = op.url /\ op'.once = op.once /\ op'.state = "needed"
        /\ op'.tried = op.tried /\ op'.root = op.root /\ op'.credential = op.credential
    BY <2>1 DEF OperationInv
  <2>3. Vouched'
    BY <2>1, <2>2 DEF OperationInv, Vouched, Named, Saved!Within
  <2>4. Counted'
    BY <2>1, <2>2 DEF OperationInv, Counted
  <2> QED BY <2>1, <2>2, <2>3, <2>4 DEF OperationInv
<1>3. CASE Saved!Ask
  <2>1. /\ op # None /\ op.state = "needed"
        /\ UNCHANGED <<repos, scopes, locked, refused>>
        /\ op' = [op EXCEPT !.state = "asking", !.tried = Saved!Noted]
    BY <1>3 DEF Saved!Ask, Saved!config
  <2>2. /\ DOMAIN op' = DOMAIN op
        /\ op'.url = op.url /\ op'.once = op.once /\ op'.state = "asking"
        /\ op'.tried = Saved!Noted /\ op'.root = op.root /\ op'.credential = op.credential
    BY <2>1 DEF OperationInv
  <2>3. Vouched'
    BY <2>1, <2>2 DEF OperationInv, Vouched, Named, Saved!Within
  <2>4. Counted'
    BY <2>1, <2>2 DEF OperationInv, Counted, Saved!Noted
  <2> QED BY <2>1, <2>2, <2>3, <2>4 DEF OperationInv
<1>4. CASE /\ op # None /\ op.state = "asking" /\ UNCHANGED <<sent, refused>>
           /\ \E picked, c, root : c # None /\ Saved!Retried(picked, c, root)
  BY <1>4, RetryHolds
<1>5. CASE /\ UNCHANGED <<op, refused, sent>>
           /\ UNCHANGED <<repos, scopes, locked>> \/ op.state = "asking"
  BY <1>5 DEF OperationInv, Vouched, Counted, Named, Saved!Within
<1>6. CASE UNCHANGED Saved!vars
  <2>1. UNCHANGED <<repos, scopes, op, refused, sent, locked>>
    BY <1>6 DEF Saved!vars, Saved!config, Saved!operation
  <2> QED BY <2>1, <1>5
<1> QED BY <1>1, <1>2, <1>3, <1>4, <1>5, <1>6, OperationSteps

\* The invariant holds from the start, when there is no operation.
LEMMA OperationHolds ==
    ASSUME Saved!ConstantsAssumption
    PROVE  Saved!Spec => []OperationInv
<1>1. Saved!Init => OperationInv
  BY DEF Saved!Init, OperationInv
<1>2. OperationInv /\ [Saved!Next]_(Saved!vars) => OperationInv'
  BY OperationStep
<1> QED BY <1>1, <1>2, PTL DEF Saved!Spec

----------------------------------------------------------------------------
\* What CredentialsStayInScope says of a step.
StaysInScope ==
    \A s \in sent' : s[1] # None /\ sent' # sent =>
      \/ op.once = s[2]
      \/ op.once = None /\ \E r \in Named : r.credential = s[1] /\ Saved!Within(s[2], r.root)

\* However requests are redirected and lists are changed, a credential goes
\* only where it was saved for, or to the one URL the user chose it for: with
\* any URLs, repositories, rules and edits of the file by hand.
THEOREM CredentialsAreScoped == Saved!Spec => CredentialsStayInScope
<1>0. Saved!ConstantsAssumption
  BY PartsAssumption
<1>1. ASSUME OperationInv, Saved!Next
      PROVE  StaysInScope
  <2>1. CASE Saved!Request
    <3>1. CASE UNCHANGED sent
      BY <3>1 DEF StaysInScope
    <3>2. CASE sent' # sent
      <4>1. PICK last \in Resources :
              /\ Saved!Requested(last)
              /\ sent' = {<<op.credential, op.url>>, <<op.credential, last>>}
        BY <2>1, <3>2 DEF Saved!Request
      <4>2. op # None /\ op.state = "request"
        BY <2>1 DEF Saved!Request
      <4>3. CASE op.once = None
        BY <4>1, <4>2, <4>3, <1>1 DEF OperationInv, Vouched, StaysInScope, Saved!Requested
      <4>4. CASE op.once # None
        BY <4>1, <4>2, <4>4, <1>1 DEF OperationInv, StaysInScope, Saved!Requested
      <4> QED BY <4>3, <4>4
    <3> QED BY <3>1, <3>2
  <2>2. CASE sent' = sent \/ sent' = {}
    BY <2>2 DEF StaysInScope
  <2>3. Saved!NoOperation => sent' = {}
    BY DEF Saved!NoOperation
  <2> QED
    BY <1>1, <2>1, <2>2, <2>3
       DEF Saved!Next, Saved!AddRepository, Saved!EditRepository, Saved!RemoveRepository,
           Saved!Reload, Saved!OthersEdit, Saved!Open, Saved!Ask, Saved!Unlock, Saved!Lock,
           Saved!UseOnce, Saved!Remember, Saved!AddForRetry, Saved!CancelOperation,
           Saved!operation
<1>2. OperationInv /\ [Saved!Next]_(Saved!vars) => [StaysInScope]_(Saved!vars)
  BY <1>1
<1> QED
  BY <1>0, <1>2, OperationHolds, PTL
     DEF Saved!Spec, CredentialsStayInScope, Saved!CredentialsStayInScope, StaysInScope, Named

\* What RefusedIsNotRepeated says of a step.
NotRepeated ==
    op # None /\ op' # None /\ op.state # "request" /\ op'.state = "request"
      /\ op'.credential \in refused => agreed' # "no"

\* In one operation nothing the server refused is sent to it again unless the
\* user confirms that in the dialog or picks it in the form of a repository,
\* however often the store is locked and the dialog comes back.
THEOREM RefusalIsRemembered == Saved!Spec => RefusedIsNotRepeated
<1>0. Saved!ConstantsAssumption
  BY PartsAssumption
<1>1. ASSUME OperationInv, Saved!Next, op # None, op' # None, op.state # "request",
             op'.state = "request", op'.credential \in refused
      PROVE  agreed' # "no"
  <2>1. ~Saved!Open /\ ~Saved!Request
    BY <1>1 DEF Saved!Open, Saved!Request
  <2>2. ~Saved!Ask
    <3>1. [op EXCEPT !.state = "asking", !.tried = Saved!Noted].state = "asking"
      BY <1>1 DEF OperationInv
    <3> QED BY <1>1, <3>1 DEF Saved!Ask
  <2>3. op' # op
    BY <1>1
  <2>4. PICK picked, c, root : /\ op.state = "asking" /\ UNCHANGED refused
                               /\ c # None /\ Saved!Retried(picked, c, root)
    BY <1>0, <1>1, <2>1, <2>2, <2>3, OperationSteps
  <2> QED BY <1>0, <1>1, <2>4, RetryHolds
<1>2. OperationInv /\ [Saved!Next]_(Saved!vars) => [NotRepeated]_(Saved!vars)
  BY <1>1 DEF NotRepeated
<1> QED
  BY <1>0, <1>2, OperationHolds, PTL
     DEF Saved!Spec, RefusedIsNotRepeated, Saved!RefusedIsNotRepeated, NotRepeated

----------------------------------------------------------------------------
(* What is saved is what a restart loads                                   *)

\* The lists that can be: no name twice, none over the limits.
Lists ==
    {l \in Seq(Saved!Repository) :
       /\ \A i, j \in DOMAIN l : i # j => l[i].name # l[j].name
       /\ Len(l) <= RepositoryMax}
RuleLists == {l \in Seq(Saved!Scope) : Len(l) <= ScopeMax}

\* The session keeps such lists; a file that was read or written last is of
\* them, and loading it gives the lists of the session.
FileInv ==
    /\ repos \in Lists /\ scopes \in RuleLists
    /\ file = None \/ file \in Saved!RepositoriesFile
    /\ Saved!RestartFindsTheSame

\* Max is the greatest of the indices that a fold from the left looks for.
LEMMA MaxIsGreatest == \A s : Saved!Max(s) = GreatestOf(s)
  BY DEF Saved!Max, GreatestOf

\* The loader and a command add only what keeps a list one that can be.
LEMMA AddedIs ==
    ASSUME Saved!ConstantsAssumption, NEW l \in Lists, NEW r \in Saved!Repository
    PROVE  /\ Saved!Added(l, r) \in Lists
           /\ Saved!Available(l, r.name, 0) /\ Len(l) < RepositoryMax => Append(l, r) \in Lists
           /\ <<>> \in Lists
<1>1. l \in Seq(Saved!Repository) /\ Len(l) \in Nat /\ DOMAIN l = 1 .. Len(l)
      /\ RepositoryMax \in Nat /\ Len(l) <= RepositoryMax
  BY DEF Lists, Saved!ConstantsAssumption
<1>2. ASSUME Saved!Available(l, r.name, 0), Len(l) < RepositoryMax
      PROVE  Append(l, r) \in Lists
  <2> DEFINE m == Append(l, r)
             n == Len(l)
  <2>1. m \in Seq(Saved!Repository) /\ DOMAIN m = 1 .. n + 1 /\ Len(m) = n + 1
        /\ m[n + 1] = r /\ \A i \in 1 .. n : m[i] = l[i]
    BY <1>1
  <2>2. \A i \in 1 .. n : l[i].name # r.name
    BY <1>1, <1>2 DEF Saved!Available
  <2> HIDE DEF m, n
  <2>3. \A i \in 1 .. n + 1 : i \in 1 .. n \/ i = n + 1
    BY <1>1 DEF n
  <2>4. \A i, j \in 1 .. n : i # j => l[i].name # l[j].name
    BY <1>1 DEF Lists, n
  <2>5. \A i, j \in DOMAIN m : i # j => m[i].name # m[j].name
    BY <2>1, <2>2, <2>3, <2>4
  <2>6. Len(m) <= RepositoryMax
    BY <1>1, <1>2, <2>1 DEF n
  <2> QED BY <2>1, <2>5, <2>6 DEF Lists, m
<1>3. Saved!Added(l, r) \in Lists
  BY <1>2 DEF Saved!Added
<1>4. <<>> \in Lists
  BY <1>1 DEF Lists
<1> QED BY <1>2, <1>3, <1>4

\* What load_repositories has after each entry of the file.
LEMMA LoadRuns ==
    ASSUME Saved!ConstantsAssumption, NEW list \in Seq(Saved!Repository)
    PROVE  \E r \in [0 .. Len(list) -> Lists] :
             /\ r[0] = <<>> /\ Saved!FoldLeft(Saved!Added, <<>>, list) = r[Len(list)]
             /\ \A k \in 1 .. Len(list) : r[k] = Saved!Added(r[k - 1], list[k])
<1> DEFINE n == Len(list)
           base == <<>>
           Of(f) == [s \in SUBSET (DOMAIN list) |->
                       IF s = {} THEN <<>>
                           ELSE Saved!Added(f[s \ {Saved!Max(s)}], list[Saved!Max(s)])]
           iter == CHOOSE f : f = Of(f)
           step == [k \in 1 .. n |-> [x \in Lists |-> Saved!Added(x, list[k])]]
           mx == Greatests(n)
<1>1. Saved!FoldLeft(Saved!Added, <<>>, list) = iter[DOMAIN list]
  BY DEF Saved!FoldLeft, Saved!MapThenFoldSet
<1>2. n \in Nat /\ DOMAIN list = 1 .. n /\ \A k \in 1 .. n : list[k] \in Saved!Repository
  OBVIOUS
<1>3. step \in [1 .. n -> [Lists -> Lists]]
  BY <1>2, AddedIs
<1>4. Greatest(mx, n) /\ \A s \in SUBSET (1 .. n) : mx[s] = Saved!Max(s)
  BY <1>2, GreatestsAre, MaxIsGreatest DEF Greatests
<1>5. \A s \in SUBSET (1 .. n) : s # {} => mx[s] \in 1 .. n
  BY <1>4 DEF Greatest
<1>6. \A k \in 1 .. n : \A x \in Lists : step[k][x] = Saved!Added(x, list[k])
  OBVIOUS
<1> HIDE DEF step, mx
<1>7. n \in Nat /\ base \in Lists
  <2>1. CASE n = 0
    BY <2>1 DEF Lists, Saved!ConstantsAssumption
  <2>2. CASE n # 0
    BY <1>2, <2>2 DEF Lists, Saved!ConstantsAssumption
  <2> QED BY <1>2, <2>1, <2>2
<1> HIDE DEF n, base
<1>8. PICK f \in [SUBSET (1 .. n) -> Lists] : Recurs(f, n, Lists, base, step, mx)
  BY <1>3, <1>4, <1>7, FoldDefined
<1>9. f = Of(f)
  <2>1. ASSUME NEW s \in SUBSET (1 .. n), s # {}
        PROVE  f[s] = Saved!Added(f[s \ {Saved!Max(s)}], list[Saved!Max(s)])
    <3>1. f[s \ {Saved!Max(s)}] \in Lists /\ Saved!Max(s) \in 1 .. n
      BY <1>4, <1>5, <2>1
    <3> QED BY <1>4, <1>6, <1>8, <2>1, <3>1 DEF Recurs
  <2>2. f[{}] = <<>>
    BY <1>8 DEF Recurs, base
  <2> QED BY <1>2, <2>1, <2>2
<1>10. iter = Of(iter)
  BY <1>9
<1> HIDE DEF iter
<1>11. Recurs(iter, n, Lists, base, step, mx)
  <2>1. ASSUME NEW s \in SUBSET (1 .. n), s # {}, iter[s \ {mx[s]}] \in Lists
        PROVE  iter[s] = step[mx[s]][iter[s \ {mx[s]}]]
    <3>1. mx[s] = Saved!Max(s) /\ mx[s] \in 1 .. n
      BY <1>4, <1>5, <2>1
    <3>2. iter[s] = Saved!Added(iter[s \ {Saved!Max(s)}], list[Saved!Max(s)])
      BY <1>2, <1>10, <2>1
    <3> QED BY <1>6, <2>1, <3>1, <3>2
  <2>2. iter[{}] = base
    BY <1>10 DEF base
  <2> QED BY <2>1, <2>2 DEF Recurs
<1>12. PICK r \in [0 .. n -> Lists] :
         r[0] = base /\ iter[1 .. n] = r[n] /\ \A k \in 1 .. n : r[k] = step[k][r[k - 1]]
  BY <1>3, <1>4, <1>7, <1>11, FoldRuns
<1>13. \A k \in 1 .. n : r[k] = Saved!Added(r[k - 1], list[k])
  <2> TAKE k \in 1 .. n
  <2>1. r[k - 1] \in Lists
    BY <1>7
  <2> QED BY <1>6, <1>12, <2>1
<1> QED BY <1>1, <1>2, <1>12, <1>13 DEF n, base

\* Whatever the file holds, what is loaded is a list that can be.
LEMMA LoadIs ==
    ASSUME Saved!ConstantsAssumption, NEW f, f = None \/ f \in Saved!RepositoriesFile
    PROVE  Saved!Load(f).repos \in Lists /\ Saved!Load(f).scopes \in RuleLists
           /\ Saved!Load(f) = [repos |-> Saved!Load(f).repos, scopes |-> Saved!Load(f).scopes]
<1>0. ScopeMax \in Nat /\ RepositoryMax \in Nat
  BY DEF Saved!ConstantsAssumption
<1>1. CASE f = None
  BY <1>0, <1>1 DEF Saved!Load, Lists, RuleLists
<1>2. CASE f # None
  <2> DEFINE s == f.scopes
             m == IF Len(s) < ScopeMax THEN Len(s) ELSE ScopeMax
  <2>1. f.repos \in Seq(Saved!Repository) /\ s \in Seq(Saved!Scope) /\ Len(f.repos) \in Nat
    BY <1>2 DEF Saved!RepositoriesFile
  <2>2. Saved!FoldLeft(Saved!Added, <<>>, f.repos) \in Lists
    <3> DEFINE q == f.repos
    <3>1. q \in Seq(Saved!Repository) /\ Len(q) \in Nat
      BY <2>1
    <3> HIDE DEF q
    <3>2. PICK r \in [0 .. Len(q) -> Lists] : Saved!FoldLeft(Saved!Added, <<>>, q) = r[Len(q)]
      BY <3>1, LoadRuns
    <3>3. Saved!FoldLeft(Saved!Added, <<>>, q) \in Lists
      BY <3>1, <3>2
    <3> QED BY <3>3 DEF q
  <2>3. m \in 0 .. Len(s) /\ m <= ScopeMax
    BY <1>0, <2>1
  <2> HIDE DEF m, s
  <2>4. SubSeq(s, 1, m) \in Seq(Saved!Scope) /\ Len(SubSeq(s, 1, m)) = m
    BY <2>1, <2>3
  <2> QED BY <1>2, <2>2, <2>3, <2>4 DEF Saved!Load, RuleLists, s, m
<1> QED BY <1>1, <1>2

\* What the session has is loaded as it was saved.
LEMMA LoadSaved ==
    ASSUME Saved!ConstantsAssumption, NEW list \in Lists, NEW rules \in RuleLists
    PROVE  /\ [repos |-> list, scopes |-> rules] \in Saved!RepositoriesFile
           /\ Saved!Load([repos |-> list, scopes |-> rules]) = [repos |-> list, scopes |-> rules]
<1> DEFINE f == [repos |-> list, scopes |-> rules]
           n == Len(list)
<1>1. /\ list \in Seq(Saved!Repository) /\ n \in Nat /\ DOMAIN list = 1 .. n /\ n <= RepositoryMax
      /\ \A i, j \in 1 .. n : i # j => list[i].name # list[j].name
      /\ RepositoryMax \in Nat /\ \A k \in 1 .. n : list[k] \in Saved!Repository
  BY DEF Lists, Saved!ConstantsAssumption
<1>2. f \in Saved!RepositoriesFile /\ f # None
  BY <1>1 DEF Saved!RepositoriesFile, RuleLists, Saved!ConstantsAssumption
<1>3. Saved!FoldLeft(Saved!Added, <<>>, list) = list
  <2>1. PICK r \in [0 .. n -> Lists] :
          /\ r[0] = <<>> /\ Saved!FoldLeft(Saved!Added, <<>>, list) = r[n]
          /\ \A k \in 1 .. n : r[k] = Saved!Added(r[k - 1], list[k])
    BY <1>1, LoadRuns
  <2> DEFINE G == {k \in 0 .. n : Len(r[k]) = k /\ \A i \in 1 .. k : r[k][i] = list[i]}
  <2>2. 0 \in G
    BY <1>1, <2>1
  <2>3. ASSUME NEW k \in 1 .. n, k - 1 \in G
        PROVE  k \in G
    <3> DEFINE p == r[k - 1]
               x == list[k]
    <3>1. p \in Lists /\ Len(p) = k - 1 /\ (\A i \in 1 .. k - 1 : p[i] = list[i]) /\ k \in Nat
      BY <1>1, <2>3
    <3>2. r[k] = Saved!Added(p, x)
      BY <2>1
    <3>3. p \in Seq(Saved!Repository) /\ x \in Saved!Repository /\ DOMAIN p = 1 .. k - 1
      BY <1>1, <3>1 DEF Lists
    <3>4. k <= n /\ \A i \in 1 .. k - 1 : i \in 1 .. n /\ i # k
      BY <1>1
    <3> HIDE DEF p, x
    <3>5. Saved!Available(p, x.name, 0)
      <4>1. \A i \in 1 .. k - 1 : list[i].name # x.name
        BY <1>1, <3>4 DEF x
      <4> QED BY <3>1, <3>3, <4>1 DEF Saved!Available
    <3>6. r[k] = Append(p, x)
      BY <1>1, <3>1, <3>2, <3>4, <3>5 DEF Saved!Added
    <3> DEFINE a == Append(p, x)
    <3>7. Len(a) = k /\ a[k] = x /\ \A i \in 1 .. k - 1 : a[i] = p[i]
      BY <3>1, <3>3
    <3> HIDE DEF a
    <3>8. \A i \in 1 .. k : i = k \/ i \in 1 .. k - 1
      BY <3>1
    <3>9. \A i \in 1 .. k : a[i] = list[i]
      BY <3>1, <3>7, <3>8 DEF x
    <3> QED BY <3>6, <3>7, <3>9 DEF a
  <2> HIDE DEF G
  <2>4. \A k \in 0 .. n : k \in G
    BY <1>1, <2>2, <2>3, UpTo
  <2>5. n \in G
    BY <1>1, <2>4
  <2>6. Len(r[n]) = n /\ (\A i \in 1 .. n : r[n][i] = list[i]) /\ r[n] \in Seq(Saved!Repository)
    BY <1>1, <2>5 DEF G, Lists
  <2>7. r[n] = list
    BY <1>1, <2>6
  <2> QED BY <2>1, <2>7
<1>4. SubSeq(rules, 1, IF Len(rules) < ScopeMax THEN Len(rules) ELSE ScopeMax) = rules
  <2>1. rules \in Seq(Saved!Scope) /\ Len(rules) \in Nat /\ Len(rules) <= ScopeMax /\ ScopeMax \in Nat
    BY DEF RuleLists, Saved!ConstantsAssumption
  <2>2. (IF Len(rules) < ScopeMax THEN Len(rules) ELSE ScopeMax) = Len(rules)
    BY <2>1
  <2>3. SubSeq(rules, 1, Len(rules)) = rules
    BY <2>1
  <2> QED BY <2>2, <2>3
<1>5. f.repos = list /\ f.scopes = rules
  OBVIOUS
<1> QED BY <1>2, <1>3, <1>4, <1>5 DEF Saved!Load

\* A change of the repositories makes a list that can be, and is saved whole or
\* taken back.
LEMMA ChangeKeeps ==
    ASSUME Saved!ConstantsAssumption, FileInv, NEW new \in Lists, Saved!Change(new),
               UNCHANGED scopes
    PROVE  FileInv'
<1>1. CASE repos' = new /\ Saved!Saved(new, scopes)
  BY <1>1, LoadSaved DEF FileInv, Saved!Saved, Saved!RestartFindsTheSame, Saved!Load
<1>2. CASE repos' = repos /\ Saved!NotSaved
  BY <1>2 DEF FileInv, Saved!NotSaved, Saved!RestartFindsTheSame, Saved!Load
<1> QED BY <1>1, <1>2 DEF Saved!Change

\* Editing an entry keeps a list one that can be, and so does removing one.
LEMMA EditedIs ==
    ASSUME Saved!ConstantsAssumption, NEW l \in Lists, NEW i \in DOMAIN l,
               NEW r \in Saved!Repository,
           Saved!Available(l, r.name, i)
    PROVE  [l EXCEPT ![i] = r] \in Lists
<1> DEFINE m == [l EXCEPT ![i] = r]
<1>1. l \in Seq(Saved!Repository) /\ DOMAIN l = 1 .. Len(l) /\ Len(l) <= RepositoryMax
      /\ \A j, k \in DOMAIN l : j # k => l[j].name # l[k].name
  BY DEF Lists
<1>2. /\ m \in Seq(Saved!Repository) /\ Len(m) = Len(l) /\ DOMAIN m = DOMAIN l
      /\ m[i] = r /\ \A j \in DOMAIN l : j # i => m[j] = l[j]
  BY <1>1
<1>3. \A j \in DOMAIN l : j # i => l[j].name # r.name
  BY DEF Saved!Available
<1> HIDE DEF m
<1>4. \A j, k \in DOMAIN m : j # k => m[j].name # m[k].name
  <2> SUFFICES ASSUME NEW j \in DOMAIN m, NEW k \in DOMAIN m, j # k
               PROVE  m[j].name # m[k].name
    OBVIOUS
  <2>1. CASE j = i
    BY <1>2, <1>3, <2>1
  <2>2. CASE k = i
    BY <1>2, <1>3, <2>2
  <2>3. CASE j # i /\ k # i
    BY <1>1, <1>2, <2>3
  <2> QED BY <2>1, <2>2, <2>3
<1>5. m \in Lists
  BY <1>1, <1>2, <1>4 DEF Lists
<1> QED BY <1>5 DEF m

LEMMA RemovedIs ==
    ASSUME Saved!ConstantsAssumption, NEW l \in Lists, NEW i \in DOMAIN l
    PROVE  Saved!RemoveAt(l, i) \in Lists
<1> DEFINE n == Len(l)
           a == SubSeq(l, 1, i - 1)
           b == SubSeq(l, i + 1, n)
           m == a \o b
           from(k) == IF k < i THEN k ELSE k + 1
<1>1. l \in Seq(Saved!Repository) /\ DOMAIN l = 1 .. n /\ n \in Nat /\ n <= RepositoryMax
      /\ (\A j, k \in 1 .. n : j # k => l[j].name # l[k].name)
      /\ i \in 1 .. n /\ i \in Nat /\ RepositoryMax \in Nat
  BY DEF Lists, Saved!ConstantsAssumption
<1> HIDE DEF n
<1>2. /\ a \in Seq(Saved!Repository) /\ Len(a) = i - 1 /\ \A k \in 1 .. i - 1 : a[k] = l[k]
      /\ b \in Seq(Saved!Repository) /\ Len(b) = n - i /\ \A k \in 1 .. n - i : b[k] = l[i + k]
  <2>1. i - 1 \in 0 .. n /\ i + 1 \in 1 .. n + 1
    BY <1>1
  <2>2. a \in Seq(Saved!Repository) /\ Len(a) = i - 1 /\ \A k \in 1 .. i - 1 : a[k] = l[k]
    BY <1>1, <2>1 DEF n
  <2>3. b \in Seq(Saved!Repository) /\ Len(b) = n - i /\ \A k \in 1 .. n - i : b[k] = l[i + k]
    BY <1>1, <2>1 DEF n
  <2> QED BY <2>2, <2>3
<1> HIDE DEF a, b
<1>3. /\ m \in Seq(Saved!Repository) /\ Len(m) = Len(a) + Len(b)
      /\ \A k \in 1 .. Len(a) + Len(b) : m[k] = IF k <= Len(a) THEN a[k] ELSE b[k - Len(a)]
  BY <1>2, ConcatProperties
<1>4. i - 1 + (n - i) = n - 1 /\ n - 1 \in Nat /\ n - 1 <= RepositoryMax
  BY <1>1
<1>5. Len(m) = n - 1 /\ \A k \in 1 .. n - 1 : m[k] = IF k <= i - 1 THEN a[k] ELSE b[k - (i - 1)]
  BY <1>2, <1>3, <1>4
<1> HIDE DEF m
<1>6. \A k \in 1 .. n - 1 : from(k) \in 1 .. n /\ m[k] = l[from(k)]
  <2> SUFFICES ASSUME NEW k \in 1 .. n - 1
               PROVE  from(k) \in 1 .. n /\ m[k] = l[from(k)]
    OBVIOUS
  <2>1. CASE k <= i - 1
    <3>1. m[k] = a[k] /\ k \in 1 .. i - 1 /\ k < i /\ k \in 1 .. n
      BY <1>1, <1>5, <2>1
    <3> QED BY <1>2, <3>1
  <2>2. CASE ~(k <= i - 1)
    <3>1. k - (i - 1) \in 1 .. n - i /\ i + (k - (i - 1)) = k + 1 /\ ~(k < i) /\ k + 1 \in 1 .. n
      BY <1>1, <2>2
    <3>2. m[k] = b[k - (i - 1)]
      BY <1>5, <2>2
    <3>3. b[k - (i - 1)] = l[i + (k - (i - 1))]
      BY <1>2, <3>1
    <3> QED BY <3>1, <3>2, <3>3
  <2> QED BY <2>1, <2>2
<1>7. \A j, k \in 1 .. n - 1 : j # k => from(j) # from(k)
  BY <1>1
<1> HIDE DEF from
<1>8. \A j, k \in 1 .. n - 1 : j # k => m[j].name # m[k].name
  BY <1>1, <1>6, <1>7
<1>9. m \in Lists
  BY <1>3, <1>4, <1>5, <1>8 DEF Lists
<1> QED BY <1>9 DEF m, a, b, n, Saved!RemoveAt

\* No operation, edit by hand or reload makes the file load to something else
\* without the session knowing.
LEMMA FileInvStep ==
    ASSUME Saved!ConstantsAssumption, FileInv, [Saved!Next]_(Saved!vars)
    PROVE  FileInv'
<1>1. CASE Saved!AddRepository
  <2>1. PICK r \in Saved!Repository : Saved!Available(repos, r.name, 0)
                                      /\ Saved!Change(Append(repos, r))
    BY <1>1 DEF Saved!AddRepository
  <2>2. Append(repos, r) \in Lists /\ UNCHANGED scopes
    BY <1>1, <2>1, AddedIs DEF Saved!AddRepository, FileInv
  <2> QED BY <2>1, <2>2, ChangeKeeps
<1>2. CASE Saved!EditRepository
  <2>1. PICK i \in DOMAIN repos, r \in Saved!Repository :
          Saved!Available(repos, r.name, i) /\ Saved!Change([repos EXCEPT ![i] = r])
    BY <1>2 DEF Saved!EditRepository
  <2>2. [repos EXCEPT ![i] = r] \in Lists /\ UNCHANGED scopes
    BY <1>2, <2>1, EditedIs DEF Saved!EditRepository, FileInv
  <2> QED BY <2>1, <2>2, ChangeKeeps
<1>3. CASE Saved!RemoveRepository
  <2>1. PICK i \in DOMAIN repos : Saved!Change(Saved!RemoveAt(repos, i))
    BY <1>3 DEF Saved!RemoveRepository
  <2>2. Saved!RemoveAt(repos, i) \in Lists /\ UNCHANGED scopes
    BY <1>3, <2>1, RemovedIs DEF Saved!RemoveRepository, FileInv
  <2> QED BY <2>1, <2>2, ChangeKeeps
<1>4. CASE Saved!Reload
  <2>1. PICK read \in BOOLEAN, template \in BOOLEAN :
          LET now == IF read THEN Saved!Load(file) ELSE Saved!Load(None)
          IN /\ scopes' = now.scopes
             /\ repos' = IF template THEN repos ELSE now.repos
             /\ asRead' = (read /\ (template => asRead))
    BY <1>4 DEF Saved!Reload
  <2>2. UNCHANGED file
    BY <1>4 DEF Saved!Reload
  <2> DEFINE now == IF read THEN Saved!Load(file) ELSE Saved!Load(None)
  <2>3. now.repos \in Lists /\ now.scopes \in RuleLists
        /\ now = [repos |-> now.repos, scopes |-> now.scopes]
    BY LoadIs DEF FileInv
  <2>4. repos' \in Lists /\ scopes' \in RuleLists
    BY <2>1, <2>3 DEF FileInv
  <2>5. asRead' => Saved!Load(file) = [repos |-> repos', scopes |-> scopes']
    <3> HAVE asRead'
    <3>1. read /\ (template => asRead)
      BY <2>1
    <3>2. CASE template
      BY <2>1, <2>3, <3>1, <3>2 DEF FileInv, Saved!RestartFindsTheSame
    <3>3. CASE ~template
      BY <2>1, <2>3, <3>1, <3>3
    <3> QED BY <3>2, <3>3
  <2> QED BY <2>2, <2>4, <2>5 DEF FileInv, Saved!RestartFindsTheSame, Saved!Load
<1>5. CASE Saved!OthersEdit
  BY <1>5 DEF Saved!OthersEdit, FileInv, Saved!RestartFindsTheSame, Saved!ConstantsAssumption
<1>6. CASE Saved!Remember
  <2>1. PICK c \in Credentials, root \in {r \in Saved!Roots : Saved!Within(op.url, r)} :
          LET same == {i \in DOMAIN scopes : scopes[i].root = root}
              rule == [root |-> root, credential |-> c]
              new == IF same = {} THEN Append(scopes, rule)
                     ELSE [scopes EXCEPT ![CHOOSE i \in same : \A j \in same : i <= j] = rule]
          IN /\ Len(new) <= ScopeMax
             /\ \/ scopes' = new /\ repos' = repos /\ Saved!Saved(repos, new)
                \/ scopes' = scopes /\ repos' = repos /\ Saved!NotSaved
    BY <1>6 DEF Saved!Remember, Saved!Forgotten
  <2> DEFINE same == {i \in DOMAIN scopes : scopes[i].root = root}
             rule == [root |-> root, credential |-> c]
             at == CHOOSE i \in same : \A j \in same : i <= j
             new == IF same = {} THEN Append(scopes, rule) ELSE [scopes EXCEPT ![at] = rule]
  <2>2. scopes \in Seq(Saved!Scope) /\ rule \in Saved!Scope
    BY DEF FileInv, RuleLists, Saved!Scope
  <2>3. new \in Seq(Saved!Scope)
    <3> HIDE DEF same, at, rule
    <3>1. Append(scopes, rule) \in Seq(Saved!Scope)
      BY <2>2
    <3>2. [scopes EXCEPT ![at] = rule] \in Seq(Saved!Scope)
      <4> DEFINE w == [scopes EXCEPT ![at] = rule]
      <4>1. Len(scopes) \in Nat /\ scopes \in [1 .. Len(scopes) -> Saved!Scope]
        BY <2>2
      <4>2. w \in [1 .. Len(scopes) -> Saved!Scope]
        BY <2>2, <4>1
      <4> HIDE DEF w
      <4>3. w \in Seq(Saved!Scope)
        BY <4>1, <4>2
      <4> QED BY <4>3 DEF w
    <3> QED BY <3>1, <3>2
  <2>4. CASE scopes' = new /\ repos' = repos /\ Saved!Saved(repos, new)
    <3> HIDE DEF new
    <3>1. new \in RuleLists
      BY <2>1, <2>3 DEF RuleLists, new
    <3> QED BY <2>4, <3>1, LoadSaved DEF FileInv, Saved!Saved, Saved!RestartFindsTheSame, Saved!Load
  <2>5. CASE scopes' = scopes /\ Saved!NotSaved /\ repos' = repos
    BY <2>5 DEF FileInv, Saved!NotSaved, Saved!RestartFindsTheSame, Saved!Load
  <2> QED BY <2>1, <2>4, <2>5
<1>7. CASE Saved!AddForRetry
  <2>1. PICK r \in Saved!Repository :
          /\ Saved!Available(repos, r.name, 0)
          /\ \/ repos' = Append(repos, r) /\ scopes' = scopes /\ Saved!Saved(repos', scopes)
             \/ repos' = repos /\ Saved!NotSaved /\ UNCHANGED scopes
    BY <1>7 DEF Saved!AddForRetry
  <2>2. Append(repos, r) \in Lists
    BY <1>7, <2>1, AddedIs DEF Saved!AddForRetry, FileInv
  <2>3. Saved!Change(Append(repos, r)) /\ UNCHANGED scopes
    BY <2>1 DEF Saved!Change, Saved!Saved
  <2> QED BY <2>2, <2>3, ChangeKeeps
<1>8. CASE UNCHANGED <<repos, scopes, file, asRead>>
  BY <1>8 DEF FileInv, Saved!RestartFindsTheSame, Saved!Load
<1>9. Saved!Open \/ Saved!Request \/ Saved!Ask \/ Saved!Unlock \/ Saved!Lock \/ Saved!UseOnce
        \/ Saved!CancelOperation \/ UNCHANGED Saved!vars
      => UNCHANGED <<repos, scopes, file, asRead>>
  BY DEF Saved!Open, Saved!Request, Saved!Ask, Saved!Unlock, Saved!Lock, Saved!UseOnce,
         Saved!CancelOperation, Saved!config, Saved!vars
<1> QED BY <1>1, <1>2, <1>3, <1>4, <1>5, <1>6, <1>7, <1>8, <1>9, Zenon DEF Saved!Next

\* A restart finds the repositories and rules the session has: for any limits,
\* any edits by hand and any order of changes, failed saves and reloads.
THEOREM RestartsFindTheSame == Saved!Spec => []RestartFindsTheSame
<1>0. Saved!ConstantsAssumption
  BY PartsAssumption
<1>1. Saved!Init => FileInv
  <2> SUFFICES ASSUME Saved!Init
               PROVE  FileInv
    OBVIOUS
  <2>1. file = None \/ file \in Saved!RepositoriesFile
    BY <1>0 DEF Saved!Init, Saved!ConstantsAssumption
  <2>2. repos = Saved!Load(file).repos /\ scopes = Saved!Load(file).scopes
    BY DEF Saved!Init
  <2> QED BY <1>0, <2>1, <2>2, LoadIs DEF FileInv, Saved!RestartFindsTheSame
<1>2. FileInv /\ [Saved!Next]_(Saved!vars) => FileInv'
  BY <1>0, FileInvStep
<1>3. FileInv => RestartFindsTheSame
  BY DEF FileInv, RestartFindsTheSame
<1> QED BY <1>1, <1>2, <1>3, PTL DEF Saved!Spec
=============================================================================
