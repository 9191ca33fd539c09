------------------------------ MODULE Settings ------------------------------
(***************************************************************************)
(* The settings of one session of the program and the files they come      *)
(* from: nav.toml, which holds the operational settings, and UI profiles   *)
(* (src/config.c, src/profile.c, src/ui/preferences.c and the commands of  *)
(* src/ui/ui.c).                                                           *)
(*                                                                         *)
(* A value of UIs stands for everything nav_profile_same_ui compares, one  *)
(* of Basics for all operational settings but the proxy.  nav.toml holds   *)
(* no UI values of its own, and what a profile leaves out has its default. *)
(* Another program, an editor say, may change the files between two        *)
(* commands.                                                               *)
(***************************************************************************)
EXTENDS Integers, Functions

CONSTANTS UIs,           \* what a profile can say
          DefaultUI,     \* without any profile
          Basics,        \* operational settings but the proxy
          DefaultBasic,
          Templates,     \* bundled profiles
          TemplateUI,    \* what all of them say
          Paths,         \* files of the user's profile directory
          OtherConfs,    \* what other programs make of nav.toml
          MaxOthers,     \* changes other programs make to the files
          None           \* no such file, no profile, nothing saved, no editor

ASSUME DefaultsAssumption ==
    {DefaultUI, TemplateUI} \subseteq UIs /\ DefaultBasic \in Basics
ASSUME PathsAssumption == Templates \cap Paths = {} /\ None \notin Templates \cup Paths \cup UIs
ASSUME OthersAssumption ==
    /\ OtherConfs \subseteq {None} \cup [basic : Basics, proxy : {"system", "none"},
                                       fault : {"none", "syntax", "proxy", "keys"}]
    /\ MaxOthers \in Nat

VARIABLES
    conf,        \* nav.toml
    profile,     \* the profiles, by path
    app,         \* NavApp.config: what is in force
    dirty,       \* profile_dirty
    savedUI,     \* profile_saved
    saved,       \* settings_saved
    editor,      \* the Preferences: their NavProfileSession and staged proxy
    running,
    others,      \* changes made by others so far
    how,         \* ghost: whether the user edits a value or agrees to lose one
    known,       \* ghost: each profile as this session last read or wrote it
    fresh        \* ghost: nav.toml is as this session last read or wrote it

memory == <<app, dirty, savedUI, saved, editor, running>>
ghosts == <<known, fresh>>
vars == <<conf, profile, others, memory, how, ghosts>>

Proxies == {"system", "none"}

\* How nav.toml may be wrong: it is not TOML, or its proxy mode or its key
\* bindings are not valid.
Faults == {"none", "syntax", "proxy", "keys"}
Broken == "broken"   \* a profile that is not TOML

\* nav_config_write_defaults, nav_config_defaults
DefaultConf == [basic |-> DefaultBasic, proxy |-> "system", fault |-> "none"]
Defaults == [basic |-> DefaultBasic, proxy |-> "system", ui |-> DefaultUI, path |-> None]

\* What nav_settings_same compares.
SettingsOf(a) == [basic |-> a.basic, proxy |-> a.proxy]

SettingsDirty == SettingsOf(app) # saved

\* nav_profile_changed
Changed(ui) == savedUI = None \/ ui # savedUI

----------------------------------------------------------------------------
(* Loading *)

\* load_config: a fault hides what is read after it.
Read == IF conf = None \/ conf.fault \in {"syntax", "proxy"} THEN Defaults
        ELSE [Defaults EXCEPT !.basic = conf.basic, !.proxy = conf.proxy]

\* A missing nav.toml is written, which may fail half-way.
Written == IF conf = None
           THEN {DefaultConf, None, [DefaultConf EXCEPT !.fault = "syntax"]}
           ELSE {conf}

Valid(c) == c # None /\ c.fault = "none"
IsTOML(c) == c # None => c.fault # "syntax"

\* nav_config_load_file: with a profile nav.toml has to be TOML, for the UI
\* values it may hold, and its other faults no longer count.
Loads(path, c) == IF path = None THEN Valid(c)
                  ELSE profile[path] \notin {None, Broken} /\ IsTOML(c)

Loaded(path) == IF path = None THEN Read
                ELSE [Read EXCEPT !.ui = profile[path], !.path = path]

Knowing(a) == [known EXCEPT ![a.path] = a.ui]

\* main: a profile that does not load ends the program, nav.toml alone never.
Start ==
    /\ ~running
    /\ \E path \in {None} \cup Paths \cup Templates, c \in Written :
         /\ path # None => Loads(path, c)
         /\ conf' = c /\ fresh' = Valid(c)
         /\ app' = Loaded(path)
    /\ known' = Knowing(app')
    /\ dirty' = FALSE /\ savedUI' = None /\ saved' = SettingsOf(app')
    /\ running' = TRUE /\ how' = "silent"
    /\ UNCHANGED <<profile, others, editor>>

\* A command that would lose something asks first.
Agreeing(unsaved) == how' = IF unsaved THEN "agrees" ELSE "silent"

\* command_reload_config
Reload ==
    /\ running /\ editor = None
    /\ Agreeing(dirty \/ SettingsDirty)
    /\ \E c \in Written :
         /\ conf' = c
         /\ IF Loads(app.path, c)
            THEN /\ app' = Loaded(app.path) /\ known' = Knowing(app')
                 /\ dirty' = FALSE /\ savedUI' = app'.ui
                 /\ saved' = SettingsOf(app') /\ fresh' = Valid(c)
            ELSE UNCHANGED <<app, dirty, savedUI, saved, known>> /\ fresh' = (fresh /\ c = conf)
    /\ UNCHANGED <<profile, others, editor, running>>

\* NAV_CMD_QUIT, and the request of the console to quit.
Quit ==
    /\ running /\ editor = None
    /\ Agreeing(dirty \/ SettingsDirty)
    /\ running' = FALSE
    /\ UNCHANGED <<conf, profile, others, app, dirty, savedUI, saved, editor, ghosts>>

----------------------------------------------------------------------------
(* Saving *)

\* Mutant: any profile may be written.
NoTemplate(path) == path = None

IsTemplate(path) == path = None \/ path \in Templates

\* nav_profile_save: the file to write, or else the profile in force, is the
\* document that is changed, and has to load.
Changeable(q) ==
    \A s \in {IF profile[q] # None THEN q ELSE app.path} \ {None} : profile[s] \notin {None, Broken}

\* nav_ui_profile_save: where to, under which condition, and what is known
\* then.
Personal(as) == as \/ IsTemplate(app.path)

SaveProfile(as) ==
    {o \in [to : IF Personal(as) THEN Paths ELSE {app.path}, conf : {c \in Written : IsTOML(c)}, agrees : BOOLEAN] :
        Changeable(o.to) /\ o.agrees = (Personal(as) /\ profile[o.to] # None)}

\* The profile is not saved: the user cancels, or a step fails.
NotSaved == {[to |-> None, conf |-> c, agrees |-> FALSE] : c \in Written \cup {conf}}

ProfileSaved(o) ==
    /\ profile' = [profile EXCEPT ![o.to] = app.ui]
    /\ savedUI' = app.ui /\ dirty' = FALSE
    /\ known' = [known EXCEPT ![o.to] = app.ui]

\* Save Profile and Save Profile As of the menu.
Save(as) ==
    /\ running /\ editor = None
    /\ \E o \in SaveProfile(as) \cup NotSaved :
         /\ conf' = o.conf /\ fresh' = (fresh /\ o.conf = conf)
         /\ how' = IF o.agrees THEN "agrees" ELSE "silent"
         /\ IF o.to = None
            THEN UNCHANGED <<profile, app, savedUI, dirty, known>>
            ELSE ProfileSaved(o) /\ app' = [app EXCEPT !.path = o.to]
    /\ UNCHANGED <<others, saved, editor, running>>

\* nav_config_save_settings writes all settings, a wrong proxy mode included,
\* and loads the result before it replaces nav.toml.
Writable(c) == c # None /\ c.fault \in {"none", "proxy"}

\* Mutant: the file gets the proxy in force, not the staged one.
NotStaged(basic) == [basic |-> basic, proxy |-> app.proxy, fault |-> "none"]

Rewritten(basic) == [basic |-> basic, proxy |-> editor.proxy, fault |-> "none"]

\* Mutant: the staged proxy stays in force when it could not be saved.
NotRestored(a) == [a EXCEPT !.proxy = editor.proxy]

Restored(a) == a

\* What is in force after the profile was saved as o says, and with the
\* staged proxy.
WithTarget(o) == IF o.to = None THEN app ELSE [app EXCEPT !.path = o.to]
Staged(a) == [a EXCEPT !.proxy = editor.proxy]

\* save_editor, when o came of saving the profile: the settings are next, and
\* a failure leaves the editor open.
SavedInEditor(as, o) ==
    LET done == dirty \/ as => o.to # None
        staged == Staged(WithTarget(o))
    IN /\ IF o.to = None THEN UNCHANGED <<profile, savedUI, dirty, known>> ELSE ProfileSaved(o)
       /\ how' = IF o.agrees THEN "agrees" ELSE "silent"
       /\ \/ /\ done /\ SettingsOf(staged) # saved /\ Writable(o.conf)
             /\ conf' = Rewritten(WithTarget(o).basic)
             /\ saved' = SettingsOf(staged) /\ fresh' = TRUE
             /\ app' = staged /\ editor' = None
          \/ /\ conf' = o.conf /\ fresh' = (fresh /\ o.conf = conf)
             /\ UNCHANGED saved
             /\ IF done /\ SettingsOf(staged) = saved
                THEN app' = staged /\ editor' = None
                ELSE app' = (IF done THEN Restored(WithTarget(o)) ELSE WithTarget(o)) /\ UNCHANGED editor

SaveEditor(as) ==
    /\ editor # None
    /\ \E o \in IF dirty \/ as THEN SaveProfile(as) \cup NotSaved
                ELSE {[to |-> None, conf |-> conf, agrees |-> FALSE]} : SavedInEditor(as, o)
    /\ UNCHANGED <<others, running>>

----------------------------------------------------------------------------
(* The Preferences: what they show is in force at once, but for the proxy *)

\* nav_profile_begin
Open ==
    /\ running /\ editor = None
    /\ savedUI' = IF savedUI = None THEN app.ui ELSE savedUI
    /\ dirty' = (savedUI # None /\ dirty)
    /\ editor' = [before |-> app, dirty |-> dirty', proxy |-> app.proxy]
    /\ how' = "silent"
    /\ UNCHANGED <<conf, profile, others, app, saved, running, ghosts>>

Edit ==
    /\ editor # None
    /\ \/ \E ui \in UIs : app' = [app EXCEPT !.ui = ui] /\ UNCHANGED editor
       \/ \E b \in Basics : app' = [app EXCEPT !.basic = b] /\ UNCHANGED editor
       \/ \E p \in Proxies : editor' = [editor EXCEPT !.proxy = p] /\ UNCHANGED app
    /\ dirty' = Changed(app'.ui)
    /\ how' = "edits"
    /\ UNCHANGED <<conf, profile, others, savedUI, saved, running, ghosts>>

\* The choice of a template: a profile is loaded, the settings are kept.
Template ==
    /\ editor # None
    /\ Agreeing(dirty)
    /\ \E t \in Templates, c \in Written :
         /\ conf' = c /\ fresh' = (fresh /\ c = conf)
         /\ IF Loads(t, c)
            THEN /\ app' = [app EXCEPT !.ui = profile[t], !.path = t]
                 /\ known' = Knowing(app')
            ELSE UNCHANGED <<app, known>>
    /\ dirty' = Changed(app'.ui)
    /\ UNCHANGED <<profile, others, savedUI, saved, editor, running>>

\* NAV_CMD_PROFILE_APPLY
Apply ==
    /\ editor # None
    /\ app' = [app EXCEPT !.proxy = editor.proxy] /\ editor' = None
    /\ how' = "silent"
    /\ UNCHANGED <<conf, profile, others, dirty, savedUI, saved, running, ghosts>>

\* Mutant: the flag is as it was, although the profile has been saved since.
FlagOfBefore == editor.dirty

FlagAfterCancel == Changed(editor.before.ui)

\* discard_editor, nav_profile_cancel
Cancel ==
    /\ editor # None
    /\ LET b == editor.before
       IN Agreeing(app.ui # b.ui \/ SettingsOf(app) # SettingsOf(b) \/ editor.proxy # b.proxy)
    /\ app' = editor.before /\ dirty' = FlagAfterCancel /\ editor' = None
    /\ UNCHANGED <<conf, profile, others, savedUI, saved, running, ghosts>>

----------------------------------------------------------------------------
\* Another program writes or removes a file.
OthersWrite ==
    /\ others < MaxOthers /\ others' = others + 1
    /\ \/ /\ conf' \in OtherConfs
          /\ fresh' = FALSE /\ UNCHANGED profile
       \/ /\ \E p \in Paths : profile' \in {[profile EXCEPT ![p] = v] : v \in UIs \cup {None, Broken}}
          /\ UNCHANGED <<conf, fresh>>
    /\ how' = "silent"
    /\ UNCHANGED <<memory, known>>

Init ==
    /\ conf \in {None, DefaultConf}
    /\ profile = [p \in Templates \cup Paths |-> IF p \in Templates THEN TemplateUI ELSE None]
    /\ app = Defaults /\ saved = SettingsOf(app)
    /\ dirty = FALSE /\ savedUI = None /\ editor = None /\ running = FALSE
    /\ others = 0 /\ how = "silent" /\ fresh = FALSE
    /\ known = [p \in {None} \cup Templates \cup Paths |-> IF p = None THEN DefaultUI ELSE None]

Next ==
    \/ Start \/ Reload \/ Quit
    \/ \E as \in BOOLEAN : Save(as) \/ SaveEditor(as)
    \/ Open \/ Edit \/ Template \/ Apply \/ Cancel
    \/ OthersWrite

Spec == Init /\ [][Next]_vars

----------------------------------------------------------------------------
(* Properties *)

\* Every step leaves the copies of the settings in a state they can be in.
TypeOK ==
    /\ conf = None \/ conf \in [basic : Basics, proxy : Proxies, fault : Faults]
    /\ profile \in [Templates \cup Paths -> UIs \cup {None, Broken}]
    /\ app \in [basic : Basics, proxy : Proxies, ui : UIs, path : Templates \cup Paths \cup {None}]
    /\ savedUI \in UIs \cup {None} /\ {dirty, running, fresh} \subseteq BOOLEAN
    /\ saved \in [basic : Basics, proxy : Proxies]

\* What is in force and neither read from a file nor written to one is not
\* replaced, and the program not left, unless the user edits it or agrees,
\* whatever a half-failed save has changed on the way.
NothingLostSilently ==
    [][running /\ how' = "silent" =>
         /\ app.ui \notin Range(known) => app'.ui = app.ui /\ running'
         /\ SettingsDirty => app'.basic = app.basic /\ running'
         /\ app'.proxy \in {app.proxy, saved'.proxy} \/ editor # None
         /\ editor # None /\ editor' = None => app'.proxy = editor.proxy]_vars

\* Network is staged: no request goes another way before Apply or a save that
\* succeeded.
ProxyIsStaged == editor # None => app.proxy = editor.before.proxy

\* The program writes no template, and replaces no profile but the one in
\* force unless the user agrees.
OnlyNamedFilesWritten ==
    [][others' = others =>
         \A p \in DOMAIN profile : profile'[p] # profile[p] =>
            p \in Paths /\ (profile[p] = None \/ p = app.path \/ how' = "agrees")]_vars

\* The copy "unsaved" is judged by is what nav.toml says, unless another
\* program has changed that since, or it could not be read.
SavedMirrorsFile == running /\ fresh => saved = SettingsOf(conf)
=============================================================================
