-------------------------------- MODULE Editor --------------------------------
(***************************************************************************)
(* EditorSceneManager and the frame of EditorLayer: the edited scene, the  *)
(* runtime scene that is played in its place, and the transitions between  *)
(* them, whose copying or loading runs as a pool task; composed with the   *)
(* start of the runtime scene's physics.                                   *)
(*                                                                         *)
(* A frame carries out the scene change a script has asked for, advances   *)
(* the transition and then updates the active scene, if no transition is   *)
(* under way.  The user's input comes between two frames.                  *)
(***************************************************************************)
EXTENDS SceneStartup

CONSTANT ConfirmOnSceneClose   \* the setting of that name

ASSUME ConfirmAssumption == ConfirmOnSceneClose \in BOOLEAN

VARIABLES
  edited,      \* there is an m_EditorScene
  runtime,     \* the state of m_RuntimeScene, "none" when there is none
  transition,  \* m_Transition without its future
  job,         \* the future: "none" when invalid
  dirty,       \* m_SceneDirty
  pending,     \* the actions that wait for the popup "Unsaved Changes"
  request,     \* m_PendingSceneTransitionPath is set
  turn         \* where the main thread is in its frame

manager == <<edited, runtime, transition, job>>
asked == <<dirty, pending, request>>
vars == <<manager, asked, turn, startup>>

SceneStates == {"Edit", "Play", "Simulate"}
TransitionStates == {"None", "PlayStarting", "SceneLoading", "Finalizing"}

Transition(state, play, target) ==
  [state |-> state, play |-> play, target |-> target]
NoTransition == Transition("None", FALSE, "Edit")

Init ==
  /\ StartupInit
  /\ edited = FALSE /\ runtime = "none"
  /\ transition = NoTransition /\ job = "none"
  /\ dirty = FALSE /\ pending = {} /\ request = FALSE
  /\ turn = "input"

\* GetSceneState, IsLoading.
SceneState == IF runtime = "none" THEN "Edit" ELSE runtime
IsLoading == transition.state # "None"

-----------------------------------------------------------------------------
(* Helpers of EditorSceneManager.                                          *)

\* What the scene manager does not touch of the runtime scene's world.
UntouchedWorld == UNCHANGED <<asset, world, kept, at, batch>>

DropRuntime == runtime' = "none" /\ OnRuntimeStop(NoLevel)
KeepRuntime == UNCHANGED <<runtime, scene>>

\* Slip: a transition is forgotten and its runtime scene is not.
CancelTransition_Keep ==
  /\ transition' = NoTransition /\ job' = "none"
  /\ KeepRuntime

\* The result of a task that still runs is lost with its future.
CancelTransition ==
  /\ transition' = NoTransition /\ job' = "none"
  /\ IF runtime # "none" /\ IsLoading /\ transition.play
       THEN DropRuntime ELSE KeepRuntime

SetScene == CancelTransition /\ edited' = TRUE

StartSceneLoad ==
  LET play == SceneState = "Play"
  IN /\ transition' = Transition("SceneLoading", play,
                                 IF play THEN "Play" ELSE "Edit")
     /\ job' = "running"
     /\ KeepRuntime /\ UNCHANGED edited

MustAsk == ConfirmOnSceneClose /\ dirty

\* OpenScene with a path.
Open ==
  /\ pending' = IF MustAsk THEN pending \cup {"open"} ELSE pending
  /\ IF MustAsk \/ IsLoading
       THEN UNCHANGED manager /\ UNCHANGED scene
       ELSE StartSceneLoad

\* SetSceneState for Play and Simulate.
StartPlaying(state) ==
  /\ IF ~IsLoading /\ SceneState = "Edit" /\ edited
       THEN /\ transition' = Transition("PlayStarting", TRUE, state)
            /\ job' = "running"
       ELSE UNCHANGED <<transition, job>>
  /\ KeepRuntime /\ UNCHANGED edited

-----------------------------------------------------------------------------
(* The user.  The popup is modal: it leaves only the keyboard's shortcuts, *)
(* which are ignored in Play mode.                                         *)

Input == turn = "input" /\ UNCHANGED <<turn, request>> /\ UntouchedWorld
MenuOpen == pending = {}
Reachable == MenuOpen \/ SceneState # "Play"

NewScene ==
  /\ Input /\ Reachable
  /\ IF MustAsk THEN /\ pending' = pending \cup {"new"}
                     /\ UNCHANGED manager /\ UNCHANGED scene
                ELSE SetScene /\ UNCHANGED pending
  /\ UNCHANGED dirty

\* File > New Project, which does not ask.
NewProject ==
  /\ Input /\ MenuOpen
  /\ SetScene
  /\ UNCHANGED <<dirty, pending>>

OpenScene ==
  /\ Input /\ Reachable
  /\ Open
  /\ UNCHANGED dirty

\* SaveScene; only a scene that has a path loses the mark.
SaveScene ==
  /\ Input /\ Reachable /\ dirty
  /\ dirty' = FALSE
  /\ UNCHANGED <<manager, pending>> /\ UNCHANGED scene

\* The material panel is the only caller of MarkSceneDirty.
MarkSceneDirty ==
  /\ Input /\ MenuOpen /\ ~dirty
  /\ dirty' = TRUE
  /\ UNCHANGED <<manager, pending>> /\ UNCHANGED scene

\* "Save" and "Don't Save" of the popup.
ConfirmPendingAction ==
  /\ Input /\ pending # {}
  /\ dirty' = FALSE
  /\ IF "new" \in pending
       THEN pending' = pending \ {"new"} /\ SetScene
       ELSE /\ pending' = pending \ {"open"}
            /\ IF IsLoading THEN UNCHANGED manager /\ UNCHANGED scene
                            ELSE StartSceneLoad

CancelPendingAction ==
  /\ Input /\ pending # {}
  /\ pending' = {}
  /\ UNCHANGED <<manager, dirty>> /\ UNCHANGED scene

\* The Inspector changes a body of the played scene, which its start has not
\* made yet, into what it is in another level.
EditBody(b, l) ==
  /\ Input /\ MenuOpen /\ starting
  /\ b \in DOMAIN level \cap DOMAIN l /\ shape[b] = "none"
  /\ l[b].auto = level[b].auto /\ l[b] # level[b]
  /\ level' = [level EXCEPT ![b] = l[b]]
  /\ used' = used \cup {<<l[b].model, l[b].kind>>}
  /\ UNCHANGED <<manager, dirty, pending, starting, reset, shape, retried>>

Play(state) ==
  /\ Input /\ MenuOpen
  /\ StartPlaying(state)
  /\ UNCHANGED <<dirty, pending>>

\* SetSceneState(Edit).
Stop ==
  /\ Input /\ MenuOpen
  /\ IF SceneState # "Edit"
       THEN /\ transition' = NoTransition /\ job' = "none"
            /\ DropRuntime
       ELSE CancelTransition
  /\ UNCHANGED <<edited, dirty, pending>>

-----------------------------------------------------------------------------
(* The frame of EditorLayer.                                               *)

BeginUpdate ==
  /\ turn = "input"
  /\ turn' = IF request THEN "request" ELSE "manage"
  /\ UNCHANGED <<manager, asked, startup>>

OpenRequested ==
  /\ turn = "request"
  /\ Open
  /\ turn' = "ensure"
  /\ UNCHANGED <<dirty, request>> /\ UntouchedWorld

\* "Ensure play mode continues after scene load".
EnsurePlay ==
  /\ turn = "ensure"
  /\ StartPlaying("Play")
  /\ request' = FALSE
  /\ turn' = "manage"
  /\ UNCHANGED <<dirty, pending>> /\ UntouchedWorld

EndManage == turn' = IF transition'.state = "None" THEN "scene" ELSE "input"

\* UpdateSceneLoading.  The runtime scene of a running game is replaced here,
\* and starts when the transition is finalized.  What the copied or loaded scene
\* is made of is left open: the edited scene may have been changed meanwhile.
UpdateSceneLoading ==
  \/ /\ job = "running"
     /\ UNCHANGED manager /\ UNCHANGED scene
  \/ /\ job = "failed"
     /\ CancelTransition /\ UNCHANGED edited
  \/ /\ job = "done"
     /\ job' = "none"
     /\ transition' = [transition EXCEPT !.state = "Finalizing"]
     /\ IF transition.play
          THEN /\ runtime' = "Edit"
               /\ \E l \in Levels : OnRuntimeStop(l)
               /\ UNCHANGED edited
          ELSE edited' = TRUE /\ KeepRuntime

\* HasBackgroundWork reads the queue and the counter one after the other, and a
\* load handed from the one to the other in between is missed: while something
\* loads, either answer is possible.
HasBackgroundWork(answer) == answer => \E m \in Models : asset[m] = "Loading"

\* UpdateFinalizing and FinalizeTransition.
UpdateFinalizing ==
  \E busy \in BOOLEAN :
    /\ HasBackgroundWork(busy)
    /\ IF busy THEN UNCHANGED manager /\ UNCHANGED scene
       ELSE /\ transition' = NoTransition
            /\ IF transition.play
                 THEN runtime' = transition.target /\ OnRuntimeStart
                 ELSE KeepRuntime
            /\ UNCHANGED <<edited, job>>

\* EditorSceneManager::OnUpdate.
Manage ==
  /\ turn = "manage"
  /\ CASE transition.state = "None" -> UNCHANGED manager /\ UNCHANGED scene
       [] transition.state = "Finalizing" -> UpdateFinalizing
       [] OTHER -> UpdateSceneLoading
  /\ EndManage
  /\ UNCHANGED asked /\ UntouchedWorld

\* OnUpdateRuntime or OnUpdateSimulation while the scene starts.
UpdateStarting ==
  /\ turn = "scene" /\ (starting \/ at # "idle")
  /\ StartupFrame
  /\ turn' = IF at' = "idle" THEN "input" ELSE "scene"
  /\ UNCHANGED <<manager, asked>>

\* A started scene; in Play mode a script may ask for another one.
UpdateRunning(ask) ==
  /\ turn = "scene" /\ at = "idle" /\ ~starting /\ runtime # "none"
  /\ ask => runtime = "Play"
  /\ request' = (request \/ ask)
  /\ turn' = "input"
  /\ UNCHANGED <<manager, dirty, pending, startup>>

\* OnUpdateEditor resolves the models of the edited scene.
UpdateEdited ==
  /\ turn = "scene" /\ at = "idle" /\ runtime = "none"
  /\ \E l \in Levels :
       asset' = [m \in Models |->
                   IF edited /\ asset[m] = "None" /\ \E b \in DOMAIN l : l[b].model = m
                     THEN "Loading" ELSE asset[m]]
  /\ turn' = "input"
  /\ UNCHANGED <<manager, asked, scene, world, kept, at, batch>>

\* The pool task that copies or loads a scene.
EndJob(result) ==
  /\ job = "running" /\ result \in {"done", "failed"}
  /\ job' = result
  /\ UNCHANGED <<edited, runtime, transition, asked, turn, startup>>

-----------------------------------------------------------------------------
User ==
  \/ NewScene \/ NewProject \/ OpenScene \/ SaveScene \/ MarkSceneDirty
  \/ ConfirmPendingAction \/ CancelPendingAction
  \/ (\E state \in {"Play", "Simulate"} : Play(state)) \/ Stop
  \/ \E b \in Bodies, l \in Levels : EditBody(b, l)

Frame ==
  \/ BeginUpdate \/ OpenRequested \/ EnsurePlay \/ Manage
  \/ UpdateStarting \/ UpdateEdited
  \/ \E ask \in BOOLEAN : UpdateRunning(ask)

Pool ==
  \/ Bakes /\ UNCHANGED <<manager, asked, turn>>
  \/ Loads /\ UNCHANGED <<manager, asked, turn>>

Next == User \/ Frame \/ Pool \/ \E result \in {"done", "failed"} : EndJob(result)

Spec == Init /\ [][Next]_vars

\* Frames follow each other, and the pool's tasks run and end.
Fairness ==
  /\ WF_vars(Frame)
  /\ WF_vars(Bakes /\ UNCHANGED <<manager, asked, turn>>)
  /\ WF_vars(Loads /\ UNCHANGED <<manager, asked, turn>>)
  /\ WF_vars(\E result \in {"done", "failed"} : EndJob(result))

FairSpec == Spec /\ Fairness
-----------------------------------------------------------------------------
TypeOK ==
  /\ StartupTypeOK
  /\ edited \in BOOLEAN /\ runtime \in SceneStates \cup {"none"}
  /\ transition \in [state : TransitionStates, play : BOOLEAN,
                     target : SceneStates]
  /\ job \in {"none", "running", "done", "failed"}
  /\ dirty \in BOOLEAN /\ pending \subseteq {"new", "open"}
  /\ request \in BOOLEAN
  /\ turn \in {"input", "request", "ensure", "manage", "scene"}

\* The auto-save of an Edit frame writes the active scene over the file of the
\* edited one: outside of transitions a runtime scene is therefore never in the
\* Edit state, however playing was started, stopped or cancelled.
RuntimeRuns == ~IsLoading => runtime # "Edit"

\* A body that will never get a shape: it has no model, or one that is without
\* surface or lost.
Hopeless(b) ==
  LET m == level[b].model
  IN \/ m = NoModel
     \/ asset[m] = "Empty"
     \/ /\ asset[m] = "Failed"
        /\ \A c \in DOMAIN level : level[c].auto /\ level[c].model = m =>
             c \in retried \/ Cardinality(retried) >= MaxRetries

\* Every transition ends, and a scene that starts comes to run, unless the user
\* opens another one meanwhile or one of its bodies will never get a shape: such
\* a body keeps it starting.
StartsSettle ==
  /\ IsLoading ~> ~IsLoading
  /\ starting ~> ~starting \/ IsLoading \/ \E b \in Unmade : Hopeless(b)
=============================================================================
