------------------------- MODULE MCPageCommandsProofs -------------------------
(* What the commands of MCPageCommands do to a page, for any page, any bounds  *)
(* and any number of editors, tabs, dialogs and elements. Each part has its    *)
(* own inductive invariant, and a behaviour stays in its part.                 *)
EXTENDS MCPageCommands, FiniteSetTheorems, SequenceTheorems, TLAPS

\* Each module counts by the definition of FiniteSets.
LEMMA SameCount == \A S : /\ Fill!Cardinality(S) = Cardinality(S)
                          /\ Tab!Cardinality(S) = Cardinality(S)
                          /\ Dialog!Cardinality(S) = Cardinality(S)
BY Zenon DEF Fill!Cardinality, Tab!Cardinality, Dialog!Cardinality, Cardinality

\* A behaviour begins in one part, with the initial state of it,
LEMMA PartsBegin == Init =>
    /\ part = "fill" => Fill!Init
    /\ part = "files" => Files!Init
    /\ part = "form" => Form!Init
    /\ part = "scroll" => Scroll!Init
    /\ part = "tab" => Tab!Init
    /\ part = "dialog" => Dialog!Init
    /\ part = "field" => Field!Init
BY DEF Init, FillBegins, FilesBegins, FormBegins, ScrollBegins, TabBegins, DialogBegins, FieldBegins

\* and stays in it: another part does nothing, and this one what its module allows.
LEMMA PartsGoOn == [Next]_vars =>
    /\ part' = part
    /\ part = "fill" => [Fill!Next]_(Fill!vars)
    /\ part = "files" => [Files!Next]_(Files!vars)
    /\ part = "form" => [Form!Next]_(Form!vars)
    /\ part = "scroll" => [Scroll!Next]_(Scroll!vars)
    /\ part = "tab" => [Tab!Next]_(Tab!vars)
    /\ part = "dialog" => [Dialog!Next]_(Dialog!vars)
    /\ part = "field" => [Field!Next]_(Field!vars)
<1>1. CASE UNCHANGED vars
  BY <1>1 DEF vars, Fill!vars, Files!vars, Form!vars, Scroll!vars, Tab!vars, Dialog!vars, Field!vars
<1>2. CASE Next
  BY <1>2 DEF Next, FillSteps, FilesSteps, FormSteps, ScrollSteps, TabSteps, DialogSteps, FieldSteps,
     AloneEditorFill, AloneFileSelection, AloneFormPlan, AloneScrollAction, AloneTabInspection, AloneDialogs,
     AlonePrivateField
<1> QED BY <1>1, <1>2

-----------------------------------------------------------------------------
\* The fill (EditorFill).
\* The record of a fill; None is none of them, and no text.
FillStages == {"scope", "resolve", "activate", "resolve again", "inspect", "viewport", "observe", "fill", "finish"}
Fills == [how : {"ref", "role"}, at : FillStages, target : Editors \cup {None}, version : Nat,
          reached : SUBSET Editors, landed : BOOLEAN, before : Fill!Values \cup {None}, heard : BOOLEAN,
          error : BOOLEAN]
FillConstants ==
    /\ IsFiniteSet(Editors) /\ MaxVersion \in Nat
    /\ None \notin Fills \cup Fill!Values \cup Nat

FillTyped ==
    /\ version \in 0 .. MaxVersion /\ match \subseteq Editors /\ inside \subseteq Editors
    /\ value \in [Editors -> Fill!Values] /\ muted \in BOOLEAN /\ snapshot \in Nat \cup {None}
\* A fill reaches its target only, while it is dispatched, and is heard of it; by
\* its role its target was the only match after the page was activated.
Filling(where) == where \in {"fill", "finish"}
Rechecked(where) == where \in {"inspect", "viewport", "observe", "fill", "finish"}
FillIsSound(fill, only) ==
    /\ fill \in Fills
    /\ fill.at # "resolve" => fill.target \in Editors
    /\ fill.at = "scope" => fill.how = "ref"
    /\ Filling(fill.at) <=> fill.before # None
    /\ ~Filling(fill.at) => fill.reached = {}
    /\ fill.reached \subseteq {fill.target}
    /\ fill.reached # {} => fill.heard \/ muted
    /\ fill.how = "role" /\ Rechecked(fill.at) => fill.target \in only
AnswerIsSound == answer # None =>
    /\ \E e : answer.reached \subseteq {e}
    /\ answer.how = "role" => answer.reached \subseteq answer.unique
    /\ answer.told = "no" => answer.reached = {} \/ muted

FillInv == FillTyped /\ (op # None => FillIsSound(op, unique)) /\ AnswerIsSound

\* unique grows while a target is bound that was the only match.
OnlyMatches ==
    unique' = IF op' = None \/ Fill!At("resolve") \/ Fill!At("activate") THEN {}
              ELSE IF Fill!Cardinality(match') = 1 THEN unique \cup match' ELSE unique

LEMMA FillPlaces ==
    /\ \A where \in {"scope", "resolve", "activate", "inspect", "viewport", "observe", "fill", "finish"} :
          where \in FillStages
    /\ "resolve again" \in FillStages
BY Zenon DEF FillStages
LEMMA NotFilling == ~Filling("resolve again") /\ ~Rechecked("resolve again") /\ "resolve again" # "resolve"
    /\ "resolve again" # "activate"
BY Zenon DEF Filling, Rechecked

LEMMA FillInit == FillConstants /\ Fill!Init => FillInv
BY DEF FillConstants, Fill!Init, FillInv, FillTyped, AnswerIsSound, Fill!Values

\* Two events that leave the fill alone, and its answer.
LEMMA FillWaits ==
    ASSUME FillConstants, FillInv, FillTyped', op' = op, muted' = muted, answer' = answer \/ answer' = None,
           OnlyMatches,
           op # None => op.at # "resolve"
    PROVE  FillInv'
<1>1. AnswerIsSound'
  BY DEF FillInv, AnswerIsSound
<1>2. ASSUME op # None PROVE FillIsSound(op, unique)'
  BY <1>2 DEF FillInv, FillIsSound, OnlyMatches, Fill!At, Rechecked
<1> QED BY <1>1, <1>2 DEF FillInv

LEMMA FillPage == FillConstants /\ FillInv /\ (Fill!Renders \/ Fill!Navigates) /\ OnlyMatches => FillInv'
<1> SUFFICES ASSUME FillConstants, FillInv, Fill!Renders \/ Fill!Navigates, OnlyMatches PROVE FillInv'
  OBVIOUS
<1>1. FillTyped'
  <2>1. CASE Fill!Renders
    BY <2>1 DEF Fill!Renders, FillInv, FillTyped
  <2>2. CASE Fill!Navigates
    BY <2>2 DEF Fill!Navigates, FillInv, FillTyped, Fill!Values, FillConstants
  <2> QED BY <2>1, <2>2
<1>2. op' = op /\ muted' = muted /\ answer' = answer
  BY DEF Fill!Renders, Fill!Navigates
<1>3. AnswerIsSound'
  BY <1>2 DEF FillInv, AnswerIsSound
<1>4. ASSUME op # None PROVE FillIsSound(op, unique)'
  BY <1>2, <1>4 DEF FillInv, FillIsSound, OnlyMatches, Fill!At, Rechecked
<1> QED BY <1>1, <1>2, <1>3, <1>4 DEF FillInv

LEMMA FillBegin ==
    FillConstants /\ FillInv /\ (Fill!TakeSnapshot \/ Fill!BeginRef \/ Fill!BeginRole) /\ OnlyMatches => FillInv'
<1> SUFFICES ASSUME FillConstants, FillInv, Fill!TakeSnapshot \/ Fill!BeginRef \/ Fill!BeginRole, OnlyMatches
    PROVE FillInv'
  OBVIOUS
<1>1. FillTyped' /\ muted' = muted /\ (answer' = answer \/ answer' = None)
  BY DEF Fill!TakeSnapshot, Fill!BeginRef, Fill!BeginRole, FillInv, FillTyped, Fill!Page, FillConstants
<1>2. AnswerIsSound'
  BY <1>1 DEF FillInv, AnswerIsSound
<1>3. ASSUME NEW how \in {"ref", "role"}, NEW where \in {"scope", "resolve"}, NEW e \in Editors \cup {None},
             NEW v \in Nat,
             where # "resolve" => e \in Editors /\ how = "ref", op' = Fill!New(how, where, e, v)
      PROVE  FillIsSound(op, unique)'
  <2>1. where \in FillStages
    BY FillPlaces
  <2>2. op' \in Fills
    BY <1>3, <2>1 DEF Fill!New, Fills
  <2>3. op'.at = where /\ op'.target = e /\ op'.how = how /\ op'.before = None /\ op'.reached = {}
    BY <1>3 DEF Fill!New
  <2> QED BY <2>2, <2>3, <1>3 DEF FillIsSound, Filling, Rechecked
<1>4. CASE Fill!TakeSnapshot
  BY <1>1, <1>2, <1>4 DEF Fill!TakeSnapshot, FillInv
<1>5. CASE Fill!BeginRef
  <2>1. snapshot \in Nat
    BY <1>5 DEF Fill!BeginRef, FillInv, FillTyped
  <2> QED BY <1>1, <1>2, <1>3, <1>5, <2>1 DEF Fill!BeginRef, FillInv
<1>6. CASE Fill!BeginRole
  <2>1. version \in Nat
    BY DEF FillInv, FillTyped, FillConstants
  <2> QED BY <1>1, <1>2, <1>3, <1>6, <2>1 DEF Fill!BeginRole, FillInv
<1> QED BY <1>4, <1>5, <1>6

\* An end before the dispatch has reached nothing.
LEMMA FillRefuses ==
    ASSUME FillConstants, FillInv, op # None, ~Filling(op.at), Fill!Refuses, UNCHANGED Fill!Page
    PROVE  FillInv'
<1>1. FillTyped' /\ op' = None
  BY DEF FillInv, FillTyped, Fill!Refuses, Fill!Ends, Fill!Page
<1>2. answer'.reached = {}
  BY DEF FillInv, FillIsSound, Fill!Refuses, Fill!Ends
<1> QED BY <1>1, <1>2 DEF FillInv, AnswerIsSound

\* A step of a fill before its dispatch.
LEMMA FillGoes ==
    ASSUME FillConstants, FillInv, op # None, OnlyMatches, UNCHANGED Fill!Page, answer' = answer,
           snapshot' \in {snapshot, None}, ~Filling(op.at),
           NEW where \in FillStages, ~Filling(where), where # "resolve", where # "scope",
           NEW e \in Editors, NEW v \in Nat, op' \in Fills,
           op'.at = where, op'.target = e, op'.version = v, op'.how = op.how, op'.before = op.before,
           op'.reached = op.reached, op'.heard = op.heard,
           op.how = "role" /\ Rechecked(where) =>
              op.at \notin {"resolve", "activate"}
                /\ e \in unique \cup (IF Fill!Cardinality(match) = 1 THEN match ELSE {})
    PROVE  FillInv'
<1>1. FillTyped' /\ AnswerIsSound' /\ muted' = muted /\ match' = match
  BY DEF FillInv, FillTyped, AnswerIsSound, Fill!Page
<1>2. op'.before = None /\ op'.reached = {} /\ op' # None
  BY DEF FillInv, FillIsSound, FillConstants
<1>3. op'.how = "role" /\ Rechecked(op'.at) => op'.target \in unique'
  BY <1>1, <1>2 DEF OnlyMatches, Fill!At
<1>4. FillIsSound(op, unique)'
  BY <1>1, <1>2, <1>3 DEF FillIsSound
<1> QED BY <1>1, <1>4 DEF FillInv

\* The target by its role is the only match.
LEMMA FillBound ==
    ASSUME FillConstants, FillInv, Fill!Cardinality(match) = 1
    PROVE  (CHOOSE e \in match : TRUE) \in match /\ match \subseteq Editors
<1>1. IsFiniteSet(match) /\ match \subseteq Editors
  BY FS_Subset DEF FillInv, FillTyped, FillConstants
<1>2. PICK e : match = {e}
  BY <1>1, FS_Singleton, SameCount
<1> QED BY <1>1, <1>2

LEMMA FillResolves ==
    ASSUME FillConstants, FillInv, OnlyMatches, Fill!Resolve \/ Fill!ResolveAgain
    PROVE  FillInv'
<1>1. op # None /\ ~Filling(op.at) /\ UNCHANGED Fill!Page
  <2>1. CASE Fill!Resolve
    BY <2>1, Zenon DEF Fill!Resolve, Fill!At, Filling
  <2>2. CASE Fill!ResolveAgain
    BY <2>2, NotFilling, Zenon DEF Fill!ResolveAgain, Fill!At
  <2> QED BY <2>1, <2>2
<1> DEFINE target == CHOOSE e \in match : TRUE
<1>2. version \in Nat /\ op \in Fills
  BY <1>1 DEF FillInv, FillTyped, FillIsSound, FillConstants
<1>3. ASSUME NEW where \in {"activate", "inspect"}, Fill!Cardinality(match) = 1,
             op' = [[op EXCEPT !.target = target, !.version = version] EXCEPT !.at = where],
             UNCHANGED <<snapshot, answer>>, where = "inspect" => op.at \notin {"resolve", "activate"}
      PROVE  FillInv'
  <2>1. target \in match /\ target \in Editors
    BY <1>3, FillBound
  <2>2. where \in FillStages /\ ~Filling(where) /\ where \notin {"resolve", "scope"}
    BY FillPlaces DEF Filling
  <2> HIDE DEF target
  <2>3. /\ op' \in Fills /\ op'.at = where /\ op'.target = target /\ op'.version = version /\ op'.how = op.how
        /\ op'.before = op.before /\ op'.reached = op.reached /\ op'.heard = op.heard
    BY <1>2, <1>3, <2>1, <2>2 DEF Fills
  <2>4. Rechecked(where) => where = "inspect"
    BY DEF Rechecked
  <2>5. CASE where = "activate"
    BY <1>1, <1>2, <1>3, <2>1, <2>2, <2>3, <2>4, <2>5, FillGoes
  <2>6. CASE where = "inspect"
    BY <1>1, <1>2, <1>3, <2>1, <2>2, <2>3, <2>4, <2>6, FillGoes
  <2> QED BY <2>5, <2>6
<1>4. CASE Fill!Resolve
  BY <1>1, <1>3, <1>4, FillRefuses DEF Fill!Resolve, Fill!Bound
<1>5. CASE Fill!ResolveAgain
  <2>1. op.at \notin {"resolve", "activate"}
    BY <1>5, NotFilling, Zenon DEF Fill!ResolveAgain, Fill!At
  <2>2. Fill!Refuses
          \/ (Fill!Cardinality(match) = 1 /\ op' = [Fill!Rebound EXCEPT !.at = "inspect"]
               /\ UNCHANGED <<snapshot, answer>>)
    BY <1>5, Zenon DEF Fill!ResolveAgain
  <2> QED BY <1>1, <1>3, <2>1, <2>2, FillRefuses DEF Fill!Rebound, Fill!Bound
<1> QED BY <1>4, <1>5

LEMMA FillScope ==
    ASSUME FillConstants, FillInv, OnlyMatches, Fill!Scope
    PROVE  FillInv'
<1>1. op # None /\ op.at = "scope" /\ ~Filling(op.at) /\ UNCHANGED Fill!Page
  BY DEF Fill!Scope, Fill!At, Filling
<1>2. CASE Fill!Refuses
  BY <1>1, <1>2, FillRefuses
<1>3. CASE op.target \in inside /\ Fill!Goes("inspect") /\ snapshot' = None /\ UNCHANGED answer
  <2>1. op \in Fills /\ op.target \in Editors /\ "inspect" \in FillStages /\ ~Filling("inspect") /\ op.how = "ref"
    BY <1>1, FillPlaces DEF FillInv, FillIsSound, Filling
  <2>2. op' = [op EXCEPT !.at = "inspect"]
    BY <1>3 DEF Fill!Goes
  <2>3. /\ op' \in Fills /\ op'.at = "inspect" /\ op'.target = op.target /\ op'.version = op.version
        /\ op'.how = "ref" /\ op'.before = op.before /\ op'.reached = op.reached /\ op'.heard = op.heard
        /\ op.version \in Nat
    BY <2>1, <2>2 DEF Fills
  <2>4. snapshot' \in {snapshot, None} /\ answer' = answer
    BY <1>3
  <2> QED BY <1>1, <2>1, <2>3, <2>4, FillGoes
<1> QED BY <1>2, <1>3 DEF Fill!Scope

\* A check of a target that stays the target.
LEMMA FillPasses ==
    ASSUME FillConstants, FillInv, OnlyMatches, op # None, ~Filling(op.at), op.at # "resolve", UNCHANGED Fill!Page,
           NEW condition, NEW where \in FillStages, ~Filling(where), where # "resolve", where # "scope",
           op.how = "role" /\ Rechecked(where) => Rechecked(op.at),
           Fill!Passes(condition, where)
    PROVE  FillInv'
<1>1. CASE Fill!Refuses
  BY <1>1, FillRefuses
<1>2. CASE Fill!Goes(where) /\ UNCHANGED <<snapshot, answer>>
  <2>1. op \in Fills /\ op.target \in Editors /\ (op.how = "role" /\ Rechecked(op.at) => op.target \in unique)
    BY DEF FillInv, FillIsSound
  <2>2. op' = [op EXCEPT !.at = where]
    BY <1>2 DEF Fill!Goes
  <2>3. /\ op' \in Fills /\ op'.at = where /\ op'.target = op.target /\ op'.version = op.version
        /\ op'.how = op.how /\ op'.before = op.before /\ op'.reached = op.reached /\ op'.heard = op.heard
        /\ op.version \in Nat
    BY <2>1, <2>2 DEF Fills
  <2>4. Rechecked(op.at) => op.at \notin {"resolve", "activate"}
    BY DEF Rechecked
  <2>5. snapshot' \in {snapshot, None} /\ answer' = answer
    BY <1>2
  <2> QED BY <2>1, <2>3, <2>4, <2>5, FillGoes
<1> QED BY <1>1, <1>2 DEF Fill!Passes

LEMMA FillChecks ==
    ASSUME FillConstants, FillInv, OnlyMatches, Fill!InspectFillTarget \/ Fill!Viewport \/ Fill!Activate
    PROVE  FillInv'
<1>1. /\ \A where \in {"viewport", "activate", "observe"} :
            where \in FillStages /\ ~Filling(where) /\ where \notin {"scope", "resolve"}
      /\ ~Rechecked("activate")
  BY FillPlaces DEF Filling, Rechecked
<1>2. CASE Fill!InspectFillTarget
  <2>1. /\ op # None /\ op.at = "inspect" /\ ~Filling(op.at) /\ UNCHANGED Fill!Page
        /\ Fill!Passes(Fill!Alive, "viewport")
    BY <1>2 DEF Fill!InspectFillTarget, Fill!At, Filling
  <2>2. Rechecked(op.at)
    BY <2>1 DEF Rechecked
  <2> QED BY <1>1, <2>1, <2>2, FillPasses
<1>3. CASE Fill!Viewport
  <2>1. op # None /\ op.at = "viewport" /\ ~Filling(op.at) /\ UNCHANGED Fill!Page
    BY <1>3 DEF Fill!Viewport, Fill!At, Filling
  <2>2. Rechecked(op.at)
    BY <2>1 DEF Rechecked
  <2>3. Fill!Passes(Fill!Alive, "activate") \/ Fill!Passes(Fill!Alive, "observe")
    BY <1>3 DEF Fill!Viewport
  <2> QED BY <1>1, <2>1, <2>2, <2>3, FillPasses
<1>4. CASE Fill!Activate
  <2>1. op # None /\ op.at = "activate" /\ ~Filling(op.at) /\ UNCHANGED Fill!Page
    BY <1>4, Zenon DEF Fill!Activate, Fill!At, Filling
  <2>2. CASE op.how = "ref"
    <3>1. Fill!Passes(TRUE, "observe")
      BY <1>4, <2>2, Zenon DEF Fill!Activate
    <3> QED BY <1>1, <2>1, <2>2, <3>1, FillPasses
  <2>3. CASE op.how # "ref"
    <3> DEFINE again == "resolve again"
    <3>1. Fill!Passes(TRUE, again) /\ again \in FillStages /\ ~Filling(again) /\ ~Rechecked(again)
      BY <1>4, <2>3, FillPlaces, NotFilling, Zenon DEF Fill!Activate
    <3>2. again # "resolve" /\ again # "scope"
      BY Zenon
    <3> HIDE DEF again
    <3> QED BY <2>1, <3>1, <3>2, FillPasses
  <2> QED BY <2>2, <2>3
<1> QED BY <1>2, <1>3, <1>4

\* A step of the dispatch, whose target is bound.
LEMMA FillDispatched ==
    ASSUME FillConstants, FillInv, OnlyMatches, op # None, op.at \in {"observe", "fill", "finish"},
           FillTyped', match' = match, muted' = muted, answer' = answer, op' # None,
           op' \in Fills, Filling(op'.at), op'.before # None,
           op'.target = op.target, op'.how = op.how, op'.reached \subseteq {op.target},
           op'.reached # {} => op'.heard \/ muted
    PROVE  FillInv'
<1>1. AnswerIsSound'
  BY DEF FillInv, AnswerIsSound
<1>2. op.target \in Editors /\ Rechecked(op.at) /\ unique \subseteq unique'
  BY DEF FillInv, FillIsSound, OnlyMatches, Fill!At, Rechecked
<1>3. op'.at \in {"fill", "finish"}
  BY DEF Filling
<1>4. op'.how = "role" => op'.target \in unique'
  BY <1>2 DEF FillInv, FillIsSound
<1>5. FillIsSound(op, unique)'
  BY <1>2, <1>3, <1>4 DEF FillIsSound
<1> QED BY <1>1, <1>5 DEF FillInv

LEMMA FillObserves ==
    ASSUME FillConstants, FillInv, OnlyMatches, Fill!Observe
    PROVE  FillInv'
<1>1. op # None /\ op.at = "observe" /\ ~Filling(op.at) /\ UNCHANGED Fill!Page
  BY DEF Fill!Observe, Fill!At, Filling
<1>2. CASE Fill!Refuses
  BY <1>1, <1>2, FillRefuses
<1>3. CASE op' = [op EXCEPT !.at = "fill", !.before = value[op.target]] /\ UNCHANGED <<snapshot, answer>>
  <2>1. op \in Fills /\ op.target \in Editors /\ "fill" \in FillStages /\ op.reached = {}
    BY <1>1, FillPlaces DEF FillInv, FillIsSound
  <2>2. value[op.target] \in Fill!Values /\ value[op.target] # None
    BY <2>1 DEF FillInv, FillTyped, FillConstants
  <2>3. /\ op' \in Fills /\ op'.at = "fill" /\ op'.before # None /\ op'.target = op.target
        /\ op'.how = op.how /\ op'.reached = {}
    BY <1>3, <2>1, <2>2 DEF Fills
  <2>4. Filling(op'.at) /\ op' # None /\ FillTyped' /\ match' = match /\ muted' = muted /\ answer' = answer
    BY <1>1, <1>3, <2>3 DEF Filling, FillConstants, FillInv, FillTyped, Fill!Page
  <2> QED BY <1>1, <2>3, <2>4, FillDispatched
<1> QED BY <1>2, <1>3 DEF Fill!Observe

LEMMA FillLands ==
    ASSUME FillConstants, FillInv, OnlyMatches, Fill!Lands
    PROVE  FillInv'
<1>1. op # None /\ op.at = "fill" /\ UNCHANGED <<version, match, inside, muted, snapshot, answer>>
  BY DEF Fill!Lands, Fill!At
<1>2. op \in Fills /\ op.target \in Editors /\ op.reached \subseteq {op.target} /\ op.before # None
  BY <1>1 DEF FillInv, FillIsSound, Filling
<1>3. PICK v \in {"partial", "asked"} :
        /\ value' = [value EXCEPT ![op.target] = v]
        /\ op' = [op EXCEPT !.landed = @ \/ v = "asked", !.heard = @ \/ ~muted, !.reached = @ \cup {op.target}]
  BY DEF Fill!Lands
<1>4. op.landed \in BOOLEAN /\ op.heard \in BOOLEAN /\ op.reached \cup {op.target} \in SUBSET Editors
  BY <1>2 DEF Fills
<1>5. /\ op' \in Fills /\ op'.at = "fill" /\ op'.before = op.before /\ op'.target = op.target /\ op'.how = op.how
      /\ op'.reached = op.reached \cup {op.target}
  BY <1>1, <1>2, <1>3, <1>4 DEF Fills
<1>6. op'.heard \/ muted
  BY <1>2, <1>3 DEF Fills
<1>7. FillTyped'
  BY <1>1, <1>2, <1>3 DEF FillInv, FillTyped, Fill!Values
<1>8. Filling(op'.at) /\ op' # None
  BY <1>5 DEF Filling, FillConstants
<1> QED BY <1>1, <1>2, <1>5, <1>6, <1>7, <1>8, FillDispatched

LEMMA FillReturns ==
    ASSUME FillConstants, FillInv, OnlyMatches, Fill!Returns
    PROVE  FillInv'
<1>1. op # None /\ op.at = "fill" /\ UNCHANGED <<snapshot, answer, Fill!Page>>
  BY DEF Fill!Returns, Fill!At
<1>2. /\ op \in Fills /\ op.reached \subseteq {op.target} /\ op.before # None
      /\ (op.reached # {} => op.heard \/ muted)
      /\ "finish" \in FillStages
  BY <1>1, FillPlaces DEF FillInv, FillIsSound, Filling
<1>3. PICK error \in BOOLEAN : op' = [op EXCEPT !.at = "finish", !.error = error]
  BY DEF Fill!Returns
<1>4. /\ op' \in Fills /\ op'.at = "finish" /\ op'.before = op.before /\ op'.target = op.target /\ op'.how = op.how
      /\ op'.reached = op.reached /\ op'.heard = op.heard
  BY <1>2, <1>3 DEF Fills
<1>5. Filling(op'.at) /\ op' # None /\ FillTyped' /\ match' = match /\ muted' = muted /\ answer' = answer
  BY <1>1, <1>4 DEF Filling, FillConstants, FillInv, FillTyped, Fill!Page
<1> QED BY <1>1, <1>2, <1>4, <1>5, FillDispatched

\* What is called "no" was not heard, and what is not heard of a page that
\* does not mute its events was not entered.
LEMMA FillFinishes ==
    ASSUME FillConstants, FillInv, Fill!Finish
    PROVE  FillInv'
<1>1. op # None /\ op.at = "finish" /\ UNCHANGED Fill!Page
  BY DEF Fill!Finish, Fill!At
<1>2. /\ op.reached \subseteq {op.target} /\ (op.reached # {} => op.heard \/ muted)
      /\ op.how = "role" => op.target \in unique
  BY <1>1 DEF FillInv, FillIsSound, Rechecked
<1>3. ASSUME NEW kind, NEW said, Fill!Ends(kind, said), said = "no" => ~op.heard
      PROVE  FillInv'
  <2>1. FillTyped' /\ op' = None
    BY <1>1, <1>3 DEF FillInv, FillTyped, Fill!Ends, Fill!Page
  <2>2. answer' = [kind |-> kind, told |-> said, how |-> op.how, reached |-> op.reached, unique |-> unique]
    BY <1>3 DEF Fill!Ends
  <2>3. answer'.told = said /\ answer'.how = op.how /\ answer'.reached = op.reached /\ answer'.unique = unique
    BY <2>2
  <2>4. AnswerIsSound'
    BY <1>1, <1>2, <1>3, <2>3 DEF AnswerIsSound, Fill!Page
  <2> QED BY <2>1, <2>4 DEF FillInv
<1>4. \A matches \in BOOLEAN : Fill!ActionDispatched(matches) = "no" => ~op.heard
  BY DEF Fill!ActionDispatched
<1> QED BY <1>3, <1>4 DEF Fill!Finish

LEMMA FillNext == FillConstants /\ FillInv /\ [Fill!Next]_(Fill!vars) => FillInv'
<1> SUFFICES ASSUME FillConstants, FillInv, [Fill!Next]_(Fill!vars) PROVE FillInv'
  OBVIOUS
<1>1. CASE UNCHANGED Fill!vars
  BY <1>1 DEF Fill!vars, FillInv, FillTyped, AnswerIsSound, FillIsSound
<1>2. CASE Fill!Next
  <2>1. OnlyMatches
    BY <1>2 DEF Fill!Next, OnlyMatches
  <2> QED
    BY <1>2, <2>1, FillPage, FillBegin, FillScope, FillResolves, FillChecks, FillObserves, FillLands,
       FillReturns, FillFinishes DEF Fill!Next
<1> QED BY <1>1, <1>2

LEMMA FillSafe == FillInv => Fill!TypeOK /\ Fill!OneEditor /\ Fill!FalseIsUntouched
<1> SUFFICES ASSUME FillInv PROVE Fill!TypeOK /\ Fill!OneEditor /\ Fill!FalseIsUntouched
  OBVIOUS
<1>1. Fill!TypeOK
  BY DEF FillInv, FillTyped, FillIsSound, Filling, Fill!TypeOK
<1>2. Fill!OneEditor
  <2>1. (\A e : Fill!Cardinality({e}) <= 1) /\ Fill!Cardinality({}) <= 1
    <3>1. \A e : Fill!Cardinality({e}) = 1
      BY FS_Singleton, SameCount
    <3>2. Fill!Cardinality({}) = 0
      BY FS_EmptySet, SameCount
    <3>3. ASSUME NEW e PROVE Fill!Cardinality({e}) <= 1
      <4>1. Fill!Cardinality({e}) = 1
        BY <3>1
      <4> QED BY <4>1
    <3>4. Fill!Cardinality({}) <= 1
      BY <3>2
    <3> QED BY <3>3, <3>4, Zenon
  <2>2. ASSUME NEW S, NEW e, S \subseteq {e} PROVE S = {} \/ S = {e}
    BY <2>2
  <2>3. ASSUME NEW S, NEW e, S \subseteq {e} PROVE Fill!Cardinality(S) <= 1
    BY <2>1, <2>2, <2>3, Zenon
  <2> QED BY <2>3 DEF FillInv, AnswerIsSound, Fill!OneEditor
<1>3. Fill!FalseIsUntouched
  BY DEF FillInv, AnswerIsSound, Fill!FalseIsUntouched
<1> QED BY <1>1, <1>2, <1>3

\* The text of a fill goes into one editor at most, by its role into one that was
\* once the only match, and a fill that is said not to be dispatched entered
\* nothing, whatever the page renders, hides or navigates to meanwhile
\* (fill/index.ts, fill-evidence.ts).
THEOREM FillReachesOneEditor == ASSUME FillConstants PROVE Spec => []FillsOneEditor
<1> DEFINE Inv == part = "fill" => FillInv
<1>1. Init => Inv
  BY FillInit, PartsBegin
<1>2. Inv /\ [Next]_vars => Inv'
  BY FillNext, PartsGoOn
<1>3. Inv => FillsOneEditor
  BY FillSafe DEF FillsOneEditor
<1> QED BY <1>1, <1>2, <1>3, PTL DEF Spec

-----------------------------------------------------------------------------
\* The file selection (FileSelection).
\* The record of a selection; None is none of them, no document and no content.
Contents == {None, "asked", "changed", "other"}
Signals == {"complete", "error", "bar"}
Progresses == {None, "active", "done"}
Unbased == {"check", "files", "input", "complete?"}
Preparing == Unbased \cup {"error?", "bar?", "arm"}
Holding == {"set", "retained", "event"}
Processing == {"progress", "error", "complete", "decide"}
FileStages == Preparing \cup {"dispatch"} \cup Holding \cup Processing
Selections ==
    [at : FileStages, version : Nat, asks : SUBSET {"complete", "error"}, shown : SUBSET Signals,
     absent : SUBSET Signals, seen : SUBSET Signals, bars : [Uploads -> Progresses], armed : BOOLEAN,
     retained : Contents, reached : BOOLEAN, held : SUBSET {"asked", "changed"}]
FileConstants ==
    MaxVersion \in Nat /\ None \notin Selections \cup Nat \cup {"asked", "changed", "other", "active", "done"}

FilePages == [version : 0 .. MaxVersion, bars : [Uploads -> Progresses], marks : SUBSET Uploads, error : BOOLEAN]
FileInputs == [files : Contents, listening : BOOLEAN, fired : BOOLEAN, record : Contents]
FileTyped ==
    /\ page \in FilePages /\ input \in FileInputs
    /\ disk \in {"asked", "changed"} /\ snapshot \in Nat \cup {None} /\ used \in Nat

\* A snapshot that may still be used was not used yet.
SnapshotIsUnused ==
    /\ snapshot # None => snapshot <= page.version /\ used = 0
    /\ used <= 1
    /\ op # None => (op.at \in Preparing <=> snapshot # None)
\* What a command has done is what its stage says,
SelectionIsSound ==
    /\ op \in Selections /\ op.version <= page.version
    /\ op.reached <=> op.at \notin Preparing \cup {"dispatch"}
    /\ op.shown \subseteq op.asks \cup {"bar"}
    /\ ~op.reached => op.held = {} /\ op.retained = None
    /\ op.at \in Preparing => ~op.armed
    /\ op.at \in Processing => op.held = {"asked"}
\* and the input holds the file as it was dispatched, the person's files or none.
Held == {None, disk, "other"}
InputIsSound ==
    /\ op.at = "dispatch" /\ op.armed /\ Files!Alive => input.listening
    /\ op.at \in Holding =>
        /\ op.held = {disk} /\ input.files \in Held /\ op.retained \in Held
        /\ op.armed => input.record \in Held
\* A signal that counts as absent was absent at some moment since the baseline.
QuietIsNoted ==
    /\ "complete" \in op.asks =>
        /\ op.at \notin Unbased /\ "complete" \notin op.shown => "complete" \in quiet
        /\ "complete" \in op.absent => "complete" \in quiet
    /\ op.at \notin Preparing \ {"arm"} /\ "bar" \notin op.shown => "bar" \in quiet
    /\ "bar" \in op.absent => "bar" \in quiet
    /\ \A s \in op.seen : s # "error" => s \in quiet
\* Files that may have reached the document, or may yet, are a risk that is known.
RiskIsKnown ==
    /\ late => risk
    /\ entered => risk \/ (op # None /\ op.at = "set")
AnswerIsSo ==
    /\ Files!ConfirmedIsObserved /\ Files!CompletionIsATransition
    /\ answer # None /\ answer.reached => answer.told # "no"

FileInv ==
    /\ FileTyped /\ SnapshotIsUnused /\ RiskIsKnown /\ AnswerIsSo
    /\ op # None => SelectionIsSound /\ InputIsSound /\ QuietIsNoted

\* The step of the history of what was absent.
Listens ==
    quiet' = IF op' = None THEN {} ELSE (IF op = None THEN {} ELSE quiet) \cup Files!Absent(page')
                 \cup IF page'.version # page.version THEN {"complete", "bar"} ELSE {}
LEMMA QuietGrows ==
    ASSUME Listens, op # None, op' # None
    PROVE  /\ quiet \subseteq quiet' /\ Files!Absent(page') \subseteq quiet'
           /\ page'.version # page.version => {"complete", "bar"} \subseteq quiet'
BY DEF Listens

LEMMA FileInit == FileConstants /\ Files!Init => FileInv
<1> SUFFICES ASSUME FileConstants, Files!Init PROVE FileInv
  OBVIOUS
<1>1. /\ input = Files!NoInput /\ disk = "asked" /\ snapshot = None /\ used = 0 /\ entered = FALSE /\ late = FALSE
      /\ op = None /\ answer = None
  BY DEF Files!Init
<1>2. page \in FilePages
  <2>1. PICK b \in [Uploads -> Progresses], m \in SUBSET Uploads, e \in BOOLEAN :
          page = [version |-> 0, bars |-> b, marks |-> m, error |-> e]
    BY DEF Files!Init, Progresses
  <2>2. 0 \in 0 .. MaxVersion
    BY DEF FileConstants
  <2> QED BY <2>1, <2>2 DEF FilePages
<1>3. input \in FileInputs
  BY <1>1 DEF Files!NoInput, FileInputs, Contents
<1> QED BY <1>1, <1>2, <1>3 DEF FileInv, FileTyped, SnapshotIsUnused, RiskIsKnown, AnswerIsSo,
     Files!ConfirmedIsObserved,
     Files!CompletionIsATransition, Files!Said

\* What the listener keeps of an event is the files of the event, or nothing.
LEMMA FileHeard ==
    ASSUME input \in FileInputs, NEW files \in Contents
    PROVE  /\ Files!Heard(files) \in FileInputs
           /\ Files!Heard(files).files = files /\ Files!Heard(files).listening = input.listening
           /\ Files!Heard(files).record \in {input.record, files}
           /\ input.listening /\ files # None => Files!Heard(files).record = files
<1> DEFINE fired == input.listening \/ input.fired
           record == IF input.listening /\ files # None THEN files ELSE input.record
<1>1. Files!Heard(files) = [input EXCEPT !.files = files, !.fired = fired, !.record = record]
  BY DEF Files!Heard, FileInputs
<1>2. fired \in BOOLEAN
  BY Zenon DEF FileInputs
<1>3. record \in {input.record, files} /\ record \in Contents /\ (input.listening /\ files # None => record = files)
  BY DEF FileInputs
<1> HIDE DEF fired, record
<1> QED BY <1>1, <1>2, <1>3 DEF FileInputs

\* A step of the page, the person or the disk.
LEMMA FileStays ==
    ASSUME FileConstants, FileInv, Listens, UNCHANGED <<op, snapshot, used, answer>>,
           page' \in FilePages, input' \in FileInputs, disk' \in {"asked", "changed"}, page.version <= page'.version,
           RiskIsKnown', op # None => InputIsSound'
    PROVE  FileInv'
<1>1. FileTyped'
  BY DEF FileInv, FileTyped
<1>2. SnapshotIsUnused'
  BY DEF FileInv, FileTyped, SnapshotIsUnused, FilePages, FileConstants
<1>3. AnswerIsSo'
  BY DEF FileInv, AnswerIsSo, Files!ConfirmedIsObserved, Files!CompletionIsATransition, Files!Said
<1>4. ASSUME op # None PROVE SelectionIsSound' /\ QuietIsNoted'
  <2>1. quiet \subseteq quiet'
    BY <1>4, QuietGrows
  <2>2. QuietIsNoted'
    BY <1>4, <2>1 DEF FileInv, QuietIsNoted
  <2>3. SelectionIsSound'
    BY <1>4 DEF FileInv, FileTyped, SelectionIsSound, FilePages, Selections, FileConstants
  <2> QED BY <2>2, <2>3
<1> QED BY <1>1, <1>2, <1>3, <1>4 DEF FileInv

LEMMA FileChanges ==
    ASSUME FileConstants, FileInv, Files!Changes, Listens
    PROVE  FileInv'
<1>1. page' \in FilePages /\ page'.version = page.version
  <2>1. page \in FilePages
    BY DEF FileInv, FileTyped
  <2>2. PICK u \in Uploads :
          \/ \E b \in {None, "active", "done"} : page' = [page EXCEPT !.bars[u] = b]
          \/ page' = [page EXCEPT !.marks = (@ \cup {u}) \ (@ \cap {u})]
          \/ page' = [page EXCEPT !.error = ~@]
    BY DEF Files!Changes
  <2>3. CASE \E b \in {None, "active", "done"} : page' = [page EXCEPT !.bars[u] = b]
    <3>1. PICK b \in Progresses : page' = [page EXCEPT !.bars = [page.bars EXCEPT ![u] = b]]
      BY <2>1, <2>3 DEF Progresses
    <3>2. [page.bars EXCEPT ![u] = b] \in [Uploads -> Progresses]
      BY <2>1 DEF FilePages
    <3> QED BY <2>1, <3>1, <3>2 DEF FilePages
  <2>4. CASE page' = [page EXCEPT !.marks = (@ \cup {u}) \ (@ \cap {u})]
    <3>1. ((page.marks \cup {u}) \ (page.marks \cap {u})) \in SUBSET Uploads
      BY <2>1 DEF FilePages
    <3> QED BY <2>1, <2>4, <3>1 DEF FilePages
  <2>5. CASE page' = [page EXCEPT !.error = ~@]
    <3>1. (~page.error) \in BOOLEAN
      BY Zenon
    <3>2. page' = [page EXCEPT !.error = ~page.error]
      BY <2>5
    <3> HIDE <2>5
    <3> DEFINE e == ~page.error
    <3>3. e \in BOOLEAN /\ page' = [page EXCEPT !.error = e]
      BY <3>1, <3>2
    <3> HIDE DEF e
    <3> QED BY <2>1, <3>3 DEF FilePages
  <2> QED BY <2>2, <2>3, <2>4, <2>5
<1>2. page.version <= page'.version
  BY <1>1 DEF FilePages
<1>3. RiskIsKnown' /\ (op # None => InputIsSound')
  BY <1>1 DEF Files!Changes, FileInv, RiskIsKnown, InputIsSound, Files!Alive, Held
<1> QED BY <1>1, <1>2, <1>3, FileStays DEF Files!Changes, FileInv, FileTyped

\* Another document is a later one, and its input is empty.
LEMMA FileReplaces ==
    ASSUME FileConstants, page \in FilePages, Files!Replaces
    PROVE  /\ page' \in FilePages /\ page'.version = page.version + 1 /\ page.version \in Nat
           /\ page.version <= page'.version /\ page'.version # page.version
           /\ input' = Files!NoInput /\ input' \in FileInputs /\ input'.files = None /\ input'.record = None
           /\ entered' = FALSE /\ late' = FALSE
<1>1. PICK b \in [Uploads -> Progresses], m \in SUBSET Uploads :
        page' = [Files!Blank(page.version + 1) EXCEPT !.bars = b, !.marks = m]
  BY DEF Files!Replaces, Progresses
<1>2. page' = [version |-> page.version + 1, bars |-> b, marks |-> m, error |-> FALSE]
  <2> DEFINE n == page.version + 1
             v == [u \in Uploads |-> None]
  <2>1. page' = [[version |-> n, bars |-> v, marks |-> {}, error |-> FALSE] EXCEPT !.bars = b, !.marks = m]
    BY <1>1 DEF Files!Blank
  <2> HIDE DEF n, v
  <2>2. page' = [version |-> n, bars |-> b, marks |-> m, error |-> FALSE]
    BY <2>1
  <2> QED BY <2>2 DEF n
<1>3. page.version \in Nat /\ page.version + 1 \in 0 .. MaxVersion
  BY DEF Files!Replaces, FilePages, FileConstants
<1>4. page' \in FilePages /\ page'.version = page.version + 1
  BY <1>2, <1>3 DEF FilePages
<1>5. page.version <= page'.version /\ page'.version # page.version
  BY <1>3, <1>4
<1>6. input' \in FileInputs /\ input'.files = None /\ input'.record = None
  BY DEF Files!Replaces, Files!NoInput, FileInputs, Contents
<1> QED BY <1>3, <1>4, <1>5, <1>6 DEF Files!Replaces

LEMMA FileNavigates ==
    ASSUME FileConstants, FileInv, Files!Navigates, Listens
    PROVE  FileInv'
<1>1. /\ Files!Replaces /\ UNCHANGED <<disk, snapshot, used, op, runs, answer>> /\ page \in FilePages
      /\ disk \in {"asked", "changed"}
  BY DEF Files!Navigates, FileInv, FileTyped
<1>2. RiskIsKnown'
  BY <1>1, FileReplaces DEF RiskIsKnown
<1>3. ASSUME op # None PROVE InputIsSound'
  <2>1. op \in Selections /\ op.version <= page.version /\ op.version \in Nat
    BY <1>3 DEF FileInv, SelectionIsSound, Selections
  <2>2. op'.version # page'.version
    BY <1>1, <2>1, FileReplaces
  <2>3. input'.files \in Held' /\ input'.record \in Held' /\ Held' = Held
    BY <1>1, FileReplaces DEF Held
  <2> QED BY <1>1, <1>3, <2>2, <2>3 DEF InputIsSound, Files!Alive, FileInv
<1> QED BY <1>1, <1>2, <1>3, FileReplaces, FileStays

LEMMA FilePerson ==
    ASSUME FileConstants, FileInv, Files!Clears \/ Files!PersonSelects \/ Files!Rewrites \/ Files!LateSelection,
           Listens
    PROVE  FileInv'
<1>1. /\ UNCHANGED <<page, op, snapshot, used, answer, risk>> /\ page \in FilePages /\ input \in FileInputs
      /\ disk \in {"asked", "changed"} /\ page.version \in Nat
  BY DEF Files!Clears, Files!PersonSelects, Files!Rewrites, Files!LateSelection, FileInv, FileTyped, FilePages
<1>2. CASE Files!Clears
  <2>1. input' = [input EXCEPT !.files = None] /\ disk' = disk /\ entered' = entered /\ late' = late
    BY <1>2 DEF Files!Clears
  <2>2. /\ input' \in FileInputs /\ input'.files = None /\ input'.record = input.record
        /\ input'.listening = input.listening
    BY <1>1, <2>1 DEF FileInputs, Contents
  <2>3. RiskIsKnown' /\ (op # None => InputIsSound')
    BY <1>1, <2>1, <2>2 DEF FileInv, RiskIsKnown, InputIsSound, Files!Alive, Held
  <2> QED BY <1>1, <2>1, <2>2, <2>3, FileStays
<1>3. CASE Files!PersonSelects
  <2>1. input' = Files!Heard("other") /\ disk' = disk /\ entered' = entered /\ late' = late /\ "other" \in Contents
    BY <1>3 DEF Files!PersonSelects, Contents
  <2>2. /\ input' \in FileInputs /\ input'.files = "other" /\ input'.record \in {input.record, "other"}
        /\ input'.listening = input.listening
    BY <1>1, <2>1, FileHeard
  <2>3. RiskIsKnown' /\ (op # None => InputIsSound')
    BY <1>1, <2>1, <2>2 DEF FileInv, RiskIsKnown, InputIsSound, Files!Alive, Held
  <2> QED BY <1>1, <2>1, <2>2, <2>3, FileStays
<1>4. CASE Files!Rewrites
  <2>1. /\ op # None /\ op.at \notin Holding /\ input' = input /\ disk' = "changed" /\ entered' = entered
        /\ late' = late
    BY <1>4 DEF Files!Rewrites, Files!Watched, Holding
  <2>2. RiskIsKnown' /\ InputIsSound'
    BY <1>1, <2>1 DEF FileInv, RiskIsKnown, InputIsSound, Files!Alive
  <2> QED BY <1>1, <2>1, <2>2, FileStays
<1>5. CASE Files!LateSelection
  <2>1. input' = Files!Heard(disk) /\ disk' = disk /\ late /\ late' = FALSE /\ disk \in Contents
    BY <1>1, <1>5 DEF Files!LateSelection, Files!Receives, Contents
  <2>2. /\ input' \in FileInputs /\ input'.files = disk /\ input'.record \in {input.record, disk}
        /\ input'.listening = input.listening
    BY <1>1, <2>1, FileHeard
  <2>3. RiskIsKnown' /\ (op # None => InputIsSound')
    BY <1>1, <2>1, <2>2 DEF FileInv, RiskIsKnown, InputIsSound, Files!Alive, Held
  <2> QED BY <1>1, <2>1, <2>2, <2>3, FileStays
<1> QED BY <1>2, <1>3, <1>4, <1>5

\* A command begins with a snapshot that was not used.
LEMMA FileBegins ==
    ASSUME FileConstants, FileInv, Files!TakeSnapshot \/ Files!Begin
    PROVE  FileInv'
<1>1. /\ UNCHANGED <<page, input, disk, risk, entered, late>> /\ op = None /\ page.version \in Nat
      /\ page \in FilePages /\ input \in FileInputs
  BY DEF Files!TakeSnapshot, Files!Begin, FileInv, FileTyped, FilePages
<1>2. CASE Files!TakeSnapshot
  <2>1. op' = None /\ snapshot' = page.version /\ used' = 0 /\ answer' = answer
    BY <1>1, <1>2 DEF Files!TakeSnapshot
  <2>2. FileTyped' /\ SnapshotIsUnused' /\ RiskIsKnown'
    BY <1>1, <2>1 DEF FileInv, FileTyped, SnapshotIsUnused, RiskIsKnown
  <2>3. AnswerIsSo'
    BY <2>1 DEF FileInv, AnswerIsSo, Files!ConfirmedIsObserved, Files!CompletionIsATransition, Files!Said
  <2> QED BY <2>1, <2>2, <2>3 DEF FileInv
<1>3. CASE Files!Begin
  <2>1. snapshot # None /\ snapshot' = snapshot /\ used' = used /\ answer' = None /\ snapshot \in Nat
    BY <1>3 DEF Files!Begin, FileInv, FileTyped
  <2>2. PICK asks \in SUBSET {"complete", "error"} :
          op' = [at |-> "check", version |-> snapshot, asks |-> asks, shown |-> {}, absent |-> {}, seen |-> {},
                 bars |-> [u \in Uploads |-> None], armed |-> FALSE, retained |-> None, reached |-> FALSE,
                 held |-> {}]
    BY <1>3 DEF Files!Begin
  <2>3. /\ op' \in Selections /\ op'.at = "check" /\ op'.version = snapshot /\ op'.shown = {} /\ op'.absent = {}
        /\ op'.seen = {} /\ op'.armed = FALSE /\ op'.reached = FALSE /\ op'.held = {} /\ op'.retained = None
    <3>1. [u \in Uploads |-> None] \in [Uploads -> Progresses] /\ "check" \in FileStages /\ None \in Contents
      BY DEF Progresses, FileStages, Preparing, Unbased, Contents
    <3> DEFINE bars == [u \in Uploads |-> None]
    <3>2. bars \in [Uploads -> Progresses]
      BY <3>1
    <3>3. op' = [at |-> "check", version |-> snapshot, asks |-> asks, shown |-> {}, absent |-> {}, seen |-> {},
                 bars |-> bars, armed |-> FALSE, retained |-> None, reached |-> FALSE, held |-> {}]
      BY <2>2
    <3> HIDE DEF bars
    <3> QED BY <2>1, <3>1, <3>2, <3>3 DEF Selections
  <2>4. op' # None
    BY <2>3 DEF FileConstants
  <2>5. /\ "check" \in Preparing /\ "check" \in Unbased /\ "check" # "arm" /\ "check" \notin Holding
        /\ "check" \notin Processing
        /\ "check" # "dispatch"
    BY DEF Preparing, Unbased, Holding, Processing
  <2>6. FileTyped' /\ SnapshotIsUnused' /\ RiskIsKnown'
    BY <1>1, <2>1, <2>3, <2>4, <2>5 DEF FileInv, FileTyped, SnapshotIsUnused, RiskIsKnown
  <2>7. SelectionIsSound' /\ InputIsSound' /\ QuietIsNoted'
    BY <1>1, <2>1, <2>3, <2>5 DEF SelectionIsSound, InputIsSound, QuietIsNoted, FileInv, SnapshotIsUnused
  <2>8. AnswerIsSo'
    BY <2>1 DEF AnswerIsSo, Files!ConfirmedIsObserved, Files!CompletionIsATransition, Files!Said
  <2> QED BY <2>6, <2>7, <2>8 DEF FileInv
<1> QED BY <1>2, <1>3

\* The command goes on,
LEMMA FileStep ==
    ASSUME FileInv, UNCHANGED answer, FileTyped', SnapshotIsUnused', RiskIsKnown', SelectionIsSound', InputIsSound',
           QuietIsNoted'
    PROVE  FileInv'
BY DEF FileInv, AnswerIsSo, Files!ConfirmedIsObserved, Files!CompletionIsATransition, Files!Said

LEMMA FileGoes ==
    ASSUME op \in Selections, NEW where \in FileStages, Files!Goes(where)
    PROVE  /\ op' \in Selections /\ op'.at = where /\ op'.version = op.version /\ op'.asks = op.asks
           /\ op'.shown = op.shown /\ op'.absent = op.absent /\ op'.seen = op.seen /\ op'.armed = op.armed
           /\ op'.retained = op.retained /\ op'.reached = op.reached /\ op'.held = op.held
BY DEF Selections, Files!Goes

LEMMA FileQuiet ==
    ASSUME FileInv, Listens, op # None, op' # None, op'.asks = op.asks, op'.shown = op.shown,
           op'.absent = op.absent, op'.seen = op.seen, op'.at \in Unbased \/ op.at \notin Unbased,
           op'.at \in Preparing \ {"arm"} \/ op.at \notin Preparing \ {"arm"}
    PROVE  QuietIsNoted'
BY QuietGrows DEF FileInv, QuietIsNoted

\* or is over without a success.
LEMMA FileEnds ==
    ASSUME FileInv, op # None, NEW kind, NEW told, NEW evidence, Files!Ends(kind, told, evidence),
           kind # "succeeded", told = "no" => ~op.reached, FileTyped', SnapshotIsUnused', RiskIsKnown'
    PROVE  FileInv'
BY DEF FileInv, AnswerIsSo, Files!ConfirmedIsObserved, Files!CompletionIsATransition, Files!Said, Files!Ends

\* A command that is refused has not used its snapshot.
LEMMA FileRefuses ==
    ASSUME FileConstants, FileInv, op # None, op.at \in Preparing, Files!Refuses,
           UNCHANGED <<page, input, snapshot, used, risk, entered, late>>, disk' \in {"asked", "changed"}
    PROVE  FileInv'
<1>1. ~op.reached /\ op' = None /\ "set" \notin Preparing
  BY DEF FileInv, SelectionIsSound, Selections, Files!Refuses, Files!Ends, Preparing, Unbased
<1>2. FileTyped' /\ SnapshotIsUnused' /\ RiskIsKnown'
  BY <1>1 DEF FileInv, FileTyped, SnapshotIsUnused, RiskIsKnown
<1> QED BY <1>1, <1>2, FileEnds DEF Files!Refuses

\* The next of the stages that look and change nothing.
LEMMA FilePrepares ==
    ASSUME FileConstants, FileInv, Listens, op # None, op.at \in Unbased, NEW where \in Unbased, Files!Goes(where),
           UNCHANGED <<page, input, snapshot, used, risk, entered, late, answer>>, disk' \in {"asked", "changed"}
    PROVE  FileInv'
<1>1. /\ where \in FileStages /\ where \in Preparing /\ op.at \in Preparing /\ op \in Selections
      /\ where \notin Holding /\ where \notin Processing /\ where # "dispatch" /\ op.at # "set" /\ where # "arm"
  BY DEF FileStages, Preparing, Unbased, Holding, Processing, FileInv, SelectionIsSound
<1>2. /\ op' \in Selections /\ op'.at = where /\ op'.version = op.version /\ op'.asks = op.asks
      /\ op'.shown = op.shown /\ op'.absent = op.absent /\ op'.seen = op.seen
      /\ op'.retained = op.retained /\ op'.reached = op.reached /\ op'.held = op.held /\ op'.armed = op.armed
      /\ op' # None
  BY <1>1, FileGoes DEF FileConstants
<1>3. FileTyped' /\ SnapshotIsUnused' /\ RiskIsKnown'
  BY <1>1, <1>2 DEF FileInv, FileTyped, SnapshotIsUnused, RiskIsKnown
<1>4. SelectionIsSound' /\ InputIsSound'
  BY <1>1, <1>2 DEF FileInv, SelectionIsSound, InputIsSound
<1>5. QuietIsNoted'
  BY <1>1, <1>2, FileQuiet
<1> QED BY <1>3, <1>4, <1>5, FileStep

LEMMA FileChecks ==
    ASSUME FileConstants, FileInv, Files!Check \/ Files!PreflightLocalFiles \/ Files!InspectFileInput, Listens
    PROVE  FileInv'
<1>1. /\ op # None /\ op.at \in Unbased /\ op.at \in Preparing /\ {"files", "input", "complete?"} \subseteq Unbased
      /\ UNCHANGED <<page, input, snapshot, used, risk, entered, late>> /\ disk' \in {"asked", "changed"}
      /\ \/ \E where \in {"files", "input", "complete?"} : Files!Goes(where) /\ UNCHANGED answer
         \/ Files!Refuses
  <2>1. disk \in {"asked", "changed"}
    BY DEF FileInv, FileTyped
  <2> QED BY <2>1 DEF Files!Check, Files!PreflightLocalFiles, Files!InspectFileInput, Files!At, Unbased, Preparing,
       Files!World
<1> QED BY <1>1, FileRefuses, FilePrepares

LEMMA FileBaseline ==
    ASSUME FileConstants, FileInv, Files!Baseline, Listens
    PROVE  FileInv'
<1>1. /\ UNCHANGED <<page, input, disk, snapshot, used, risk, entered, late, answer>> /\ op # None
      /\ op \in Selections
      /\ op.shown \subseteq op.asks \cup {"bar"} /\ op.shown \subseteq Signals
  BY DEF Files!Baseline, Files!At, Files!World, FileInv, SelectionIsSound, Selections
<1>2. PICK where \in {"error?", "bar?", "arm"}, more \in SUBSET Signals :
        /\ op' = [op EXCEPT !.at = where, !.shown = @ \cup more]
        /\ more \subseteq op.asks \cup {"bar"}
        /\ \/ op.at = "complete?" /\ where = "error?" /\ more = {s \in {"complete"} : Files!Sees(s)}
           \/ op.at = "error?" /\ where = "bar?"
           \/ op.at = "bar?" /\ where = "arm" /\ more = {s \in {"bar"} : Files!Shown(page, s)}
  <2>1. CASE Files!At("complete?")
               /\ op' = [op EXCEPT !.at = "error?", !.shown = @ \cup {s \in {"complete"} : Files!Sees(s)}]
    BY <2>1 DEF Files!At, Files!Sees, Signals
  <2>2. CASE Files!At("error?")
               /\ op' = [op EXCEPT !.at = "bar?", !.shown = @ \cup {s \in {"error"} : Files!Sees(s)}]
    <3> DEFINE m == {s \in {"error"} : Files!Sees(s)}
    <3>1. m \subseteq op.asks \cup {"bar"} /\ m \in SUBSET Signals
      BY DEF Files!Sees, Signals
    <3>2. op.at = "error?" /\ op' = [op EXCEPT !.at = "bar?", !.shown = @ \cup m]
      BY <2>2 DEF Files!At
    <3> HIDE DEF m
    <3> QED BY <3>1, <3>2
  <2>3. CASE Files!At("bar?")
               /\ op' = [op EXCEPT !.at = "arm", !.shown = @ \cup {s \in {"bar"} : Files!Shown(page, s)}]
    BY <2>3 DEF Files!At, Signals
  <2> QED BY <2>1, <2>2, <2>3 DEF Files!Baseline
<1>3. /\ where \in FileStages /\ where \in Preparing /\ op.at \in Preparing /\ where \notin Holding
      /\ where # "dispatch"
      /\ where \notin Processing /\ where \notin Unbased /\ op.at # "set" /\ "set" # where
  BY <1>2 DEF FileStages, Preparing, Unbased, Holding, Processing
<1>4. /\ op' \in Selections /\ op'.at = where /\ op'.version = op.version /\ op'.asks = op.asks
      /\ op'.shown = op.shown \cup more /\ op'.absent = op.absent /\ op'.seen = op.seen
      /\ op'.retained = op.retained /\ op'.reached = op.reached /\ op'.held = op.held /\ op'.armed = op.armed
  <2>1. (op.shown \cup more) \in SUBSET Signals
    BY <1>1
  <2> QED BY <1>1, <1>2, <1>3, <2>1 DEF Selections
<1>5. op' # None
  BY <1>4 DEF FileConstants
<1>6. FileTyped' /\ SnapshotIsUnused' /\ RiskIsKnown'
  BY <1>1, <1>3, <1>4, <1>5 DEF FileInv, FileTyped, SnapshotIsUnused, RiskIsKnown
<1>7. SelectionIsSound' /\ InputIsSound'
  BY <1>1, <1>2, <1>3, <1>4 DEF FileInv, SelectionIsSound, InputIsSound
<1>8. \A s \in {"complete", "bar"} : ~Files!Shown(page, s) => s \in quiet'
  BY <1>1, <1>5, QuietGrows DEF Files!Absent
<1>9. QuietIsNoted'
  <2>1. quiet \subseteq quiet' /\ QuietIsNoted
    BY <1>1, <1>5, QuietGrows DEF FileInv
  <2>2. "complete" \in op.asks /\ "complete" \notin op'.shown => "complete" \in quiet'
    <3>1. CASE op.at = "complete?"
      BY <1>2, <1>4, <1>8, <3>1 DEF Files!Sees
    <3>2. CASE op.at # "complete?"
      BY <1>2, <1>4, <2>1, <3>2 DEF QuietIsNoted, Unbased
    <3> QED BY <3>1, <3>2
  <2>3. where = "arm" /\ "bar" \notin op'.shown => "bar" \in quiet'
    BY <1>2, <1>4, <1>8
  <2> QED BY <1>3, <1>4, <2>1, <2>2, <2>3 DEF QuietIsNoted
<1> QED BY <1>1, <1>6, <1>7, <1>9, FileStep

\* The snapshot is used up, whether or not the listener is installed.
LEMMA FileArms ==
    ASSUME FileConstants, FileInv, Files!Arm, Listens
    PROVE  FileInv'
<1>1. /\ UNCHANGED <<page, disk, risk, entered, late, answer>> /\ op # None /\ op.at = "arm" /\ op \in Selections
      /\ snapshot' = None /\ used' = used + 1 /\ used = 0 /\ input \in FileInputs /\ ~op.armed
  BY DEF Files!Arm, Files!At, Files!Consumes, Files!World, FileInv, FileTyped, SelectionIsSound, SnapshotIsUnused,
     Preparing
<1>2. /\ "dispatch" \in FileStages /\ "dispatch" \notin Preparing /\ "arm" \in Preparing /\ "dispatch" \notin Holding
      /\ "dispatch" \notin Processing /\ "arm" \notin Unbased /\ "dispatch" \notin Unbased
  BY DEF FileStages, Preparing, Unbased, Holding, Processing
<1>3. /\ op' \in Selections /\ op'.at = "dispatch" /\ op'.version = op.version /\ op'.asks = op.asks
      /\ op'.shown = op.shown /\ op'.absent = op.absent /\ op'.seen = op.seen
      /\ op'.retained = op.retained /\ op'.reached = op.reached /\ op'.held = op.held
      /\ input' \in FileInputs /\ (op'.armed => input'.listening)
  <2>1. CASE /\ Files!Alive /\ op' = [op EXCEPT !.at = "dispatch", !.armed = TRUE]
             /\ input' = [input EXCEPT !.listening = TRUE, !.fired = FALSE, !.record = None]
    <3>1. None \in Contents
      BY DEF Contents
    <3>2. input' \in FileInputs /\ input'.listening
      BY <1>1, <2>1, <3>1 DEF FileInputs
    <3> QED BY <1>1, <1>2, <2>1, <3>2 DEF Selections
  <2>2. CASE Files!Goes("dispatch") /\ UNCHANGED input
    BY <1>1, <1>2, <2>2, FileGoes
  <2> QED BY <2>1, <2>2 DEF Files!Arm
<1>4. op' # None
  BY <1>3 DEF FileConstants
<1>5. FileTyped' /\ SnapshotIsUnused' /\ RiskIsKnown'
  BY <1>1, <1>2, <1>3, <1>4 DEF FileInv, FileTyped, SnapshotIsUnused, RiskIsKnown
<1>6. SelectionIsSound' /\ InputIsSound'
  BY <1>1, <1>2, <1>3 DEF FileInv, SelectionIsSound, InputIsSound
<1>7. QuietIsNoted'
  BY <1>1, <1>2, <1>3, <1>4, FileQuiet
<1> QED BY <1>1, <1>5, <1>6, <1>7, FileStep

LEMMA FileSets ==
    ASSUME FileConstants, FileInv, Files!Set, Listens
    PROVE  FileInv'
<1>1. /\ UNCHANGED <<page, disk, snapshot, used, risk, late, answer>> /\ op # None /\ op.at = "dispatch"
      /\ op \in Selections /\ input \in FileInputs /\ Files!Alive /\ input' = Files!Heard(disk) /\ entered' = TRUE
      /\ disk \in {"asked", "changed"} /\ disk \in Contents /\ disk # None
      /\ op.held = {} /\ op.retained = None /\ (op.armed => input.listening)
  <2>1. disk \in {"asked", "changed"}
    BY DEF FileInv, FileTyped
  <2>2. disk \in Contents /\ disk # None
    BY <2>1 DEF Contents, FileConstants
  <2>3. op # None /\ op.at = "dispatch" /\ "dispatch" \notin Preparing
    BY DEF Files!Set, Files!At, Preparing, Unbased
  <2> QED BY <2>1, <2>2, <2>3 DEF Files!Set, Files!Receives, Files!World, FileInv, FileTyped, SelectionIsSound,
       InputIsSound, Selections
<1>2. /\ "set" \in FileStages /\ "set" \notin Preparing /\ "set" \in Holding /\ "dispatch" \notin Preparing
      /\ "set" \notin Processing /\ "set" \notin Unbased /\ "dispatch" \notin Unbased
  BY DEF FileStages, Preparing, Unbased, Holding, Processing
<1>3. /\ op' \in Selections /\ op'.at = "set" /\ op'.version = op.version /\ op'.asks = op.asks
      /\ op'.shown = op.shown /\ op'.absent = op.absent /\ op'.seen = op.seen /\ op'.armed = op.armed
      /\ op'.retained = None /\ op'.reached = TRUE /\ op'.held = {disk}
  <2>1. op' = [op EXCEPT !.at = "set", !.reached = TRUE, !.held = {disk}] /\ {disk} \in SUBSET {"asked", "changed"}
    BY <1>1 DEF Files!Set
  <2> QED BY <1>1, <1>2, <2>1 DEF Selections
<1>4. op' # None
  BY <1>3 DEF FileConstants
<1>5. input' \in FileInputs /\ input'.files = disk /\ (op.armed => input'.record = disk)
  BY <1>1, FileHeard
<1>6. FileTyped' /\ SnapshotIsUnused' /\ RiskIsKnown'
  BY <1>1, <1>2, <1>3, <1>4, <1>5 DEF FileInv, FileTyped, SnapshotIsUnused, RiskIsKnown
<1>7. SelectionIsSound' /\ InputIsSound'
  BY <1>1, <1>2, <1>3, <1>5 DEF FileInv, SelectionIsSound, InputIsSound, Held
<1>8. QuietIsNoted'
  BY <1>1, <1>2, <1>3, <1>4, FileQuiet
<1> QED BY <1>1, <1>6, <1>7, <1>8, FileStep

\* A selection that fails counts as one that reached the document.
LEMMA FileFails ==
    ASSUME FileConstants, FileInv, Files!Fails
    PROVE  FileInv'
<1>1. /\ UNCHANGED <<page, disk, snapshot, used>> /\ op # None /\ op.at \in {"dispatch", "set"} /\ risk' = TRUE
      /\ input' = [input EXCEPT !.listening = FALSE] /\ input \in FileInputs /\ op' = None
      /\ Files!Ends("failed", "unknown", None)
  BY DEF Files!Fails, Files!At, Files!NoteFileSelection, Files!World, FileInv, FileTyped, Files!Ends
<1>2. input' \in FileInputs
  BY <1>1 DEF FileInputs
<1>3. op.at \notin Preparing
  BY <1>1 DEF Preparing, Unbased
<1>4. FileTyped' /\ SnapshotIsUnused' /\ RiskIsKnown'
  BY <1>1, <1>2, <1>3 DEF FileInv, FileTyped, SnapshotIsUnused, RiskIsKnown
<1> QED BY <1>1, <1>4, FileEnds

LEMMA FileReturns ==
    ASSUME FileConstants, FileInv, Files!Returns \/ Files!SelectedFileMetadata, Listens
    PROVE  FileInv'
<1>1. /\ UNCHANGED <<page, disk, input, snapshot, used, late, answer, entered>> /\ op # None
      /\ op.at \in {"set", "retained"}
      /\ op \in Selections /\ input \in FileInputs /\ op.held = {disk} /\ input.files \in Held
      /\ op.retained \in Held
      /\ (op.armed => input.record \in Held) /\ op.reached
  <2>1. op # None /\ op.at \in {"set", "retained"}
    BY DEF Files!Returns, Files!SelectedFileMetadata, Files!At
  <2>2. op.at \in Holding /\ op.at \notin Preparing \cup {"dispatch"}
    BY <2>1 DEF Holding, Preparing, Unbased
  <2> QED BY <2>1, <2>2 DEF Files!Returns, Files!SelectedFileMetadata, Files!World, FileInv, FileTyped,
       SelectionIsSound, InputIsSound
<1>2. PICK where \in {"retained", "event"}, kept \in {input.files, op.retained} :
        op' = [op EXCEPT !.at = where, !.retained = kept]
  <2>1. op = [op EXCEPT !.retained = op.retained]
          /\ \A where : [op EXCEPT !.at = where] = [op EXCEPT !.at = where, !.retained = op.retained]
    BY <1>1 DEF Selections
  <2> QED BY <2>1 DEF Files!Returns, Files!SelectedFileMetadata, Files!Goes
<1>3. /\ where \in FileStages /\ where \in Holding /\ where \notin Preparing /\ where \notin Processing
      /\ where # "dispatch"
      /\ where \notin Unbased /\ op.at \notin Preparing /\ op.at \notin Unbased /\ where # "set"
  BY <1>1 DEF FileStages, Preparing, Unbased, Holding, Processing
<1>4. /\ op' \in Selections /\ op'.at = where /\ op'.version = op.version /\ op'.asks = op.asks
      /\ op'.shown = op.shown /\ op'.absent = op.absent /\ op'.seen = op.seen /\ op'.armed = op.armed
      /\ op'.retained = kept /\ op'.reached = op.reached /\ op'.held = op.held
  <2>1. kept \in Contents
    BY <1>1 DEF FileInputs, Selections
  <2> QED BY <1>1, <1>2, <1>3, <2>1 DEF Selections
<1>5. op' # None
  BY <1>4 DEF FileConstants
<1>6. RiskIsKnown'
  <2>1. CASE Files!Returns
    BY <2>1 DEF Files!Returns, Files!NoteFileSelection, RiskIsKnown
  <2>2. CASE Files!SelectedFileMetadata
    BY <1>1, <2>2 DEF Files!SelectedFileMetadata, Files!At, FileInv, RiskIsKnown
  <2> QED BY <2>1, <2>2
<1>7. FileTyped' /\ SnapshotIsUnused'
  BY <1>1, <1>3, <1>4, <1>5 DEF FileInv, FileTyped, SnapshotIsUnused
<1>8. SelectionIsSound' /\ InputIsSound'
  <2>1. Held' = Held
    BY <1>1 DEF Held
  <2> QED BY <1>1, <1>3, <1>4, <2>1 DEF FileInv, SelectionIsSound, InputIsSound
<1>9. QuietIsNoted'
  BY <1>1, <1>3, <1>4, <1>5, FileQuiet
<1> QED BY <1>1, <1>6, <1>7, <1>8, <1>9, FileStep

\* The file is confirmed by what the input holds, or held when it had its event.
LEMMA FileConfirms ==
    ASSUME FileConstants, FileInv, Files!CollectFileInputEvent, Listens
    PROVE  FileInv'
<1>1. /\ UNCHANGED <<page, disk, snapshot, used, risk, entered, late>> /\ op # None /\ op.at = "event"
      /\ op \in Selections /\ input \in FileInputs /\ input' = [input EXCEPT !.listening = FALSE]
      /\ op.held = {disk} /\ op.retained \in Held /\ (op.armed => input.record \in Held) /\ op.reached
  <2>1. op # None /\ op.at = "event" /\ "event" \in Holding /\ "event" \notin Preparing \cup {"dispatch"}
    BY DEF Files!CollectFileInputEvent, Files!At, Holding, Preparing, Unbased
  <2> QED BY <2>1 DEF Files!CollectFileInputEvent, Files!World, FileInv, FileTyped, SelectionIsSound, InputIsSound
<1>2. input' \in FileInputs
  BY <1>1 DEF FileInputs
<1>3. /\ "progress" \in FileStages /\ "progress" \in Processing /\ "progress" \notin Preparing
      /\ "progress" \notin Holding
      /\ "progress" \notin Unbased /\ "event" \notin Preparing /\ "event" \notin Unbased
  BY DEF FileStages, Preparing, Unbased, Holding, Processing
<1>4. PICK event \in Held :
        \/ /\ Files!FileMetadataMatches(op.retained) \/ Files!FileMetadataMatches(event)
           /\ op' = [op EXCEPT !.at = "progress", !.absent = {"complete", "error", "bar"} \ op.shown]
           /\ answer' = answer
        \/ Files!Ends("unconfirmed", "yes", None)
  <2>1. None \in Held
    BY DEF Held
  <2> QED BY <1>1, <2>1 DEF Files!CollectFileInputEvent
<1>5. CASE Files!Ends("unconfirmed", "yes", None)
  <2>1. FileTyped' /\ SnapshotIsUnused' /\ RiskIsKnown'
    BY <1>1, <1>2, <1>3, <1>5 DEF FileInv, FileTyped, SnapshotIsUnused, RiskIsKnown, Files!Ends
  <2> QED BY <1>1, <1>5, <2>1, FileEnds
<1>6. CASE /\ Files!FileMetadataMatches(op.retained) \/ Files!FileMetadataMatches(event)
           /\ op' = [op EXCEPT !.at = "progress", !.absent = {"complete", "error", "bar"} \ op.shown]
           /\ answer' = answer
  <2>1. op.held = {"asked"}
    <3>1. "asked" \in Held
      BY <1>1, <1>6 DEF Files!FileMetadataMatches
    <3>2. disk = "asked"
      BY <3>1 DEF Held, FileConstants
    <3> QED BY <1>1, <3>2
  <2>2. /\ op' \in Selections /\ op'.at = "progress" /\ op'.version = op.version /\ op'.asks = op.asks
        /\ op'.shown = op.shown /\ op'.absent = Signals \ op.shown /\ op'.seen = op.seen
        /\ op'.reached = op.reached /\ op'.held = op.held
    <3>1. op' = [op EXCEPT !.at = "progress", !.absent = Signals \ op.shown]
      BY <1>6 DEF Signals
    <3>2. (Signals \ op.shown) \in SUBSET Signals
      OBVIOUS
    <3> QED BY <1>1, <1>3, <3>1, <3>2 DEF Selections
  <2>3. op' # None
    BY <2>2 DEF FileConstants
  <2>4. FileTyped' /\ SnapshotIsUnused' /\ RiskIsKnown'
    BY <1>1, <1>2, <1>3, <2>2, <2>3 DEF FileInv, FileTyped, SnapshotIsUnused, RiskIsKnown
  <2>5. SelectionIsSound' /\ InputIsSound'
    BY <1>1, <1>3, <2>1, <2>2 DEF FileInv, SelectionIsSound, InputIsSound
  <2>6. QuietIsNoted'
    <3>1. quiet \subseteq quiet' /\ QuietIsNoted
      BY <1>1, <2>3, QuietGrows DEF FileInv
    <3> QED BY <1>1, <1>3, <2>2, <3>1 DEF QuietIsNoted
  <2> QED BY <1>6, <2>4, <2>5, <2>6, FileStep
<1> QED BY <1>4, <1>5, <1>6

\* One sample of a signal: absent, seen once it was absent, or as it was.
LEMMA FileSampled ==
    ASSUME op \in Selections, NEW signal \in Signals, NEW shown \in BOOLEAN
    PROVE  LET o == Files!Sampled(op, signal, shown) IN
           /\ o \in Selections /\ o.at = op.at /\ o.version = op.version /\ o.asks = op.asks /\ o.shown = op.shown
           /\ o.reached = op.reached /\ o.held = op.held
           /\ \A s \in o.absent : s \in op.absent \/ (s = signal /\ ~shown)
           /\ \A s \in o.seen : s \in op.seen \/ (s = signal /\ s \in op.absent)
<1>1. /\ (op.absent \cup {signal}) \in SUBSET Signals /\ (op.seen \cup {signal}) \in SUBSET Signals
  BY DEF Selections
<1>2. CASE ~shown
  BY <1>1, <1>2 DEF Files!Sampled, Selections
<1>3. CASE shown /\ signal \in op.absent
  BY <1>1, <1>3 DEF Files!Sampled, Selections
<1>4. CASE shown /\ signal \notin op.absent
  BY <1>4 DEF Files!Sampled
<1> QED BY <1>2, <1>3, <1>4

\* The next stage of the processing, with what the sample added.
LEMMA FileProcesses ==
    ASSUME FileConstants, FileInv, Listens, op # None, op.at \in Processing,
           UNCHANGED <<disk, snapshot, used, risk, answer>>
             \/ (UNCHANGED <<disk, snapshot, used, answer>> /\ ~entered' /\ ~late'),
           entered' = entered \/ ~entered', late' = late \/ ~late',
           page' \in FilePages, page.version <= page'.version, input' \in FileInputs,
           NEW o \in Selections, o.version = op.version, o.asks = op.asks, o.shown = op.shown,
           o.reached = op.reached, o.held = op.held,
           \A s \in o.absent : s \in op.absent \/ s = "error" \/ s \in quiet',
           \A s \in o.seen : s \in op.seen \/ s = "error" \/ (s \in op.absent /\ s \in op.asks \cup {"bar"}),
           NEW where \in Processing, NEW bars \in [Uploads -> Progresses],
           op' = [o EXCEPT !.at = where, !.bars = bars]
    PROVE  FileInv'
<1>1. /\ where \in FileStages /\ where \notin Preparing /\ where \notin Holding /\ where # "dispatch"
      /\ where # "set"
      /\ where \notin Unbased /\ op.at \notin Preparing /\ op.at \notin Unbased /\ op.at # "dispatch"
      /\ op.at # "set"
  BY DEF FileStages, Preparing, Unbased, Holding, Processing
<1>2. /\ op' \in Selections /\ op'.at = where /\ op'.version = op.version /\ op'.asks = op.asks
      /\ op'.shown = op.shown /\ op'.absent = o.absent /\ op'.seen = o.seen
      /\ op'.reached = op.reached /\ op'.held = op.held
  BY <1>1 DEF Selections
<1>3. op' # None
  BY <1>2 DEF FileConstants
<1>4. FileTyped'
  BY DEF FileInv, FileTyped
<1>5. SnapshotIsUnused' /\ RiskIsKnown'
  BY <1>1, <1>2, <1>3 DEF FileInv, SnapshotIsUnused, RiskIsKnown
<1>6. SelectionIsSound' /\ InputIsSound'
  <2>1. op.version \in Nat /\ op.version <= page.version /\ page.version \in Nat /\ page'.version \in Nat
    BY DEF FileInv, FileTyped, SelectionIsSound, Selections, FilePages, FileConstants
  <2>2. op'.version <= page'.version
    BY <1>2, <2>1
  <2> QED BY <1>1, <1>2, <2>2 DEF FileInv, SelectionIsSound, InputIsSound
<1>7. QuietIsNoted'
  <2>1. quiet \subseteq quiet' /\ QuietIsNoted /\ op.absent \subseteq Signals
    BY <1>3, QuietGrows DEF FileInv, SelectionIsSound, Selections
  <2>2. \A s \in op.absent : s \in op.asks \cup {"bar"} /\ s # "error" => s \in quiet'
    BY <2>1 DEF QuietIsNoted, Signals
  <2>3. \A s \in op'.seen : s # "error" => s \in quiet'
    BY <1>2, <2>1, <2>2 DEF QuietIsNoted
  <2>4. "bar" \in op'.absent => "bar" \in quiet'
    BY <1>2, <2>2
  <2>5. "complete" \in op'.asks /\ "complete" \in op'.absent => "complete" \in quiet'
    BY <1>2, <2>2
  <2> QED BY <1>1, <1>2, <2>1, <2>3, <2>4, <2>5 DEF QuietIsNoted
<1> QED BY <1>4, <1>5, <1>6, <1>7, FileStep

LEMMA FileShows == /\ \A p, s : s \in {"complete", "bar"} /\ ~Files!Shown(p, s) => s \in Files!Absent(p)
BY DEF Files!Absent

LEMMA FileProgress ==
    ASSUME FileConstants, FileInv, Files!Progress \/ Files!ProgressLost, Listens
    PROVE  FileInv'
<1>1. /\ op # None /\ op.at \in Processing /\ op \in Selections /\ page \in FilePages /\ input \in FileInputs
      /\ op.at = "progress" /\ "error" \in Processing /\ "bar" \in Signals
  BY DEF Files!Progress, Files!ProgressLost, Files!At, Processing, FileInv, FileTyped, SelectionIsSound, Signals
<1>2. CASE Files!Progress
  <2> DEFINE shown == Files!Shown(page, "bar")
             o == Files!Sampled(op, "bar", shown)
  <2>1. /\ UNCHANGED <<page, disk, input, snapshot, used, risk, entered, late, answer>>
        /\ op' = [o EXCEPT !.at = "error", !.bars = page.bars]
    BY <1>2 DEF Files!Progress, Files!World
  <2>2. shown \in BOOLEAN
    BY Zenon DEF Files!Shown
  <2>3. /\ o \in Selections /\ o.version = op.version /\ o.asks = op.asks /\ o.shown = op.shown
        /\ o.reached = op.reached /\ o.held = op.held
        /\ \A s \in o.absent : s \in op.absent \/ (s = "bar" /\ ~shown)
        /\ \A s \in o.seen : s \in op.seen \/ (s = "bar" /\ s \in op.absent)
    <3> HIDE DEF shown
    <3> QED BY <1>1, <2>2, FileSampled
  <2> HIDE DEF o
  <2>4. op' # None /\ page.bars \in [Uploads -> Progresses] /\ page.version \in Nat
    <3>1. page.bars \in [Uploads -> Progresses] /\ page.version \in Nat
      BY <1>1 DEF FilePages
    <3>2. op' \in Selections
      BY <1>1, <2>1, <2>3, <3>1 DEF Selections, FileStages
    <3> QED BY <3>1, <3>2 DEF FileConstants
  <2>5. ~shown => "bar" \in quiet'
    BY <1>1, <2>1, <2>4, QuietGrows, FileShows
  <2> HIDE DEF shown
  <2>6. page.version <= page'.version /\ page' \in FilePages /\ input' \in FileInputs
    BY <1>1, <2>1, <2>4
  <2> QED BY <1>1, <2>1, <2>3, <2>4, <2>5, <2>6, FileProcesses
<1>3. CASE Files!ProgressLost
  <2> DEFINE o == Files!Sampled(op, "bar", FALSE)
             bars == [u \in Uploads |-> None]
  <2>1. /\ UNCHANGED <<disk, snapshot, used, answer>> /\ Files!Replaces
        /\ op' = [o EXCEPT !.at = "error", !.bars = bars]
    BY <1>3 DEF Files!ProgressLost
  <2>2. bars \in [Uploads -> Progresses]
    BY DEF Progresses
  <2>3. /\ o \in Selections /\ o.version = op.version /\ o.asks = op.asks /\ o.shown = op.shown
        /\ o.reached = op.reached /\ o.held = op.held
        /\ \A s \in o.absent : s \in op.absent \/ s = "bar"
        /\ \A s \in o.seen : s \in op.seen \/ (s = "bar" /\ s \in op.absent)
    <3> HIDE DEF bars
    <3> QED BY <1>1, FileSampled
  <2> HIDE DEF o, bars
  <2>4. op' # None
    <3>1. op' \in Selections
      BY <1>1, <2>1, <2>2, <2>3 DEF Selections, FileStages
    <3> QED BY <3>1 DEF FileConstants
  <2>5. /\ page' \in FilePages /\ page.version <= page'.version /\ page'.version # page.version
        /\ input' \in FileInputs /\ entered' = FALSE /\ late' = FALSE
    BY <1>1, <2>1, FileReplaces
  <2>6. "bar" \in quiet'
    BY <1>1, <2>4, <2>5, QuietGrows
  <2> QED BY <1>1, <2>1, <2>2, <2>3, <2>5, <2>6, FileProcesses
<1> QED BY <1>2, <1>3

LEMMA FileMarkers ==
    ASSUME FileConstants, FileInv, Files!Markers, Listens
    PROVE  FileInv'
<1>1. /\ op # None /\ op.at \in Processing /\ op \in Selections /\ page \in FilePages /\ input \in FileInputs
      /\ UNCHANGED <<page, disk, input, snapshot, used, risk, entered, late, answer>>
  BY DEF Files!Markers, Files!At, Processing, FileInv, FileTyped, SelectionIsSound, Files!World
<1>2. PICK signal \in {"error", "complete"}, where \in {"complete", "decide"} :
        \/ signal \in op.asks /\ op' = [Files!Sampled(op, signal, Files!Shown(page, signal)) EXCEPT !.at = where]
        \/ op' = [op EXCEPT !.at = where]
  BY DEF Files!Markers, Files!At
<1> DEFINE shown == Files!Shown(page, signal)
<1>3. shown \in BOOLEAN
  <2>1. CASE signal = "error"
    BY <1>1, <2>1 DEF Files!Shown, FilePages
  <2>2. CASE signal = "complete"
    BY <2>2 DEF Files!Shown
  <2> QED BY <1>2, <2>1, <2>2
<1>4. ~shown /\ signal = "complete" => "complete" \in Files!Absent(page)
  BY FileShows
<1> HIDE DEF shown
<1>5. PICK o \in Selections :
        /\ o.version = op.version /\ o.asks = op.asks /\ o.shown = op.shown
        /\ o.reached = op.reached /\ o.held = op.held
        /\ \A s \in o.absent : s \in op.absent \/ (s = signal /\ ~shown)
        /\ \A s \in o.seen : s \in op.seen \/ (s = signal /\ s \in op.absent /\ signal \in op.asks)
        /\ op' = [o EXCEPT !.at = where]
  <2>1. CASE op' = [op EXCEPT !.at = where]
    BY <1>1, <2>1
  <2>2. CASE signal \in op.asks /\ op' = [Files!Sampled(op, signal, shown) EXCEPT !.at = where]
    <3>1. signal \in Signals
      BY <1>2 DEF Signals
    <3> QED BY <1>1, <1>3, <2>2, <3>1, FileSampled
  <2> QED BY <1>2, <2>1, <2>2 DEF shown
<1>6. /\ op' = [o EXCEPT !.at = where, !.bars = o.bars] /\ o.bars \in [Uploads -> Progresses] /\ where \in Processing
      /\ op' \in Selections
  BY <1>5 DEF Selections, Processing, FileStages
<1>7. op' # None /\ page.version \in Nat
  BY <1>1, <1>6 DEF FileConstants, FilePages
<1>8. \A s \in o.absent : s \in op.absent \/ s = "error" \/ s \in quiet'
  BY <1>1, <1>2, <1>4, <1>5, <1>7, QuietGrows
<1>9. page.version <= page'.version /\ page' \in FilePages /\ input' \in FileInputs
  BY <1>1, <1>7
<1>10. \A s \in o.seen : s \in op.seen \/ s = "error" \/ (s \in op.absent /\ s \in op.asks \cup {"bar"})
  BY <1>2, <1>5
<1>11. /\ o.version = op.version /\ o.asks = op.asks /\ o.shown = op.shown /\ o.reached = op.reached
       /\ o.held = op.held
  BY <1>5
<1>12. /\ o \in Selections /\ where \in Processing /\ op' = [o EXCEPT !.at = where, !.bars = o.bars]
       /\ o.bars \in [Uploads -> Progresses]
  BY <1>5, <1>6
<1>13. UNCHANGED <<disk, snapshot, used, risk, entered, late, answer>>
  BY <1>1
<1> QED BY <1>1, <1>8, <1>9, <1>10, <1>11, <1>12, <1>13, FileProcesses

\* The end of the observation; a success holds the file and names a transition.
LEMMA FileDecides ==
    ASSUME FileConstants, FileInv, Files!Decide, Listens
    PROVE  FileInv'
<1>1. /\ op # None /\ op.at = "decide" /\ op.at \in Processing /\ op \in Selections /\ page \in FilePages
      /\ UNCHANGED <<page, disk, input, risk, entered, late>> /\ input \in FileInputs
      /\ op.held = {"asked"} /\ QuietIsNoted /\ page.version \in Nat /\ disk \in {"asked", "changed"}
  <2>1. op # None /\ op.at = "decide" /\ op.at \in Processing
    BY DEF Files!Decide, Files!At, Processing
  <2> QED BY <2>1 DEF Files!Decide, FileInv, FileTyped, SelectionIsSound, Files!World, FilePages
<1>2. CASE op.seen = {} /\ Files!Goes("progress") /\ UNCHANGED <<snapshot, used, answer>>
  <2>1. /\ op' = [op EXCEPT !.at = "progress", !.bars = op.bars] /\ op.bars \in [Uploads -> Progresses]
        /\ "progress" \in Processing /\ page.version <= page'.version
    <3>1. op' = [op EXCEPT !.at = "progress", !.bars = op.bars] /\ op.bars \in [Uploads -> Progresses]
      BY <1>1, <1>2 DEF Files!Goes, Selections
    <3>2. "progress" \in Processing
      BY DEF Processing
    <3>3. page.version <= page'.version
      BY <1>1
    <3> QED BY <3>1, <3>2, <3>3
  <2> QED BY <1>1, <1>2, <2>1, FileProcesses
<1>3. CASE /\ \E e \in Files!Evidence : Files!Ends("succeeded", "yes", e)
           /\ snapshot' \in {None, page.version} /\ used' = 0
  <2>1. PICK e \in Files!Evidence : Files!Ends("succeeded", "yes", e)
    BY <1>3
  <2>2. /\ op' = None /\ answer'.kind = "succeeded" /\ answer'.told = "yes" /\ answer'.held = {"asked"}
        /\ answer'.evidence = e /\ answer'.quiet = quiet
    BY <1>1, <2>1 DEF Files!Ends
  <2>3. (e = "completion_marker" => "complete" \in op.seen) /\ (e = "progress_complete" => "bar" \in op.seen)
    BY <2>1 DEF Files!Evidence
  <2>4. AnswerIsSo'
    BY <1>1, <2>2, <2>3 DEF QuietIsNoted, AnswerIsSo, Files!ConfirmedIsObserved, Files!CompletionIsATransition,
       Files!Said
  <2>5. FileTyped' /\ SnapshotIsUnused' /\ RiskIsKnown'
    BY <1>1, <1>3, <2>2 DEF FileInv, FileTyped, SnapshotIsUnused, RiskIsKnown
  <2> QED BY <2>2, <2>4, <2>5 DEF FileInv
<1> QED BY <1>2, <1>3 DEF Files!Decide

LEMMA FileBreaks ==
    ASSUME FileConstants, FileInv, Files!Breaks
    PROVE  FileInv'
<1>1. /\ op # None /\ op.at \in Processing /\ op' = None /\ Files!Ends("failed", "unsaid", None)
      /\ UNCHANGED <<page, disk, input, snapshot, used, risk, entered, late>> /\ op.at \notin Preparing
      /\ op.at # "set"
  BY DEF Files!Breaks, Files!Ends, Files!World, Processing, Preparing, Unbased
<1>2. FileTyped' /\ SnapshotIsUnused' /\ RiskIsKnown'
  BY <1>1 DEF FileInv, FileTyped, SnapshotIsUnused, RiskIsKnown
<1> QED BY <1>1, <1>2, FileEnds

LEMMA FileNext == FileConstants /\ FileInv /\ [Files!Next]_(Files!vars) => FileInv'
<1> SUFFICES ASSUME FileConstants, FileInv, [Files!Next]_(Files!vars) PROVE FileInv'
  OBVIOUS
<1>1. CASE UNCHANGED Files!vars
  BY <1>1 DEF Files!vars, FileInv, FileTyped, SnapshotIsUnused, SelectionIsSound, InputIsSound, Held, Files!Alive,
     QuietIsNoted,
     RiskIsKnown, AnswerIsSo, Files!ConfirmedIsObserved, Files!CompletionIsATransition, Files!Said
<1>2. CASE Files!Next
  <2>1. Listens
    BY <1>2 DEF Files!Next, Listens
  <2> QED BY <1>2, <2>1, FileChanges, FileNavigates, FilePerson, FileBegins, FileChecks, FileBaseline, FileArms,
       FileSets,
       FileFails, FileReturns, FileConfirms, FileProgress, FileMarkers, FileDecides, FileBreaks DEF Files!Next
<1> QED BY <1>1, <1>2

LEMMA FileSafe ==
    FileInv => /\ Files!TypeOK /\ Files!ConfirmedIsObserved /\ Files!OneSelectionPerSnapshot /\ Files!SelectionIsRisk
               /\ Files!CompletionIsATransition
<1> SUFFICES ASSUME FileInv
             PROVE  /\ Files!TypeOK /\ Files!ConfirmedIsObserved /\ Files!OneSelectionPerSnapshot
               /\ Files!SelectionIsRisk
                    /\ Files!CompletionIsATransition
  OBVIOUS
<1>1. Files!TypeOK
  BY DEF FileInv, FileTyped, FilePages, SelectionIsSound, Files!TypeOK, Preparing, Unbased
<1> QED BY <1>1 DEF FileInv, SnapshotIsUnused, RiskIsKnown, AnswerIsSo, Files!OneSelectionPerSnapshot,
     Files!SelectionIsRisk

\* A snapshot lets one file selection through; it is confirmed only when the input
\* held the file as it was examined, a document that received files is known to be
\* unsaved whatever ends the command, and a completion is a signal that was not
\* there at some moment since the command began (files.ts, file-processing.ts).
THEOREM SelectionsAreConfirmedAndKnown == ASSUME FileConstants PROVE Spec => []FilesAreWatched
<1> DEFINE Inv == part = "files" => FileInv
<1>1. Init => Inv
  BY FileInit, PartsBegin
<1>2. Inv /\ [Next]_vars => Inv'
  BY FileNext, PartsGoOn
<1>3. Inv => FilesAreWatched
  BY FileSafe DEF FilesAreWatched
<1> QED BY <1>1, <1>2, <1>3, PTL DEF Spec

-----------------------------------------------------------------------------
\* The plan of a form (FormPlan).
\* What a page, a summary, a retained form and a plan are; None is none of them.
Elements == [node : Nat, id : DOMAIN FieldKinds, form : Nat]
FormScopes == {"document", "modal"}
FormPages == [doc : Nat, scope : FormScopes, next : Nat, reused : SUBSET Nat, dom : Seq(Elements)]
Captures == [at : Nat, was : Elements]
Summaries == [doc : Nat, scope : FormScopes, at : Nat, total : Nat, held : Elements \cup {None},
              fields : Seq(Captures)]
Forms == [id : Nat, doc : Nat, scope : FormScopes, fields : Seq(Captures)]
PlanSteps == [field : Nat, kind : Form!StepKinds]
Told == {"no", "yes", "unknown"}
Plans == [form : Forms, steps : Seq(PlanSteps), session : BOOLEAN, at : Nat,
          pc : {"resolve", "candidates", "act", "after", "completed"}, field : Nat \cup {None},
          rebound : BOOLEAN, matches : Seq(Elements), seen : Nat, total : Nat,
          held : Elements \cup {None}, told : Told, done : Seq(Told)]
FormConstants ==
    /\ Fields \subseteq Seq([id : DOMAIN FieldKinds, form : Nat])
    /\ MaxChanges \in Nat /\ MaxForms \in Nat /\ MaxFields \in Nat /\ MaxWorkflows \in Nat
    /\ None \notin Elements \cup Summaries \cup Forms \cup Plans

\* A node of the page is one element only, and as long as the page has not reused it
\* in place one field only: whatever has node n looks like e and belongs to the form
\* e belongs to. It is in no other document.
KnownAs(p, n, e) ==
    /\ n \in Nat /\ n < p.next
    /\ \A i \in Form!Positions(p.dom) :
         p.dom[i].node = n /\ n \notin p.reused => p.dom[i].id = e.id /\ p.dom[i].form = e.form
OnlyIn(p, n, d) == p.doc # d => \A i \in Form!Positions(p.dom) : p.dom[i].node # n

PageIsWhole(p) ==
    /\ p \in FormPages
    /\ \A i \in Form!Positions(p.dom) : p.dom[i].node < p.next
    /\ \A i, j \in Form!Positions(p.dom) : p.dom[i].node = p.dom[j].node => i = j
CapturesHold(p, fields) == \A i \in Form!Positions(fields) : KnownAs(p, fields[i].was.node, fields[i].was)
FormHolds(p, f) ==
    /\ f \in Forms /\ CapturesHold(p, f.fields)
    /\ \A i \in Form!Positions(f.fields) : OnlyIn(p, f.fields[i].was.node, f.doc)

\* While candidates are read, those that match, and the one whose form has been read,
\* were read to be like the planned field w; what is written is its very node or the
\* one match.
Trying(p, x, w) == x.pc = "candidates" =>
    /\ \A k \in Form!Positions(x.matches) :
         x.matches[k].id = w.id /\ x.matches[k].form = w.form /\ KnownAs(p, x.matches[k].node, w)
    /\ x.held # None => x.held.form = w.form /\ KnownAs(p, x.held.node, x.held)
Writing(p, x, w) == x.pc = "act" =>
    /\ KnownAs(p, x.field, w) /\ OnlyIn(p, x.field, x.form.doc)
    /\ IF x.rebound THEN x.matches = <<[node |-> x.field, id |-> w.id, form |-> w.form]>> ELSE x.field = w.node
Planned(x) == x.form.fields[x.steps[x.at].field].was
PlanHolds(p, x) ==
    /\ x \in Plans /\ FormHolds(p, x.form)
    /\ x.at \in Form!Positions(x.steps)
    /\ \A s \in Form!Positions(x.steps) : x.steps[s].field \in Form!Positions(x.form.fields)
    /\ Len(x.done) = x.at - (IF x.pc = "completed" THEN 0 ELSE 1)
    /\ Trying(p, x, Planned(x)) /\ Writing(p, x, Planned(x))

Counted == workflows \in Nat /\ made \in 0 .. MaxForms /\ changes \in 0 .. MaxChanges
FormInv ==
    /\ Counted /\ PageIsWhole(page)
    /\ summary # None
         => /\ summary \in Summaries /\ CapturesHold(page, summary.fields) /\ made < MaxForms /\ plan = None
            /\ summary.held # None => KnownAs(page, summary.held.node, summary.held)
    /\ retained # None => FormHolds(page, retained)
    /\ plan # None => PlanHolds(page, plan) /\ retained = None /\ (plan.session => workflows > 0)

\* Each element of a page is one of it before, unchanged or reused, or has a new node.
Follows(p, q) ==
    /\ p.next <= q.next /\ p.reused \subseteq q.reused
    /\ \A j \in Form!Positions(q.dom) :
        \/ q.dom[j].node >= p.next
        \/ /\ p.doc = q.doc
           /\ \E i \in Form!Positions(p.dom) :
                q.dom[j].node = p.dom[i].node /\ (q.dom[j] = p.dom[i] \/ q.dom[j].node \in q.reused)

\* A function on 1 .. n is a sequence of n members.
LEMMA SequenceOf ==
    ASSUME NEW S, NEW n \in Nat, NEW f \in [1 .. n -> S]
    PROVE  f \in Seq(S) /\ Len(f) = n
<1>1. f \in Seq(S)
  BY SeqDef
<1>2. Len(f) \in Nat /\ DOMAIN f = 1 .. Len(f)
  BY <1>1, LenProperties
<1>3. DOMAIN f = 1 .. n
  OBVIOUS
<1> QED BY <1>1, <1>2, <1>3

LEMMA FormKept ==
    ASSUME NEW p \in FormPages, NEW q \in FormPages, Follows(p, q)
    PROVE  /\ \A n, e : KnownAs(p, n, e) => KnownAs(q, n, e)
           /\ \A n, e, d : KnownAs(p, n, e) /\ OnlyIn(p, n, d) => OnlyIn(q, n, d)
<1>1. p.next \in Nat /\ q.next \in Nat /\ \A j \in Form!Positions(q.dom) : q.dom[j].node \in Nat
  <2>1. p.next \in Nat /\ q.next \in Nat /\ q.dom \in Seq(Elements)
    BY DEF FormPages
  <2>2. \A j \in Form!Positions(q.dom) : q.dom[j] \in Elements
    BY <2>1, ElementOfSeq DEF Form!Positions
  <2> QED BY <2>1, <2>2 DEF Elements
<1>2. ASSUME NEW n, NEW e, KnownAs(p, n, e) PROVE KnownAs(q, n, e)
  BY <1>1, <1>2 DEF KnownAs, Follows
<1>3. ASSUME NEW n, NEW e, NEW d, KnownAs(p, n, e), OnlyIn(p, n, d) PROVE OnlyIn(q, n, d)
  BY <1>1, <1>3 DEF KnownAs, OnlyIn, Follows
<1> QED BY <1>2, <1>3

\* What was captured and planned holds of such a page, too.
LEMMA FormFollows ==
    ASSUME NEW p, PageIsWhole(p), NEW q, PageIsWhole(q), Follows(p, q)
    PROVE  /\ \A fields : CapturesHold(p, fields) => CapturesHold(q, fields)
           /\ \A f : FormHolds(p, f) => FormHolds(q, f)
           /\ \A x : PlanHolds(p, x) => PlanHolds(q, x)
<1>1. /\ \A n, e : KnownAs(p, n, e) => KnownAs(q, n, e)
      /\ \A n, e, d : KnownAs(p, n, e) /\ OnlyIn(p, n, d) => OnlyIn(q, n, d)
  BY FormKept DEF PageIsWhole
<1>2. \A fields : CapturesHold(p, fields) => CapturesHold(q, fields)
  BY <1>1 DEF CapturesHold
<1>3. \A f : FormHolds(p, f) => FormHolds(q, f)
  BY <1>1, <1>2 DEF FormHolds, CapturesHold
<1>4. ASSUME NEW x, PlanHolds(p, x) PROVE PlanHolds(q, x)
  BY <1>1, <1>3, <1>4 DEF PlanHolds, Trying, Writing
<1> QED BY <1>2, <1>3, <1>4

LEMMA FormInit == FormConstants /\ Form!Init => FormInv
<1> SUFFICES ASSUME FormConstants, Form!Init PROVE FormInv
  OBVIOUS
<1> USE DEF Form!Positions
<1>1. PICK Dom \in Fields :
        page = [doc |-> 1, scope |-> "document", next |-> Len(Dom) + 1, reused |-> {},
                dom |-> [i \in Form!Positions(Dom) |-> [node |-> i, id |-> Dom[i].id, form |-> Dom[i].form]]]
  BY DEF Form!Init
<1>2. Dom \in Seq([id : DOMAIN FieldKinds, form : Nat]) /\ Len(Dom) \in Nat
  BY <1>1, LenProperties DEF FormConstants
<1>2a. \A i \in 1 .. Len(Dom) : Dom[i] \in [id : DOMAIN FieldKinds, form : Nat]
  BY <1>2, ElementOfSeq
<1> DEFINE dom == [i \in Form!Positions(Dom) |-> [node |-> i, id |-> Dom[i].id, form |-> Dom[i].form]]
<1>3. \A i \in Form!Positions(Dom) : dom[i] \in Elements /\ dom[i].node = i
  <2> SUFFICES ASSUME NEW i \in Form!Positions(Dom) PROVE dom[i] \in Elements /\ dom[i].node = i
    OBVIOUS
  <2>1. Dom[i] \in [id : DOMAIN FieldKinds, form : Nat] /\ i \in Nat
    BY <1>2, <1>2a
  <2>2. dom[i] = [node |-> i, id |-> Dom[i].id, form |-> Dom[i].form]
    OBVIOUS
  <2>3. Dom[i].id \in DOMAIN FieldKinds /\ Dom[i].form \in Nat
    BY <2>1
  <2> HIDE DEF dom
  <2> QED BY <2>1, <2>2, <2>3 DEF Elements
<1>4. dom \in Seq(Elements) /\ Len(dom) = Len(Dom)
  <2>1. dom \in [1 .. Len(Dom) -> Elements]
    BY <1>3 DEF Form!Positions
  <2> QED BY <1>2, <2>1, SequenceOf
<1> HIDE DEF dom
<1>5. page.doc = 1 /\ page.scope = "document" /\ page.next = Len(Dom) + 1 /\ page.dom = dom /\ page \in FormPages
  <2>1. page = [doc |-> 1, scope |-> "document", next |-> Len(Dom) + 1, reused |-> {}, dom |-> dom]
    BY <1>1 DEF dom
  <2> QED BY <1>2, <1>4, <2>1 DEF FormPages, FormScopes
<1>6. PageIsWhole(page)
  BY <1>2, <1>3, <1>4, <1>5 DEF PageIsWhole, Form!Positions
<1> QED BY <1>6 DEF Form!Init, FormInv, Counted, FormConstants

\* An element that is rendered again keeps its looks and has a node of its own.
LEMMA FormFresh ==
    ASSUME PageIsWhole(page), NEW i \in Form!Positions(page.dom)
    PROVE  /\ page.next \in Nat /\ page.dom[i] \in Elements /\ Form!Fresh(page.dom[i]) \in Elements
           /\ Form!Fresh(page.dom[i]).node = page.next
<1>1. page.next \in Nat /\ page.dom \in Seq(Elements)
  BY DEF PageIsWhole, FormPages
<1>2. page.dom[i] \in Elements
  BY <1>1, ElementOfSeq DEF Form!Positions
<1> QED BY <1>1, <1>2 DEF Form!Fresh, Elements

\* What makes a page of other elements one that follows.
LEMMA FormMoves ==
    ASSUME PageIsWhole(page), NEW dom \in Seq(Elements), NEW next \in Nat, NEW d \in Nat,
           page' = [doc |-> d, scope |-> page.scope, next |-> next, reused |-> page.reused, dom |-> dom],
           page.next <= next,
           \A j \in 1 .. Len(dom) : dom[j].node < next,
           \A j \in 1 .. Len(dom) :
               \/ dom[j].node >= page.next
               \/ d = page.doc /\ \E i \in 1 .. Len(page.dom) : dom[j] = page.dom[i],
           \A j, k \in 1 .. Len(dom) : dom[j].node = dom[k].node => j = k
    PROVE  PageIsWhole(page') /\ Follows(page, page')
<1>1. /\ page'.doc = d /\ page'.scope = page.scope /\ page'.next = next /\ page'.dom = dom
      /\ page'.reused = page.reused
  OBVIOUS
<1>2. page' \in FormPages
  BY DEF PageIsWhole, FormPages
<1> QED BY <1>1, <1>2 DEF PageIsWhole, Follows, Form!Positions

\* The fields of a page.
LEMMA FormPage ==
    ASSUME PageIsWhole(page)
    PROVE  /\ page = [doc |-> page.doc, scope |-> page.scope, next |-> page.next, reused |-> page.reused, dom |-> page.dom]
           /\ page.dom \in Seq(Elements) /\ page.next \in Nat /\ page.doc \in Nat /\ Len(page.dom) \in Nat
           /\ \A j \in 1 .. Len(page.dom) : page.dom[j] \in Elements /\ page.dom[j].node \in Nat
           /\ \A j \in 1 .. Len(page.dom) : page.dom[j].node < page.next
           /\ \A j, k \in 1 .. Len(page.dom) : page.dom[j].node = page.dom[k].node => j = k
<1>1. page \in FormPages /\ page.dom \in Seq(Elements)
  BY DEF PageIsWhole, FormPages
<1>2. \A j \in 1 .. Len(page.dom) : page.dom[j] \in Elements
  BY <1>1, ElementOfSeq
<1>3. page = [doc |-> page.doc, scope |-> page.scope, next |-> page.next, reused |-> page.reused, dom |-> page.dom]
  BY <1>1 DEF FormPages
<1>4. Len(page.dom) \in Nat
  BY <1>1, LenProperties
<1>5. page.next \in Nat /\ page.doc \in Nat
  BY <1>1 DEF FormPages
<1>6. \A j \in 1 .. Len(page.dom) : page.dom[j].node \in Nat
  BY <1>2 DEF Elements
<1> QED BY <1>1, <1>2, <1>3, <1>4, <1>5, <1>6 DEF PageIsWhole, Form!Positions

LEMMA FormReplaces ==
    ASSUME PageIsWhole(page), NEW i \in Form!Positions(page.dom), Form!ReplaceField(i)
    PROVE  PageIsWhole(page') /\ Follows(page, page')
<1>1. /\ page.dom \in Seq(Elements) /\ page.next \in Nat /\ page.doc \in Nat /\ Len(page.dom) \in Nat
      /\ i \in 1 .. Len(page.dom)
      /\ \A j \in 1 .. Len(page.dom) : page.dom[j] \in Elements /\ page.dom[j].node \in Nat
      /\ \A j \in 1 .. Len(page.dom) : page.dom[j].node < page.next
      /\ \A j, k \in 1 .. Len(page.dom) : page.dom[j].node = page.dom[k].node => j = k
  BY FormPage DEF Form!Positions
<1> DEFINE e == Form!Fresh(page.dom[i])
           dom == [page.dom EXCEPT ![i] = e]
<1>2. e \in Elements /\ e.node = page.next
  BY FormFresh
<1> HIDE DEF e
<1>3. /\ dom \in Seq(Elements) /\ Len(dom) = Len(page.dom)
      /\ \A j \in 1 .. Len(page.dom) : dom[j] = IF j = i THEN e ELSE page.dom[j]
  BY <1>1, <1>2, ExceptSeq
<1>4. page' = [page EXCEPT !.dom = dom, !.next = page.next + 1]
  <2>1. page' = [page EXCEPT !.dom = [page.dom EXCEPT ![i] = e], !.next = page.next + 1]
    BY FormPage DEF Form!ReplaceField, e
  <2> QED BY <2>1
<1> HIDE DEF dom
<1>5. page' = [doc |-> page.doc, scope |-> page.scope, next |-> page.next + 1, reused |-> page.reused, dom |-> dom]
  BY <1>4, FormPage
<1>6. \A j \in 1 .. Len(dom) :
        /\ dom[j].node < page.next + 1
        /\ dom[j].node >= page.next \/ \E k \in 1 .. Len(page.dom) : dom[j] = page.dom[k]
  BY <1>1, <1>2, <1>3
<1>7. \A j, k \in 1 .. Len(dom) : dom[j].node = dom[k].node => j = k
  BY <1>1, <1>2, <1>3
<1>8. page.next + 1 \in Nat /\ page.next <= page.next + 1
  BY <1>1
<1> QED BY <1>1, <1>3, <1>5, <1>6, <1>7, <1>8, FormMoves

\* The elements that are left without one of them.
LEMMA FormLeaves ==
    ASSUME PageIsWhole(page), NEW i \in Form!Positions(page.dom)
    PROVE  /\ Form!RemoveAt(page.dom, i) \in Seq(Elements) /\ Len(Form!RemoveAt(page.dom, i)) = Len(page.dom) - 1
           /\ \A j \in 1 .. Len(page.dom) - 1 :
                Form!RemoveAt(page.dom, i)[j] = IF j < i THEN page.dom[j] ELSE page.dom[j + 1]
<1>1. page.dom \in Seq(Elements) /\ Len(page.dom) \in Nat /\ i \in 1 .. Len(page.dom)
  BY FormPage DEF Form!Positions
<1> DEFINE before == SubSeq(page.dom, 1, i - 1)
           after == SubSeq(page.dom, i + 1, Len(page.dom))
           dom == before \o after
<1>2. /\ before \in Seq(Elements) /\ Len(before) = i - 1
      /\ \A j \in 1 .. i - 1 : before[j] = page.dom[j]
  BY <1>1, SubSeqProperties
<1>3. /\ after \in Seq(Elements) /\ Len(after) = Len(page.dom) - i
      /\ \A j \in 1 .. Len(page.dom) - i : after[j] = page.dom[i + j]
  BY <1>1, SubSeqProperties
<1>4. Form!RemoveAt(page.dom, i) = dom
  BY DEF Form!RemoveAt
<1> HIDE DEF before, after
<1>5. /\ dom \in Seq(Elements) /\ Len(dom) = Len(before) + Len(after)
      /\ \A j \in 1 .. Len(before) + Len(after) :
            dom[j] = IF j <= Len(before) THEN before[j] ELSE after[j - Len(before)]
  BY <1>2, <1>3, ConcatProperties
<1> HIDE DEF dom
<1>6. Len(dom) = Len(page.dom) - 1
  BY <1>1, <1>2, <1>3, <1>5
<1>7. ASSUME NEW j \in 1 .. Len(page.dom) - 1
      PROVE  dom[j] = IF j < i THEN page.dom[j] ELSE page.dom[j + 1]
  <2>1. dom[j] = IF j <= i - 1 THEN before[j] ELSE after[j - (i - 1)]
    BY <1>1, <1>2, <1>3, <1>5
  <2>2. CASE j < i
    BY <1>1, <1>2, <2>1, <2>2
  <2>3. CASE j >= i
    <3>1. j - (i - 1) \in 1 .. Len(page.dom) - i /\ i + (j - (i - 1)) = j + 1
      BY <1>1, <2>3
    <3> QED BY <1>1, <1>3, <2>1, <2>3, <3>1
  <2> QED BY <1>1, <2>2, <2>3
<1> QED BY <1>4, <1>5, <1>6, <1>7

LEMMA FormRemoves ==
    ASSUME PageIsWhole(page), NEW i \in Form!Positions(page.dom), Form!RemoveField(i)
    PROVE  PageIsWhole(page') /\ Follows(page, page')
<1>1. /\ page.dom \in Seq(Elements) /\ page.next \in Nat /\ page.doc \in Nat /\ Len(page.dom) \in Nat
      /\ i \in 1 .. Len(page.dom)
      /\ \A j \in 1 .. Len(page.dom) : page.dom[j] \in Elements /\ page.dom[j].node \in Nat
      /\ \A j \in 1 .. Len(page.dom) : page.dom[j].node < page.next
      /\ \A j, k \in 1 .. Len(page.dom) : page.dom[j].node = page.dom[k].node => j = k
  BY FormPage DEF Form!Positions
<1> DEFINE dom == Form!RemoveAt(page.dom, i)
<1>4. /\ dom \in Seq(Elements) /\ Len(dom) = Len(page.dom) - 1
      /\ \A j \in 1 .. Len(page.dom) - 1 : dom[j] = IF j < i THEN page.dom[j] ELSE page.dom[j + 1]
  BY FormLeaves
<1>5. page' = [page EXCEPT !.dom = dom]
  BY FormPage DEF Form!RemoveField
<1> HIDE DEF dom
<1>6. page' = [doc |-> page.doc, scope |-> page.scope, next |-> page.next, reused |-> page.reused, dom |-> dom]
  <2>1. page = [doc |-> page.doc, scope |-> page.scope, next |-> page.next, reused |-> page.reused, dom |-> page.dom]
    BY FormPage
  <2> QED BY <1>5, <2>1
<1> DEFINE was(j) == IF j < i THEN j ELSE j + 1
<1>7. \A j \in 1 .. Len(dom) : was(j) \in 1 .. Len(page.dom) /\ dom[j] = page.dom[was(j)]
  BY <1>1, <1>4
<1>8. \A j, k \in 1 .. Len(dom) : was(j) = was(k) => j = k
  BY <1>1, <1>4
<1> HIDE DEF was
<1>9. \A j \in 1 .. Len(dom) : dom[j].node < page.next /\ \E k \in 1 .. Len(page.dom) : dom[j] = page.dom[k]
  BY <1>1, <1>7
<1>10. ASSUME NEW j \in 1 .. Len(dom), NEW k \in 1 .. Len(dom), dom[j].node = dom[k].node PROVE j = k
  <2>1. /\ was(j) \in 1 .. Len(page.dom) /\ was(k) \in 1 .. Len(page.dom)
        /\ page.dom[was(j)].node = page.dom[was(k)].node
    BY <1>7, <1>10
  <2>2. was(j) = was(k)
    BY <1>1, <2>1
  <2> QED BY <1>8, <2>2
<1>11. page.next <= page.next
  BY <1>1
<1> QED BY <1>1, <1>4, <1>6, <1>9, <1>10, <1>11, FormMoves

LEMMA FormShifts ==
    ASSUME PageIsWhole(page), NEW i \in Form!Positions(page.dom), Form!MoveField(i)
    PROVE  PageIsWhole(page') /\ Follows(page, page')
<1>1. /\ page.dom \in Seq(Elements) /\ page.next \in Nat /\ page.doc \in Nat /\ Len(page.dom) \in Nat
      /\ i \in 1 .. Len(page.dom)
      /\ \A j \in 1 .. Len(page.dom) : page.dom[j] \in Elements /\ page.dom[j].node \in Nat
      /\ \A j \in 1 .. Len(page.dom) : page.dom[j].node < page.next
      /\ \A j, k \in 1 .. Len(page.dom) : page.dom[j].node = page.dom[k].node => j = k
  BY FormPage DEF Form!Positions
<1> DEFINE rest == Form!RemoveAt(page.dom, i)
           dom == Append(rest, page.dom[i])
           was(j) == IF j < i THEN j ELSE IF j < Len(page.dom) THEN j + 1 ELSE i
<1>2. /\ rest \in Seq(Elements) /\ Len(rest) = Len(page.dom) - 1
      /\ \A j \in 1 .. Len(page.dom) - 1 : rest[j] = IF j < i THEN page.dom[j] ELSE page.dom[j + 1]
  BY FormLeaves
<1>3. page' = [page EXCEPT !.dom = dom]
  BY FormPage DEF Form!MoveField
<1> HIDE DEF rest
<1>4. /\ dom \in Seq(Elements) /\ Len(dom) = Len(page.dom) /\ dom[Len(page.dom)] = page.dom[i]
      /\ \A j \in 1 .. Len(page.dom) - 1 : dom[j] = rest[j]
  BY <1>1, <1>2
<1> HIDE DEF dom
<1>5. page' = [doc |-> page.doc, scope |-> page.scope, next |-> page.next, reused |-> page.reused, dom |-> dom]
  <2>1. page = [doc |-> page.doc, scope |-> page.scope, next |-> page.next, reused |-> page.reused, dom |-> page.dom]
    BY FormPage
  <2> QED BY <1>3, <2>1
<1>6. ASSUME NEW j \in 1 .. Len(dom) PROVE was(j) \in 1 .. Len(page.dom) /\ dom[j] = page.dom[was(j)]
  <2>1. CASE j = Len(page.dom)
    BY <1>1, <1>4, <2>1
  <2>2. CASE j \in 1 .. Len(page.dom) - 1
    BY <1>1, <1>2, <1>4, <2>2
  <2> QED BY <1>1, <1>4, <2>1, <2>2
<1>7. \A j, k \in 1 .. Len(dom) : was(j) = was(k) => j = k
  BY <1>1, <1>4
<1> HIDE DEF was
<1>8. \A j \in 1 .. Len(dom) : dom[j].node < page.next /\ \E k \in 1 .. Len(page.dom) : dom[j] = page.dom[k]
  BY <1>1, <1>6
<1>9. ASSUME NEW j \in 1 .. Len(dom), NEW k \in 1 .. Len(dom), dom[j].node = dom[k].node PROVE j = k
  <2>1. /\ was(j) \in 1 .. Len(page.dom) /\ was(k) \in 1 .. Len(page.dom)
        /\ page.dom[was(j)].node = page.dom[was(k)].node
    BY <1>6, <1>9
  <2>2. was(j) = was(k)
    BY <1>1, <2>1
  <2> QED BY <1>7, <2>2
<1>10. /\ \A j \in 1 .. Len(dom) : dom[j].node < page.next
       /\ \A j \in 1 .. Len(dom) :
            dom[j].node >= page.next \/ (page.doc = page.doc /\ \E k \in 1 .. Len(page.dom) : dom[j] = page.dom[k])
       /\ \A j, k \in 1 .. Len(dom) : dom[j].node = dom[k].node => j = k
  BY <1>8, <1>9
<1>11. page.next <= page.next /\ dom \in Seq(Elements) /\ page.next \in Nat /\ page.doc \in Nat
  BY <1>1, <1>4
<1> QED BY <1>5, <1>10, <1>11, FormMoves

\* An element that is reused in place keeps its node, which is noted.
LEMMA FormReuses ==
    ASSUME PageIsWhole(page), NEW i \in Form!Positions(page.dom), Form!ReuseField(i)
    PROVE  PageIsWhole(page') /\ Follows(page, page')
<1>1. /\ page.dom \in Seq(Elements) /\ page.next \in Nat /\ page.doc \in Nat /\ Len(page.dom) \in Nat
      /\ i \in 1 .. Len(page.dom)
      /\ \A j \in 1 .. Len(page.dom) : page.dom[j] \in Elements /\ page.dom[j].node \in Nat
      /\ \A j \in 1 .. Len(page.dom) : page.dom[j].node < page.next
      /\ \A j, k \in 1 .. Len(page.dom) : page.dom[j].node = page.dom[k].node => j = k
  BY FormPage DEF Form!Positions
<1>2. page \in FormPages /\ page.reused \in SUBSET Nat
  BY DEF PageIsWhole, FormPages
<1>3. PICK id \in DOMAIN FieldKinds, form \in Form!Owners :
        page' = [page EXCEPT !.dom[i].id = id, !.dom[i].form = form, !.reused = @ \cup {page.dom[i].node}]
  BY DEF Form!ReuseField
<1>4. form \in Nat
  <2>1. CASE form = 0
    BY <2>1
  <2>2. CASE \E e \in Form!Range(page.dom) : form = e.form
    <3>1. PICK j \in 1 .. Len(page.dom) : form = page.dom[j].form
      BY <1>1, <2>2, LenProperties DEF Form!Range
    <3> QED BY <1>1, <3>1 DEF Elements
  <2> QED BY <1>3, <2>1, <2>2 DEF Form!Owners
<1> DEFINE e == [page.dom[i] EXCEPT !.id = id, !.form = form]
           dom == [page.dom EXCEPT ![i] = e]
           reused == page.reused \cup {page.dom[i].node}
<1>5. e \in Elements /\ e.node = page.dom[i].node
  <2>1. page.dom[i] \in Elements
    BY <1>1
  <2> QED BY <1>3, <1>4, <2>1 DEF Elements
<1>6. page' = [page EXCEPT !.dom = dom, !.reused = reused]
  <2>1. page'.dom = [page.dom EXCEPT ![i].id = id, ![i].form = form]
    BY <1>2, <1>3 DEF FormPages
  <2>2. page'.dom = dom
    BY <1>1, <2>1
  <2>3. page' = [page EXCEPT !.dom = page'.dom, !.reused = reused]
    BY <1>2, <1>3 DEF FormPages
  <2> QED BY <2>2, <2>3
<1> HIDE DEF e
<1>7. /\ dom \in Seq(Elements) /\ Len(dom) = Len(page.dom)
      /\ \A j \in 1 .. Len(page.dom) : dom[j] = IF j = i THEN e ELSE page.dom[j]
  BY <1>1, <1>5, ExceptSeq
<1>8. reused \in SUBSET Nat /\ page.dom[i].node \in reused /\ page.reused \subseteq reused
  BY <1>1, <1>2
<1> HIDE DEF dom, reused
<1>9. /\ page' \in FormPages /\ page'.dom = dom /\ page'.reused = reused /\ page'.next = page.next
      /\ page'.doc = page.doc
  BY <1>2, <1>6, <1>7, <1>8 DEF FormPages
<1>10. \A j \in 1 .. Len(dom) : dom[j].node = page.dom[j].node /\ (dom[j] = page.dom[j] \/ dom[j].node \in reused)
  BY <1>1, <1>5, <1>7, <1>8
<1>11. PageIsWhole(page')
  BY <1>1, <1>7, <1>9, <1>10 DEF PageIsWhole, Form!Positions
<1>12. Follows(page, page')
  BY <1>1, <1>7, <1>8, <1>9, <1>10 DEF Follows, Form!Positions
<1> QED BY <1>11, <1>12

LEMMA FormAdds ==
    ASSUME PageIsWhole(page), NEW i \in Form!Positions(page.dom), Form!AddField(i)
    PROVE  PageIsWhole(page') /\ Follows(page, page')
<1>1. /\ page.dom \in Seq(Elements) /\ page.next \in Nat /\ page.doc \in Nat /\ Len(page.dom) \in Nat
      /\ i \in 1 .. Len(page.dom)
      /\ \A j \in 1 .. Len(page.dom) : page.dom[j] \in Elements /\ page.dom[j].node \in Nat
      /\ \A j \in 1 .. Len(page.dom) : page.dom[j].node < page.next
      /\ \A j, k \in 1 .. Len(page.dom) : page.dom[j].node = page.dom[k].node => j = k
  BY FormPage DEF Form!Positions
<1> DEFINE e == Form!Fresh(page.dom[i])
           dom == Append(page.dom, e)
<1>2. e \in Elements /\ e.node = page.next
  BY FormFresh
<1> HIDE DEF e
<1>3. /\ dom \in Seq(Elements) /\ Len(dom) = Len(page.dom) + 1 /\ dom[Len(page.dom) + 1] = e
      /\ \A j \in 1 .. Len(page.dom) : dom[j] = page.dom[j]
  BY <1>1, <1>2
<1>4. page' = [page EXCEPT !.dom = dom, !.next = page.next + 1]
  <2>1. page' = [page EXCEPT !.dom = Append(page.dom, e), !.next = page.next + 1]
    BY FormPage DEF Form!AddField, e
  <2> QED BY <2>1
<1> HIDE DEF dom
<1>5. page' = [doc |-> page.doc, scope |-> page.scope, next |-> page.next + 1, reused |-> page.reused, dom |-> dom]
  BY <1>4, FormPage
<1>6. \A j \in 1 .. Len(dom) : j \in 1 .. Len(page.dom) \/ j = Len(page.dom) + 1
  BY <1>1, <1>3
<1>7. ASSUME NEW j \in 1 .. Len(dom)
      PROVE  /\ dom[j].node < page.next + 1
             /\ dom[j].node >= page.next \/ \E k \in 1 .. Len(page.dom) : dom[j] = page.dom[k]
  <2>1. CASE j \in 1 .. Len(page.dom)
    <3>1. dom[j] = page.dom[j] /\ dom[j].node < page.next /\ dom[j].node \in Nat
      BY <1>1, <1>3, <2>1
    <3> QED BY <1>1, <2>1, <3>1
  <2>2. CASE j = Len(page.dom) + 1
    BY <1>1, <1>2, <1>3, <2>2
  <2> QED BY <1>6, <2>1, <2>2
<1>8. ASSUME NEW j \in 1 .. Len(dom), NEW k \in 1 .. Len(dom), dom[j].node = dom[k].node PROVE j = k
  <2>1. CASE j \in 1 .. Len(page.dom) /\ k \in 1 .. Len(page.dom)
    BY <1>1, <1>3, <1>8, <2>1
  <2>2. CASE j = Len(page.dom) + 1 /\ k \in 1 .. Len(page.dom)
    BY <1>1, <1>2, <1>3, <1>8, <2>2
  <2>3. CASE k = Len(page.dom) + 1 /\ j \in 1 .. Len(page.dom)
    BY <1>1, <1>2, <1>3, <1>8, <2>3
  <2>4. CASE j = Len(page.dom) + 1 /\ k = Len(page.dom) + 1
    BY <2>4
  <2> QED BY <1>6, <2>1, <2>2, <2>3, <2>4
<1>9. page.next + 1 \in Nat /\ page.next <= page.next + 1
  BY <1>1
<1> QED BY <1>1, <1>3, <1>5, <1>7, <1>8, <1>9, FormMoves

LEMMA FormRenders ==
    ASSUME PageIsWhole(page), NEW d \in Nat, Form!RenderAll(d)
    PROVE  PageIsWhole(page') /\ Follows(page, page')
<1>1. /\ page.dom \in Seq(Elements) /\ page.next \in Nat /\ page.doc \in Nat /\ Len(page.dom) \in Nat
      /\ \A j \in 1 .. Len(page.dom) : page.dom[j] \in Elements /\ page.dom[j].node \in Nat
      /\ \A j \in 1 .. Len(page.dom) : page.dom[j].node < page.next
      /\ \A j, k \in 1 .. Len(page.dom) : page.dom[j].node = page.dom[k].node => j = k
  BY FormPage DEF Form!Positions
<1>2. \A j \in 1 .. Len(page.dom) : Form!Rendered[j] \in Elements /\ Form!Rendered[j].node = page.next + j - 1
  <2> SUFFICES ASSUME NEW j \in 1 .. Len(page.dom)
               PROVE  Form!Rendered[j] \in Elements /\ Form!Rendered[j].node = page.next + j - 1
    OBVIOUS
  <2>1. Form!Rendered[j] = [Form!OtherForm(page.dom[j]) EXCEPT !.node = page.next + j - 1]
    BY DEF Form!Rendered, Form!Positions
  <2>2. Form!OtherForm(page.dom[j]) \in Elements
    <3>1. page.dom[j] \in Elements
      BY <1>1
    <3>2. CASE page.dom[j].form = 0
      BY <3>1, <3>2 DEF Form!OtherForm
    <3>3. CASE page.dom[j].form # 0
      <4>1. /\ Form!OtherForm(page.dom[j]) = [page.dom[j] EXCEPT !.form = page.dom[j].form + 2]
            /\ page.dom[j].form + 2 \in Nat
        BY <3>1, <3>3 DEF Form!OtherForm, Elements
      <4> QED BY <3>1, <4>1 DEF Elements
    <3> QED BY <3>2, <3>3
  <2>3. page.next + j - 1 \in Nat
    BY <1>1
  <2> QED BY <2>1, <2>2, <2>3 DEF Elements
<1>3. Form!Rendered \in Seq(Elements) /\ Len(Form!Rendered) = Len(page.dom)
  <2>1. Form!Rendered \in [1 .. Len(page.dom) -> Elements]
    BY <1>2 DEF Form!Rendered, Form!Positions
  <2> QED BY <1>1, <2>1, SequenceOf
<1>4. page' = [page EXCEPT !.dom = Form!Rendered, !.next = page.next + Len(page.dom), !.doc = d]
  BY DEF Form!RenderAll
<1>5. page' = [doc |-> d, scope |-> page.scope, next |-> page.next + Len(page.dom), reused |-> page.reused,
              dom |-> Form!Rendered]
  BY <1>4, FormPage
<1>6. \A j \in 1 .. Len(Form!Rendered) :
        Form!Rendered[j].node < page.next + Len(page.dom) /\ Form!Rendered[j].node >= page.next
  BY <1>1, <1>2, <1>3
<1>7. \A j, k \in 1 .. Len(Form!Rendered) : Form!Rendered[j].node = Form!Rendered[k].node => j = k
  BY <1>1, <1>2, <1>3
<1> QED BY <1>1, <1>3, <1>5, <1>6, <1>7, FormMoves

LEMMA FormChanges ==
    ASSUME FormConstants, FormInv, Form!PageChanges
    PROVE  FormInv'
<1>1. PageIsWhole(page) /\ page.doc \in Nat /\ page \in FormPages /\ Counted
  BY DEF FormInv, PageIsWhole, FormPages
<1>2. PageIsWhole(page') /\ Follows(page, page')
  <2>1. CASE \E i \in Form!Positions(page.dom) :
               \/ Form!ReplaceField(i) \/ Form!RemoveField(i) \/ Form!AddField(i) \/ Form!MoveField(i)
               \/ Form!ReuseField(i)
    BY <1>1, <2>1, FormReplaces, FormRemoves, FormAdds, FormShifts, FormReuses
  <2>2. CASE Form!RenderAll(page.doc) \/ Form!RenderAll(page.doc + 1)
    BY <1>1, <2>2, FormRenders
  <2>3. CASE page' = [page EXCEPT !.scope = IF @ = "modal" THEN "document" ELSE "modal"]
    <3>1. /\ page' \in FormPages /\ page'.dom = page.dom /\ page'.next = page.next /\ page'.doc = page.doc
          /\ page.next \in Nat /\ page'.reused = page.reused
      BY <1>1, <2>3 DEF FormPages, FormScopes
    <3> QED BY <1>1, <3>1 DEF PageIsWhole, Follows
  <2> QED BY <2>1, <2>2, <2>3 DEF Form!PageChanges
<1>3. Counted'
  BY <1>1 DEF Form!PageChanges, Counted, FormConstants
<1>4. UNCHANGED <<summary, retained, plan, workflows, made>>
  BY DEF Form!PageChanges
<1>5. /\ \A n, e : KnownAs(page, n, e) => KnownAs(page', n, e)
      /\ \A fields : CapturesHold(page, fields) => CapturesHold(page', fields)
      /\ \A f : FormHolds(page, f) => FormHolds(page', f)
      /\ \A x : PlanHolds(page, x) => PlanHolds(page', x)
  <2>1. page' \in FormPages
    BY <1>2 DEF PageIsWhole
  <2> QED BY <1>1, <1>2, <2>1, FormFollows, FormKept
<1>6. summary' # None
        => /\ summary' \in Summaries /\ CapturesHold(page', summary'.fields) /\ made' < MaxForms /\ plan' = None
           /\ summary'.held # None => KnownAs(page', summary'.held.node, summary'.held)
  BY <1>4, <1>5 DEF FormInv
<1>7. /\ retained' # None => FormHolds(page', retained')
      /\ plan' # None => PlanHolds(page', plan') /\ retained' = None /\ (plan'.session => workflows' > 0)
  BY <1>4, <1>5 DEF FormInv
<1> QED BY <1>2, <1>3, <1>6, <1>7 DEF FormInv

\* The capture of a form: each element is captured as it is, or as it was.
LEMMA FormCaptures ==
    ASSUME FormConstants, FormInv, Form!BeginSummary \/ Form!CaptureField
    PROVE  FormInv'
<1>1. /\ UNCHANGED <<page, retained, plan, workflows, made, changes>>
      /\ page.dom \in Seq(Elements) /\ page.doc \in Nat /\ page.scope \in FormScopes /\ Len(page.dom) \in Nat
      /\ \A j \in 1 .. Len(page.dom) : page.dom[j] \in Elements /\ page.dom[j].node < page.next
      /\ \A j, k \in 1 .. Len(page.dom) : page.dom[j].node = page.dom[k].node => j = k
  BY FormPage DEF Form!BeginSummary, Form!CaptureField, FormInv, PageIsWhole, FormPages
<1>2. CASE Form!BeginSummary
  <2>1. summary' = [doc |-> page.doc, scope |-> page.scope, at |-> 1, total |-> Len(page.dom), held |-> None,
                    fields |-> <<>>]
    BY <1>2 DEF Form!BeginSummary
  <2>2. summary' \in Summaries /\ summary'.fields = <<>> /\ summary'.held = None
    BY <1>1, <2>1 DEF Summaries
  <2>3. CapturesHold(page, summary'.fields)
    BY <2>2 DEF CapturesHold, Form!Positions
  <2> QED BY <1>1, <1>2, <2>2, <2>3 DEF Form!BeginSummary, FormInv, Counted
<1>3. CASE Form!CaptureField
  <2>1. /\ summary # None /\ summary \in Summaries /\ CapturesHold(page, summary.fields) /\ made < MaxForms
        /\ plan = None /\ summary.held = None
    BY <1>3 DEF Form!CaptureField, FormInv
  <2>2. summary.at \in Nat
    BY <2>1 DEF Summaries
  <2>3. CASE summary' = [summary EXCEPT !.at = @ + 1]
    <3>1. summary' = [summary EXCEPT !.at = summary.at + 1] /\ summary.at + 1 \in Nat
      BY <2>1, <2>2, <2>3 DEF Summaries
    <3>2. summary' \in Summaries /\ summary'.fields = summary.fields /\ summary'.held = None
      BY <2>1, <3>1 DEF Summaries
    <3> QED BY <1>1, <2>1, <3>2 DEF FormInv, Counted
  <2>4. CASE summary.at \in Form!Positions(page.dom) /\ summary' = [summary EXCEPT !.held = page.dom[summary.at]]
    <3> DEFINE e == page.dom[summary.at]
    <3>1. e \in Elements
      BY <1>1, <2>4 DEF Form!Positions
    <3>2. KnownAs(page, e.node, e)
      BY <1>1, <2>4, <3>1 DEF KnownAs, Form!Positions, Elements
    <3>3. summary' = [summary EXCEPT !.held = e]
      BY <2>4
    <3> HIDE DEF e
    <3>4. summary' \in Summaries /\ summary'.fields = summary.fields /\ summary'.held = e
      BY <2>1, <3>1, <3>3 DEF Summaries
    <3> QED BY <1>1, <2>1, <3>2, <3>4 DEF FormInv, Counted
  <2> QED BY <1>3, <2>3, <2>4 DEF Form!CaptureField
<1> QED BY <1>2, <1>3

\* What is read of a node is a member of the page, at one place only.
LEMMA FormLive ==
    ASSUME PageIsWhole(page), NEW n
    PROVE  /\ \A e \in Form!Live(n) : \E i \in 1 .. Len(page.dom) : e = page.dom[i] /\ e \in Elements /\ e.node = n
           /\ \A i \in 1 .. Len(page.dom) : page.dom[i].node = n => page.dom[i] \in Form!Live(n)
<1>1. page.dom \in Seq(Elements) /\ DOMAIN page.dom = 1 .. Len(page.dom)
  BY FormPage, LenProperties
<1>2. \A i \in 1 .. Len(page.dom) : page.dom[i] \in Elements
  BY FormPage
<1> QED BY <1>1, <1>2 DEF Form!Live, Form!Range

\* Its owner form is read later: the node may be another field by then, or gone.
LEMMA FormOwners ==
    ASSUME FormConstants, FormInv, Form!CaptureOwner
    PROVE  FormInv'
<1>1. /\ UNCHANGED <<page, retained, plan, workflows, made, changes>> /\ PageIsWhole(page)
      /\ summary # None /\ summary \in Summaries /\ CapturesHold(page, summary.fields) /\ made < MaxForms
      /\ plan = None /\ summary.held # None /\ KnownAs(page, summary.held.node, summary.held)
  BY DEF Form!CaptureOwner, FormInv
<1>2. /\ summary.at \in Nat /\ summary.fields \in Seq(Captures) /\ Len(summary.fields) \in Nat
      /\ summary.held \in Elements
  BY <1>1, LenProperties DEF Summaries
<1>3. PICK form \in Form!OwnersRead(summary.held) :
        summary' = [summary EXCEPT !.at = @ + 1, !.held = None,
               !.fields = Append(@, [at |-> summary.at, was |-> [summary.held EXCEPT !.form = form]])]
  BY DEF Form!CaptureOwner
<1> DEFINE n == summary.held.node
           was == [summary.held EXCEPT !.form = form]
           capture == [at |-> summary.at, was |-> was]
           fields == Append(summary.fields, capture)
<1>4. /\ form \in Nat
      /\ \A i \in 1 .. Len(page.dom) : page.dom[i].node = n => form = page.dom[i].form
  <2>1. CASE Form!Live(n) = {}
    <3>1. form \in {0, summary.held.form}
      BY <2>1 DEF Form!OwnersRead
    <3> QED BY <1>1, <1>2, <2>1, <3>1, FormLive DEF Elements
  <2>2. CASE Form!Live(n) # {}
    <3>1. PICK now \in Form!Live(n) : form = now.form
      BY <2>2 DEF Form!OwnersRead
    <3>2. PICK i \in 1 .. Len(page.dom) : now = page.dom[i] /\ now \in Elements /\ now.node = n
      BY <1>1, FormLive
    <3>3. \A j \in 1 .. Len(page.dom) : page.dom[j].node = n => j = i
      BY <1>1, <3>2, FormPage
    <3> QED BY <3>1, <3>2, <3>3 DEF Elements
  <2> QED BY <2>1, <2>2
<1>5. was \in Elements /\ was.node = n /\ was.id = summary.held.id /\ was.form = form
  BY <1>2, <1>4 DEF Elements
<1>6. KnownAs(page, n, was)
  BY <1>1, <1>4, <1>5 DEF KnownAs, Form!Positions
<1> HIDE DEF was
<1>7. capture \in Captures /\ capture.was = was
  BY <1>2, <1>5 DEF Captures
<1> HIDE DEF capture
<1>8. /\ fields \in Seq(Captures) /\ Len(fields) = Len(summary.fields) + 1
      /\ fields[Len(summary.fields) + 1] = capture
      /\ \A i \in 1 .. Len(summary.fields) : fields[i] = summary.fields[i]
  BY <1>2, <1>7
<1>9. summary' = [summary EXCEPT !.at = summary.at + 1, !.held = None, !.fields = fields]
  BY <1>1, <1>3 DEF Summaries, capture, was
<1> HIDE DEF fields
<1>10. CapturesHold(page, fields)
  <2>1. ASSUME NEW i \in 1 .. Len(fields) PROVE KnownAs(page, fields[i].was.node, fields[i].was)
    <3>1. CASE i \in 1 .. Len(summary.fields)
      BY <1>1, <1>8, <3>1 DEF CapturesHold, Form!Positions
    <3>2. CASE i = Len(summary.fields) + 1
      BY <1>5, <1>6, <1>7, <1>8, <3>2
    <3> QED BY <1>2, <1>8, <3>1, <3>2
  <2> QED BY <2>1 DEF CapturesHold, Form!Positions
<1>11. summary' \in Summaries /\ summary'.fields = fields /\ summary'.held = None
  <2>1. summary.at + 1 \in Nat
    BY <1>2
  <2> QED BY <1>1, <1>8, <1>9, <2>1 DEF Summaries
<1> QED BY <1>1, <1>10, <1>11 DEF FormInv, Counted

\* A form is retained only over the document that it began with.
LEMMA FormRetains ==
    ASSUME FormConstants, FormInv, Form!Retain \/ Form!Discard
    PROVE  FormInv'
<1>1. UNCHANGED <<page, plan, workflows, changes>> /\ plan = None /\ Counted
  BY DEF Form!Retain, Form!Discard, FormInv
<1>2. CASE Form!Discard
  BY <1>1, <1>2 DEF Form!Discard, FormInv, Counted
<1>3. CASE Form!Retain
  <2>1. /\ summary \in Summaries /\ CapturesHold(page, summary.fields) /\ made < MaxForms /\ summary' = None
        /\ summary # None
    BY <1>3 DEF Form!Retain, FormInv
  <2>2. CASE page.doc # summary.doc
    BY <1>1, <1>3, <2>1, <2>2 DEF Form!Retain, FormInv, Counted
  <2>3. CASE page.doc = summary.doc
    <3>1. /\ made' = made + 1
          /\ retained' = [id |-> made + 1, doc |-> summary.doc, scope |-> summary.scope, fields |-> summary.fields]
      BY <1>3, <2>3 DEF Form!Retain
    <3>2. made + 1 \in 0 .. MaxForms
      BY <1>1, <2>1 DEF Counted, FormConstants
    <3>3. retained' \in Forms /\ retained'.doc = page.doc /\ retained'.fields = summary.fields
      BY <2>1, <2>3, <3>1, <3>2 DEF Summaries, Forms, FormConstants
    <3>4. FormHolds(page, retained')
      BY <2>1, <3>3 DEF FormHolds, OnlyIn
    <3> QED BY <1>1, <2>1, <3>1, <3>2, <3>4 DEF FormInv, Counted
  <2> QED BY <2>2, <2>3
<1> QED BY <1>2, <1>3

\* A plan takes the form that is retained, of the document that is there.
LEMMA FormStarts ==
    ASSUME FormConstants, FormInv, NEW steps \in Seq(PlanSteps), NEW session \in BOOLEAN, NEW form,
           Len(steps) \in Nat \ {0}, Form!Current(form), Form!Preflight(steps)
    PROVE  /\ Form!Started(steps, session) \in Plans /\ Form!Started(steps, session).session = session
           /\ PlanHolds(page, Form!Started(steps, session))
<1> DEFINE x == Form!Started(steps, session)
<1>1. FormHolds(page, retained) /\ retained \in Forms
  BY DEF Form!Current, FormInv, FormHolds
<1>2. x = [form |-> retained, steps |-> steps, session |-> session, at |-> 1, pc |-> "resolve", field |-> None,
           rebound |-> FALSE, matches |-> <<>>, seen |-> 0, total |-> 0, held |-> None, told |-> "no",
           done |-> <<>>]
  BY DEF Form!Started
<1>3. x \in Plans
  BY <1>1, <1>2 DEF Plans, Told
<1>4. /\ x.form = retained /\ x.steps = steps /\ x.session = session /\ x.at = 1 /\ x.pc = "resolve"
      /\ x.done = <<>>
  BY <1>2
<1> HIDE DEF x
<1>5. PlanHolds(page, x)
  BY <1>1, <1>3, <1>4 DEF PlanHolds, Trying, Writing, Form!Preflight, Form!Asked, Form!Positions
<1> QED BY <1>3, <1>4, <1>5 DEF x

LEMMA FormBegin ==
    ASSUME FormConstants, FormInv, Form!BeginPlan
    PROVE  FormInv'
<1>1. /\ plan = None /\ summary = None /\ UNCHANGED <<page, summary, made, changes>> /\ workflows \in Nat /\ Counted
      /\ PageIsWhole(page)
  BY DEF Form!BeginPlan, FormInv, Counted
<1>2. PICK form \in 1 .. made, a \in 1 .. MaxFields, b \in 1 .. MaxFields, k \in Form!StepKinds,
           l \in Form!StepKinds :
        LET steps == <<[field |-> a, kind |-> k], [field |-> b, kind |-> l]>> IN
        /\ a # b
        /\ retained' = Form!Taken(form)
        /\ IF ~Form!Current(form) THEN workflows' = workflows + 1 /\ Form!Finish(Form!Answer("no", <<>>, "stale"))
           ELSE IF ~Form!Preflight(steps) THEN UNCHANGED workflows
             /\ Form!Finish(Form!Answer("no", <<>>, "preflight"))
           ELSE /\ plan' = Form!Started(steps, TRUE)
                /\ workflows' = workflows + 1 /\ UNCHANGED report
  BY DEF Form!BeginPlan
<1> DEFINE steps == <<[field |-> a, kind |-> k], [field |-> b, kind |-> l]>>
<1>3. steps \in Seq(PlanSteps) /\ Len(steps) = 2
  BY DEF PlanSteps
<1> HIDE DEF steps
<1>4. /\ retained' = Form!Taken(form)
      /\ IF ~Form!Current(form) THEN workflows' = workflows + 1 /\ plan' = None
         ELSE IF ~Form!Preflight(steps) THEN UNCHANGED workflows /\ plan' = None
         ELSE plan' = Form!Started(steps, TRUE) /\ workflows' = workflows + 1
  BY <1>2 DEF steps, Form!Finish
<1>5. workflows' \in Nat /\ Counted' /\ PageIsWhole(page')
  <2>1. workflows' = workflows \/ workflows' = workflows + 1
    BY <1>4
  <2> QED BY <1>1, <2>1 DEF Counted
<1>6. retained' # None => FormHolds(page', retained')
  BY <1>1, <1>4 DEF Form!Taken, FormInv
<1>7. CASE plan' = None
  BY <1>1, <1>5, <1>6, <1>7 DEF FormInv
<1>8. CASE Form!Current(form) /\ Form!Preflight(steps)
  <2>1. plan' = Form!Started(steps, TRUE) /\ workflows' > 0 /\ retained' = None
    BY <1>1, <1>4, <1>8 DEF Form!Taken, Form!AnyDocument, Form!Current
  <2>2. PlanHolds(page, plan')
    <3>1. steps \in Seq(PlanSteps) /\ Len(steps) \in Nat \ {0} /\ TRUE \in BOOLEAN
      BY <1>3
    <3> QED BY <1>8, <2>1, <3>1, FormStarts, Zenon
  <2> QED BY <1>1, <1>5, <2>1, <2>2 DEF FormInv
<1> QED BY <1>4, <1>7, <1>8

LEMMA FormSetsChecked ==
    ASSUME FormConstants, FormInv, Form!SetChecked
    PROVE  FormInv'
<1>1. /\ plan = None /\ summary = None /\ UNCHANGED <<page, summary, workflows, made, changes>> /\ Counted
      /\ PageIsWhole(page)
  BY DEF Form!SetChecked, FormInv
<1>2. PICK form \in 1 .. made, a \in 1 .. MaxFields :
        LET steps == <<[field |-> a, kind |-> "set_checked"]>> IN
        /\ retained' = Form!Taken(form)
        /\ IF Form!Current(form) /\ Form!Preflight(steps)
           THEN /\ plan' = [Form!Started(steps, FALSE) EXCEPT !.pc = "act", !.field = retained.fields[a].was.node]
                /\ UNCHANGED report
           ELSE Form!Finish(Form!Answer("no", <<>>, "not_checkable"))
  BY DEF Form!SetChecked
<1> DEFINE steps == <<[field |-> a, kind |-> "set_checked"]>>
           x == Form!Started(steps, FALSE)
<1>3. steps \in Seq(PlanSteps) /\ Len(steps) = 1 /\ steps[1].field = a
  BY DEF PlanSteps, Form!StepKinds
<1>4. /\ retained' = Form!Taken(form)
      /\ IF Form!Current(form) /\ Form!Preflight(steps)
         THEN plan' = [x EXCEPT !.pc = "act", !.field = retained.fields[a].was.node]
         ELSE plan' = None
  BY <1>2 DEF Form!Finish
<1> HIDE DEF steps
<1>5. Counted' /\ PageIsWhole(page') /\ (retained' # None => FormHolds(page', retained'))
  BY <1>1, <1>4 DEF Counted, Form!Taken, FormInv
<1>6. CASE plan' = None
  BY <1>1, <1>5, <1>6 DEF FormInv
<1>7. CASE Form!Current(form) /\ Form!Preflight(steps)
  <2>1. x \in Plans /\ x.session = FALSE /\ PlanHolds(page, x)
    <3>1. steps \in Seq(PlanSteps) /\ Len(steps) \in Nat \ {0} /\ FALSE \in BOOLEAN
      BY <1>3
    <3> QED BY <1>7, <3>1, FormStarts, Zenon
  <2>2. /\ x.form = retained /\ x.steps = steps /\ x.at = 1 /\ x.done = <<>> /\ x.rebound = FALSE
        /\ a \in Form!Positions(retained.fields) /\ FormHolds(page, retained)
    BY <1>3, <1>7 DEF Form!Started, Form!Preflight, Form!Asked, Form!Positions, FormInv, Form!Current
  <2> HIDE DEF x
  <2>3. /\ KnownAs(page, retained.fields[a].was.node, retained.fields[a].was)
        /\ OnlyIn(page, retained.fields[a].was.node, retained.doc)
    BY <2>2 DEF FormHolds, CapturesHold
  <2>4. retained.fields[a].was.node \in Nat
    BY <2>3 DEF KnownAs
  <2>5. plan' = [x EXCEPT !.pc = "act", !.field = retained.fields[a].was.node]
    BY <1>4, <1>7
  <2>6. /\ plan' \in Plans /\ plan'.form = x.form /\ plan'.steps = x.steps /\ plan'.at = x.at /\ plan'.done = x.done
        /\ plan'.pc = "act" /\ plan'.field = retained.fields[a].was.node /\ plan'.session = FALSE
        /\ plan'.rebound = x.rebound
    BY <2>1, <2>4, <2>5 DEF Plans
  <2>7. Planned(plan') = retained.fields[a].was
    BY <1>3, <2>2, <2>6 DEF Planned
  <2>8. PlanHolds(page, plan')
    <3>1. /\ FormHolds(page, plan'.form) /\ plan'.at \in Form!Positions(plan'.steps)
          /\ \A s \in Form!Positions(plan'.steps) : plan'.steps[s].field \in Form!Positions(plan'.form.fields)
      BY <2>1, <2>6 DEF PlanHolds
    <3>2. Len(plan'.done) = plan'.at - 1
      BY <2>2, <2>6
    <3>3. Trying(page, plan', Planned(plan')) /\ Writing(page, plan', Planned(plan'))
      BY <2>2, <2>3, <2>6, <2>7 DEF Trying, Writing
    <3> QED BY <2>6, <3>1, <3>2, <3>3 DEF PlanHolds
  <2>9. retained' = None
    BY <1>4, <1>7 DEF Form!Taken, Form!AnyDocument, Form!Current
  <2> QED BY <1>1, <1>5, <2>6, <2>8, <2>9 DEF FormInv
<1> QED BY <1>4, <1>6, <1>7

\* A plan goes on, or ends and gives its session back.
LEMMA FormGoes ==
    ASSUME FormInv, plan # None, UNCHANGED <<page, summary, retained, workflows, made, changes>>,
           PlanHolds(page, plan'), plan'.session = plan.session
    PROVE  FormInv'
BY DEF FormInv, Counted

LEMMA FormEnds ==
    ASSUME FormInv, plan # None, UNCHANGED <<page, summary, retained, made, changes>>, plan' = None,
           workflows' = workflows - (IF plan.session THEN 1 ELSE 0)
    PROVE  FormInv'
<1>1. workflows' \in Nat
  <2>1. CASE plan.session
    BY <2>1 DEF FormInv, Counted
  <2>2. CASE ~plan.session
    BY <2>2 DEF FormInv, Counted
  <2> QED BY <2>1, <2>2
<1>2. summary = None
  BY DEF FormInv
<1> QED BY <1>1, <1>2 DEF FormInv, Counted

LEMMA FormFails ==
    ASSUME FormInv, plan # None, UNCHANGED <<page, summary, retained, made, changes>>,
           NEW told, NEW error, Form!Fail(told, error)
    PROVE  FormInv'
BY FormEnds DEF Form!Fail, Form!Finish

\* The field that is planned was captured in the form.
LEMMA FormPlanned ==
    ASSUME FormInv, plan # None
    PROVE  /\ plan \in Plans /\ plan.form \in Forms /\ PlanHolds(page, plan)
           /\ Form!Original \in Captures /\ Planned(plan) = Form!Original.was /\ Form!Original.was.node \in Nat
           /\ KnownAs(page, Form!Original.was.node, Form!Original.was)
           /\ OnlyIn(page, Form!Original.was.node, plan.form.doc)
<1>1. PlanHolds(page, plan) /\ plan \in Plans /\ FormHolds(page, plan.form) /\ plan.form \in Forms
  BY DEF FormInv, PlanHolds, FormHolds
<1>2. plan.steps[plan.at].field \in Form!Positions(plan.form.fields)
  BY <1>1 DEF PlanHolds
<1>3. plan.form.fields \in Seq(Captures)
  BY <1>1 DEF Forms
<1>4. Form!Original \in Captures
  BY <1>2, <1>3, ElementOfSeq DEF Form!Original, Form!Positions
<1>5. Planned(plan) = Form!Original.was
  BY DEF Planned, Form!Original
<1>6. KnownAs(page, Form!Original.was.node, Form!Original.was) /\ OnlyIn(page, Form!Original.was.node, plan.form.doc)
  BY <1>1, <1>2 DEF FormHolds, CapturesHold, Form!Original
<1> QED BY <1>1, <1>4, <1>5, <1>6 DEF Captures, Elements

\* What a plan keeps from one call to the next.
LEMMA FormSame ==
    ASSUME NEW x \in Plans, NEW y \in Plans, PlanHolds(page, x), y.form = x.form, y.steps = x.steps, y.at = x.at,
           y.done = x.done, y.pc # "completed", x.pc # "completed",
           Trying(page, y, Planned(x)), Writing(page, y, Planned(x))
    PROVE  PlanHolds(page, y)
<1>1. Planned(y) = Planned(x)
  BY DEF Planned
<1> QED BY <1>1 DEF PlanHolds

LEMMA FormResolves ==
    ASSUME FormConstants, FormInv, Form!Resolve
    PROVE  FormInv'
<1>1. plan # None /\ plan.pc = "resolve" /\ UNCHANGED <<page, summary, retained, made, changes>>
  BY DEF Form!Resolve, Form!At
<1>2. /\ plan \in Plans /\ PlanHolds(page, plan) /\ Planned(plan) = Form!Original.was
      /\ Form!Original.was.node \in Nat
      /\ KnownAs(page, Form!Original.was.node, Form!Original.was)
      /\ OnlyIn(page, Form!Original.was.node, plan.form.doc)
  BY <1>1, FormPlanned
<1>3. CASE /\ plan' = [plan EXCEPT !.pc = "act", !.field = Form!Original.was.node, !.rebound = FALSE]
           /\ UNCHANGED workflows
  <2> DEFINE n == Form!Original.was.node
  <2>1. n \in Nat /\ plan' = [plan EXCEPT !.pc = "act", !.field = n, !.rebound = FALSE]
    BY <1>2, <1>3
  <2> HIDE DEF n
  <2>2. /\ plan' \in Plans /\ plan'.form = plan.form /\ plan'.steps = plan.steps /\ plan'.at = plan.at
        /\ plan'.done = plan.done /\ plan'.pc = "act" /\ plan'.field = n /\ plan'.session = plan.session
        /\ plan'.rebound = FALSE
    BY <1>2, <2>1 DEF Plans
  <2>2a. Trying(page, plan', Planned(plan)) /\ Writing(page, plan', Planned(plan))
    BY <1>2, <2>2 DEF Trying, Writing, n
  <2>3. PlanHolds(page, plan')
    BY <1>1, <1>2, <2>2, <2>2a, FormSame
  <2> QED BY <1>1, <1>3, <2>2, <2>3, FormGoes
<1>4. CASE /\ plan' = [plan EXCEPT !.pc = "candidates", !.matches = <<>>, !.seen = 0, !.held = None,
                                    !.total = Len(page.dom)]
           /\ UNCHANGED workflows
  <2>1. /\ plan' \in Plans /\ plan'.form = plan.form /\ plan'.steps = plan.steps /\ plan'.at = plan.at
        /\ plan'.done = plan.done /\ plan'.pc = "candidates" /\ plan'.matches = <<>> /\ plan'.session = plan.session
        /\ plan'.held = None
    <3> DEFINE none == <<>>
               total == Len(page.dom)
    <3>1. /\ none \in Seq(Elements) /\ 0 \in Nat /\ None \in Elements \cup {None} /\ total \in Nat
          /\ plan' = [plan EXCEPT !.pc = "candidates", !.matches = none, !.seen = 0, !.held = None, !.total = total]
      BY <1>4, FormPage DEF FormInv
    <3>2. plan' \in Plans /\ plan'.pc = "candidates" /\ plan'.matches = none /\ plan'.held = None
      <4> HIDE DEF none, total
      <4> QED BY <1>2, <3>1 DEF Plans
    <3>3. /\ plan'.form = plan.form /\ plan'.steps = plan.steps /\ plan'.at = plan.at /\ plan'.done = plan.done
          /\ plan'.session = plan.session
      <4> HIDE DEF none, total
      <4> QED BY <1>2, <3>1 DEF Plans
    <3> QED BY <3>2, <3>3
  <2>2. Trying(page, plan', Planned(plan)) /\ Writing(page, plan', Planned(plan))
    BY <2>1 DEF Form!Positions, Trying, Writing
  <2>3. PlanHolds(page, plan')
    BY <1>1, <1>2, <2>1, <2>2, FormSame
  <2> QED BY <1>1, <1>4, <2>1, <2>3, FormGoes
<1>5. CASE Form!Fail("no", "rebind_scope_changed")
  BY <1>1, <1>5, FormFails
<1> QED BY <1>3, <1>4, <1>5 DEF Form!Resolve

\* A candidate is held while it is looked at if it was in the form.
LEMMA FormCandidates ==
    ASSUME FormConstants, FormInv, Form!Candidate
    PROVE  FormInv'
<1>1. /\ plan # None /\ plan.pc = "candidates" /\ UNCHANGED <<page, summary, retained, workflows, made, changes>>
      /\ plan.held = None
  BY DEF Form!Candidate, Form!At
<1>2. /\ plan \in Plans /\ PlanHolds(page, plan) /\ Planned(plan) = Form!Original.was /\ plan.seen \in Nat
      /\ Trying(page, plan, Planned(plan))
  BY <1>1, FormPlanned DEF Plans, PlanHolds
<1>3. /\ page.next \in Nat
      /\ \A j \in 1 .. Len(page.dom) : page.dom[j] \in Elements /\ page.dom[j].node \in Nat
      /\ \A j \in 1 .. Len(page.dom) : page.dom[j].node < page.next
      /\ \A j, k \in 1 .. Len(page.dom) : page.dom[j].node = page.dom[k].node => j = k
  BY FormPage DEF FormInv
<1> DEFINE e == page.dom[plan.seen + 1]
<1>4. CASE plan' = [plan EXCEPT !.seen = plan.seen + 1]
  <2>1. /\ plan' \in Plans /\ plan'.form = plan.form /\ plan'.steps = plan.steps /\ plan'.at = plan.at
        /\ plan'.done = plan.done /\ plan'.pc = "candidates" /\ plan'.matches = plan.matches
        /\ plan'.session = plan.session /\ plan'.held = None
    BY <1>1, <1>2, <1>4 DEF Plans
  <2>2. Trying(page, plan', Planned(plan)) /\ Writing(page, plan', Planned(plan))
    BY <1>1, <1>2, <2>1 DEF Trying, Writing
  <2>3. PlanHolds(page, plan')
    BY <1>1, <1>2, <2>1, <2>2, FormSame
  <2> QED BY <1>1, <2>1, <2>3, FormGoes
<1>5. CASE /\ plan.seen + 1 \in Form!Positions(page.dom) /\ Form!SameOwner(e)
           /\ plan' = [plan EXCEPT !.held = e]
  <2>1. e \in Elements /\ e.form = Planned(plan).form /\ KnownAs(page, e.node, e)
    BY <1>2, <1>3, <1>5 DEF Form!SameOwner, KnownAs, Form!Positions
  <2>2. plan' = [plan EXCEPT !.held = e]
    BY <1>5
  <2> HIDE DEF e
  <2>3. /\ plan' \in Plans /\ plan'.form = plan.form /\ plan'.steps = plan.steps /\ plan'.at = plan.at
        /\ plan'.done = plan.done /\ plan'.pc = "candidates" /\ plan'.matches = plan.matches
        /\ plan'.session = plan.session /\ plan'.held = e
    BY <1>1, <1>2, <2>1, <2>2 DEF Plans
  <2>4. Trying(page, plan', Planned(plan)) /\ Writing(page, plan', Planned(plan))
    BY <1>1, <1>2, <2>1, <2>3 DEF Trying, Writing
  <2>5. PlanHolds(page, plan')
    BY <1>1, <1>2, <2>3, <2>4, FormSame
  <2> QED BY <1>1, <2>3, <2>5, FormGoes
<1> QED BY <1>2, <1>4, <1>5 DEF Form!Candidate, Plans

\* It is a match if it looks like the field, too; as it was read, it is that field.
LEMMA FormDescribes ==
    ASSUME FormConstants, FormInv, Form!Describe
    PROVE  FormInv'
<1>1. /\ plan # None /\ plan.pc = "candidates" /\ UNCHANGED <<page, summary, retained, workflows, made, changes>>
      /\ plan.held # None /\ PageIsWhole(page)
  BY DEF Form!Describe, Form!At, FormInv
<1>2. plan \in Plans /\ PlanHolds(page, plan) /\ Planned(plan) = Form!Original.was
  BY <1>1, FormPlanned
<1> DEFINE w == Planned(plan)
<1>3. /\ plan.seen \in Nat /\ plan.matches \in Seq(Elements) /\ Len(plan.matches) \in Nat
      /\ plan.held \in Elements /\ plan.held.form = w.form /\ KnownAs(page, plan.held.node, plan.held)
      /\ \A k \in 1 .. Len(plan.matches) :
           plan.matches[k].id = w.id /\ plan.matches[k].form = w.form /\ KnownAs(page, plan.matches[k].node, w)
  BY <1>1, <1>2, LenProperties DEF Plans, PlanHolds, Trying, Form!Positions
<1>4. \A matches \in Seq(Elements) :
        /\ plan' = [plan EXCEPT !.seen = plan.seen + 1, !.held = None, !.matches = matches]
        /\ \A k \in 1 .. Len(matches) :
             matches[k].id = w.id /\ matches[k].form = w.form /\ KnownAs(page, matches[k].node, w)
        => FormInv'
  <2> SUFFICES ASSUME NEW matches \in Seq(Elements),
                      plan' = [plan EXCEPT !.seen = plan.seen + 1, !.held = None, !.matches = matches],
                      \A k \in 1 .. Len(matches) :
                        matches[k].id = w.id /\ matches[k].form = w.form /\ KnownAs(page, matches[k].node, w)
               PROVE  FormInv'
    OBVIOUS
  <2> HIDE DEF w
  <2>1. plan.seen + 1 \in Nat
    BY <1>3
  <2>2. /\ plan' \in Plans /\ plan'.form = plan.form /\ plan'.steps = plan.steps /\ plan'.at = plan.at
        /\ plan'.done = plan.done /\ plan'.pc = "candidates" /\ plan'.matches = matches
        /\ plan'.session = plan.session /\ plan'.held = None
    BY <1>1, <1>2, <2>1 DEF Plans
  <2>3. Trying(page, plan', w) /\ Writing(page, plan', w)
    BY <2>2 DEF Trying, Writing, Form!Positions
  <2>4. PlanHolds(page, plan')
    BY <1>1, <1>2, <2>2, <2>3, FormSame DEF w
  <2> QED BY <1>1, <2>2, <2>4, FormGoes
<1>5. CASE plan' = [plan EXCEPT !.seen = @ + 1, !.held = None]
  <2>1. plan' = [plan EXCEPT !.seen = plan.seen + 1, !.held = None, !.matches = plan.matches]
    BY <1>2, <1>5 DEF Plans
  <2> QED BY <1>3, <1>4, <2>1
<1>6. ASSUME NEW e \in Form!Live(plan.held.node), Form!SameIdentity(e),
             plan' = [plan EXCEPT !.seen = @ + 1, !.held = None, !.matches = Append(@, Form!Described(e))]
      PROVE  FormInv'
  <2> DEFINE n == plan.held.node
             found == Form!Described(e)
             matches == Append(plan.matches, found)
  <2>1. PICK i \in 1 .. Len(page.dom) : e = page.dom[i] /\ e \in Elements /\ e.node = n
    BY <1>1, FormLive
  <2>2. \A j \in 1 .. Len(page.dom) : page.dom[j].node = n => j = i
    BY <1>1, <2>1, FormPage
  <2>3. e.id = w.id /\ found = [plan.held EXCEPT !.id = e.id]
    BY <1>2, <1>6 DEF Form!SameIdentity, Form!Described
  <2>4. found \in Elements /\ found.node = n /\ found.id = w.id /\ found.form = w.form
    BY <1>3, <2>1, <2>3 DEF Elements
  <2>5. KnownAs(page, n, w)
    BY <1>3, <2>1, <2>2, <2>3 DEF KnownAs, Form!Positions
  <2> HIDE DEF found, w
  <2>6. /\ matches \in Seq(Elements) /\ Len(matches) = Len(plan.matches) + 1
        /\ matches[Len(plan.matches) + 1] = found
        /\ \A k \in 1 .. Len(plan.matches) : matches[k] = plan.matches[k]
    BY <1>3, <2>4
  <2>7. plan' = [plan EXCEPT !.seen = plan.seen + 1, !.held = None, !.matches = matches]
    BY <1>2, <1>6 DEF Plans, found
  <2> HIDE DEF matches
  <2>8. ASSUME NEW k \in 1 .. Len(matches)
        PROVE  matches[k].id = w.id /\ matches[k].form = w.form /\ KnownAs(page, matches[k].node, w)
    <3>1. CASE k \in 1 .. Len(plan.matches)
      BY <1>3, <2>6, <3>1
    <3>2. CASE k = Len(plan.matches) + 1
      BY <2>4, <2>5, <2>6, <3>2
    <3> QED BY <1>3, <2>6, <3>1, <3>2
  <2> QED BY <1>4, <2>6, <2>7, <2>8
<1> QED BY <1>5, <1>6 DEF Form!Describe

\* The one that is taken is of the document of the form.
LEMMA FormRebinds ==
    ASSUME FormConstants, FormInv, Form!Rebind
    PROVE  FormInv'
<1>1. plan # None /\ plan.pc = "candidates" /\ UNCHANGED <<page, summary, retained, made, changes>>
  BY DEF Form!Rebind, Form!At
<1>2. plan \in Plans /\ PlanHolds(page, plan)
  BY <1>1, FormPlanned
<1>3. CASE /\ page.doc = plan.form.doc /\ Len(plan.matches) = 1 /\ UNCHANGED workflows
           /\ plan' = [plan EXCEPT !.pc = "act", !.field = plan.matches[1].node, !.rebound = TRUE]
  <2> DEFINE m == plan.matches[1]
             n == m.node
             w == Planned(plan)
  <2>1. plan.matches \in Seq(Elements) /\ m \in Elements /\ n \in Nat
    <3>1. plan.matches \in Seq(Elements)
      BY <1>2 DEF Plans
    <3>2. m \in Elements
      BY <1>3, <3>1, ElementOfSeq
    <3> QED BY <3>1, <3>2 DEF Elements
  <2>2. m.id = w.id /\ m.form = w.form /\ KnownAs(page, n, w) /\ OnlyIn(page, n, plan.form.doc)
    BY <1>1, <1>2, <1>3 DEF PlanHolds, Trying, Form!Positions, OnlyIn
  <2>3. m = [node |-> n, id |-> w.id, form |-> w.form]
    BY <2>1, <2>2 DEF Elements
  <2>4. plan.matches = <<m>>
    BY <1>3, <2>1
  <2>5. plan' = [plan EXCEPT !.pc = "act", !.field = n, !.rebound = TRUE]
    BY <1>3
  <2> HIDE DEF m, n, w
  <2>6. /\ plan' \in Plans /\ plan'.form = plan.form /\ plan'.steps = plan.steps /\ plan'.at = plan.at
        /\ plan'.done = plan.done /\ plan'.pc = "act" /\ plan'.field = n /\ plan'.session = plan.session
        /\ plan'.rebound = TRUE /\ plan'.matches = plan.matches
    BY <1>2, <2>1, <2>5 DEF Plans
  <2>7. Trying(page, plan', w) /\ Writing(page, plan', w)
    BY <2>2, <2>3, <2>4, <2>6 DEF Trying, Writing
  <2>8. PlanHolds(page, plan')
    BY <1>1, <1>2, <2>6, <2>7, FormSame DEF w
  <2> QED BY <1>1, <1>3, <2>6, <2>8, FormGoes
<1>4. CASE \E error : Form!Fail("no", error)
  BY <1>1, <1>4, FormFails
<1> QED BY <1>3, <1>4 DEF Form!Rebind

LEMMA FormActs ==
    ASSUME FormConstants, FormInv, Form!Act
    PROVE  FormInv'
<1>1. plan # None /\ plan.pc = "act" /\ UNCHANGED <<page, summary, retained, made, changes>>
  BY DEF Form!Act, Form!At
<1>2. plan \in Plans /\ PlanHolds(page, plan)
  BY <1>1, FormPlanned
<1>3. PICK o \in Form!OutcomesOf(plan.steps[plan.at].kind) :
        \/ plan' = [plan EXCEPT !.pc = "after", !.told = o.told] /\ UNCHANGED workflows
        \/ Form!Fail(o.told, "input")
  BY DEF Form!Act
<1>4. o.told \in Told
  <2>1. o \in Form!FillField \cup Form!SelectField \cup Form!CheckField
    BY DEF Form!OutcomesOf
  <2> QED BY <2>1 DEF Form!FillField, Form!SelectField, Form!CheckField, Form!Unwritten, Form!Outcome, Told
<1>5. CASE plan' = [plan EXCEPT !.pc = "after", !.told = o.told] /\ UNCHANGED workflows
  <2>1. /\ plan' \in Plans /\ plan'.form = plan.form /\ plan'.steps = plan.steps /\ plan'.at = plan.at
        /\ plan'.done = plan.done /\ plan'.pc = "after" /\ plan'.session = plan.session
    BY <1>2, <1>4, <1>5 DEF Plans
  <2>2. PlanHolds(page, plan')
    BY <1>1, <1>2, <2>1, FormSame DEF Trying, Writing
  <2> QED BY <1>1, <1>5, <2>1, <2>2, FormGoes
<1>6. CASE Form!Fail(o.told, "input")
  BY <1>1, <1>6, FormFails
<1> QED BY <1>3, <1>5, <1>6

LEMMA FormAfter ==
    ASSUME FormConstants, FormInv, Form!After
    PROVE  FormInv'
<1>1. plan # None /\ plan.pc = "after" /\ UNCHANGED <<page, summary, retained, made, changes>>
  BY DEF Form!After, Form!At
<1>2. plan \in Plans /\ PlanHolds(page, plan)
  BY <1>1, FormPlanned
<1>3. CASE plan' = [plan EXCEPT !.pc = "completed", !.done = Append(@, plan.told)] /\ UNCHANGED workflows
  <2> DEFINE done == Append(plan.done, plan.told)
  <2>1. plan.done \in Seq(Told) /\ plan.told \in Told /\ plan.at \in Nat /\ Len(plan.done) = plan.at - 1
    BY <1>1, <1>2 DEF Plans, PlanHolds
  <2>2. done \in Seq(Told) /\ Len(done) = plan.at
    BY <2>1
  <2>3. plan' = [plan EXCEPT !.pc = "completed", !.done = done]
    BY <1>2, <1>3 DEF Plans
  <2> HIDE DEF done
  <2>4. /\ plan' \in Plans /\ plan'.form = plan.form /\ plan'.steps = plan.steps /\ plan'.at = plan.at
        /\ plan'.done = done /\ plan'.pc = "completed" /\ plan'.session = plan.session
    BY <1>2, <2>2, <2>3 DEF Plans
  <2>5. PlanHolds(page, plan')
    BY <1>2, <2>1, <2>2, <2>4 DEF PlanHolds, Trying, Writing
  <2> QED BY <1>1, <1>3, <2>4, <2>5, FormGoes
<1>4. CASE \E told, error : Form!Fail(told, error)
  BY <1>1, <1>4, FormFails
<1> QED BY <1>3, <1>4 DEF Form!After

LEMMA FormStep ==
    ASSUME FormConstants, FormInv, Form!NextStep
    PROVE  FormInv'
<1>1. plan # None /\ plan.pc = "completed" /\ UNCHANGED <<page, summary, retained, made, changes>>
  BY DEF Form!NextStep, Form!At
<1>2. plan \in Plans /\ PlanHolds(page, plan)
  BY <1>1, FormPlanned
<1>3. CASE plan.at # Len(plan.steps) /\ plan' = [plan EXCEPT !.pc = "resolve", !.at = @ + 1] /\ UNCHANGED workflows
  <2>1. plan.at \in Nat /\ plan.at \in 1 .. Len(plan.steps) /\ Len(plan.steps) \in Nat /\ Len(plan.done) = plan.at
    BY <1>1, <1>2, LenProperties DEF Plans, PlanHolds, Form!Positions
  <2>2. plan.at + 1 \in Nat /\ plan.at + 1 \in 1 .. Len(plan.steps)
    BY <1>3, <2>1
  <2>3. plan' = [plan EXCEPT !.pc = "resolve", !.at = plan.at + 1]
    BY <1>2, <1>3 DEF Plans
  <2>4. /\ plan' \in Plans /\ plan'.form = plan.form /\ plan'.steps = plan.steps /\ plan'.at = plan.at + 1
        /\ plan'.done = plan.done /\ plan'.pc = "resolve" /\ plan'.session = plan.session
    BY <1>2, <2>2, <2>3 DEF Plans
  <2>5. PlanHolds(page, plan')
    BY <1>2, <2>1, <2>2, <2>4 DEF PlanHolds, Trying, Writing, Form!Positions
  <2> QED BY <1>1, <1>3, <2>4, <2>5, FormGoes
<1>4. CASE \E told, error : Form!Fail(told, error)
  BY <1>1, <1>4, FormFails
<1>5. CASE plan' = None /\ workflows' = workflows - (IF plan.session THEN 1 ELSE 0)
  BY <1>1, <1>5, FormEnds
<1> QED BY <1>3, <1>4, <1>5 DEF Form!NextStep, Form!Finish

LEMMA FormNext == FormConstants /\ FormInv /\ [Form!Next]_(Form!vars) => FormInv'
<1> SUFFICES ASSUME FormConstants, FormInv, [Form!Next]_(Form!vars) PROVE FormInv'
  OBVIOUS
<1>1. CASE UNCHANGED Form!vars
  BY <1>1 DEF Form!vars, FormInv, Counted
<1>2. CASE Form!Next
  BY <1>2, FormCaptures, FormOwners, FormRetains, FormBegin, FormSetsChecked, FormResolves, FormCandidates,
     FormDescribes, FormRebinds, FormActs, FormAfter, FormStep, FormChanges DEF Form!Next
<1> QED BY <1>1, <1>2

LEMMA FormSafe == FormConstants /\ FormInv => Form!TypeOK
<1> SUFFICES ASSUME FormConstants, FormInv PROVE Form!TypeOK
  OBVIOUS
<1>1. /\ workflows \in Nat /\ made \in 0 .. MaxForms /\ changes \in 0 .. MaxChanges
      /\ \A i, j \in Form!Positions(page.dom) : page.dom[i].node = page.dom[j].node => i = j
  BY DEF FormInv, Counted, PageIsWhole
<1> QED BY <1>1 DEF FormInv, PlanHolds, Form!TypeOK

\* What a plan writes is the field that was planned, in the document of the form.
LEMMA FormWrites ==
    FormConstants /\ FormInv /\ [Form!Next]_(Form!vars) => Form!WrittenWhereAsked /\ Form!OneDocument
<1> DEFINE w == Form!Original.was
<1> SUFFICES ASSUME FormConstants, FormInv, [Form!Next]_(Form!vars), Form!At("act"), touched' # touched
             PROVE  /\ IF plan.rebound
                       THEN plan.matches = <<[node |-> plan.field, id |-> w.id, form |-> w.form]>>
                       ELSE plan.field = w.node
                    /\ \E e \in Form!Live(plan.field) :
                        /\ e.node \notin page.reused => e.id = w.id /\ e.form = w.form
                        /\ plan.steps[plan.at].kind = "fill" => FieldKinds[e.id] \in Form!EditorKinds
                    /\ page.doc = plan.form.doc
  BY DEF Form!WrittenWhereAsked, Form!OneDocument
<1>1. plan # None /\ plan.pc = "act" /\ Form!Act
  <2>1. plan # None /\ plan.pc = "act"
    BY DEF Form!At
  <2>2. Form!BeginSummary \/ Form!CaptureField \/ Form!CaptureOwner \/ Form!Retain \/ Form!Discard
          \/ Form!PageChanges \/ UNCHANGED Form!vars => touched' = touched
    BY DEF Form!BeginSummary, Form!CaptureField, Form!CaptureOwner, Form!Retain, Form!Discard, Form!PageChanges,
       Form!vars
  <2>3. ~Form!BeginPlan /\ ~Form!SetChecked
    BY <2>1 DEF Form!BeginPlan, Form!SetChecked
  <2>4. Form!Resolve \/ Form!Candidate \/ Form!Describe \/ Form!Rebind \/ Form!After \/ Form!NextStep
          => touched' = touched
    BY DEF Form!Resolve, Form!Candidate, Form!Describe, Form!Rebind, Form!After, Form!NextStep
  <2> QED BY <2>1, <2>2, <2>3, <2>4 DEF Form!Next
<1>2. Form!Takes(plan.steps[plan.at].kind, plan.field)
  BY <1>1 DEF Form!Act
<1>3. PICK e \in Form!Live(plan.field) :
        plan.steps[plan.at].kind = "fill" => Form!Fits(plan.steps[plan.at].kind, e.id)
  BY <1>2 DEF Form!Takes
<1>4. PICK i \in Form!Positions(page.dom) : e = page.dom[i] /\ e.node = plan.field
  BY FormLive DEF FormInv, Form!Positions
<1>5. Planned(plan) = w /\ Writing(page, plan, Planned(plan))
  BY <1>1, FormPlanned DEF PlanHolds
<1> HIDE DEF w
<1>6. /\ KnownAs(page, plan.field, w) /\ OnlyIn(page, plan.field, plan.form.doc)
      /\ IF plan.rebound THEN plan.matches = <<[node |-> plan.field, id |-> w.id, form |-> w.form]>>
         ELSE plan.field = w.node
  BY <1>1, <1>5 DEF Writing
<1>7. (e.node \notin page.reused => e.id = w.id /\ e.form = w.form) /\ page.doc = plan.form.doc
  BY <1>4, <1>6 DEF KnownAs, OnlyIn
<1>8. plan.steps[plan.at].kind = "fill" => FieldKinds[e.id] \in Form!EditorKinds
  BY <1>3 DEF Form!Fits
<1> QED BY <1>3, <1>6, <1>7, <1>8

\* Every step of a plan writes the element the summary captured, or one that was
\* found by name, kind and form and was the only one, in the document that was
\* summarised, whatever the page renders, duplicates, moves, removes, leaves or
\* reuses meanwhile; and one it did not reuse is the planned field (forms/plan.ts,
\* rebind.ts).
THEOREM PlansWriteWhatWasPlanned == ASSUME FormConstants PROVE Spec => PlansKeepToTheirForm
<1> DEFINE Inv == part = "form" => FormInv
           Typed == part = "form" => Form!TypeOK
           Written == part = "form" => Form!WrittenWhereAsked /\ Form!OneDocument
<1>1. Init => Inv
  BY FormInit, PartsBegin
<1>2. Inv /\ [Next]_vars => Inv'
  BY FormNext, PartsGoOn
<1>3. Inv => Typed
  BY FormSafe
<1>4. Inv /\ [Next]_vars => [Written]_vars
  BY FormWrites, PartsGoOn
<1>5. Spec => []Typed /\ [][Written]_vars
  <2> HIDE DEF Inv, Typed, Written
  <2> QED BY <1>1, <1>2, <1>3, <1>4, PTL DEF Spec
<1> QED BY <1>5 DEF PlansKeepToTheirForm

-----------------------------------------------------------------------------
\* The scroll (ScrollAction).
\* The record of a scroll; None is none of them, and no kind of loader.
ScrollStages == {"activate", "pin", "baseline", "step", "move", "moving", "wait"}
Watching(where) == where \in {"step", "move", "moving", "wait"}
Scrolls ==
    [condition : Scroll!Conditions \cup {None}, container : BOOLEAN, at : ScrollStages,
     surface : {"element", "viewport", None}, base : Nat \cup {None}, articles : Nat, seen : SUBSET Scroll!Kinds,
     textComplete : BOOLEAN, animationComplete : BOOLEAN, steps : Nat, dispatched : {"no", "unknown", "yes"}]
ScrollConstants ==
    /\ MaxVersion \in Nat /\ MaxArticles \in Nat /\ MaxSteps \in Nat
    /\ None \notin Scrolls \cup Scroll!Kinds

Documents == [version : 0 .. MaxVersion, articles : 0 .. MaxArticles, loaders : SUBSET Scroll!Kinds]
ScrollTyped == doc \in Documents /\ visible \in BOOLEAN /\ attached \in BOOLEAN /\ performed \in Nat
\* Every movement is counted, and unknown while it is under way; an element that
\* is still attached is of the document of the baseline.
ScrollIsSound(r) ==
    /\ r \in Scrolls
    /\ r.steps = performed /\ r.steps <= MaxSteps /\ (r.at \in {"move", "moving"} => r.steps < MaxSteps)
    /\ (r.dispatched = "unknown") <=> (r.at = "moving")
    /\ r.dispatched = "no" => r.steps = 0
    /\ Watching(r.at) => r.base \in 0 .. MaxVersion
    /\ Watching(r.at) /\ r.surface = "element" /\ attached => r.base = doc.version

AnswerIsTrue == Scroll!DisappearanceIsReal /\ Scroll!ElementIsPinned /\ Scroll!DispatchIsTold
ScrollInv ==
    ScrollTyped /\ (run # None => ScrollIsSound(run) /\ answer = None) /\ AnswerIsTrue

\* A sample without loaders has seen none of the kinds that it looked through.
LEMMA ScrollSamples ==
    ASSUME ScrollConstants, NEW s \in Scroll!Samples
    PROVE  /\ s.articles = doc.articles /\ s.seen \in Scroll!Kinds \cup {None}
           /\ s.textComplete \in BOOLEAN /\ s.animationComplete \in BOOLEAN
           /\ s.seen = None =>
                /\ "semantic" \notin doc.loaders
                /\ "text" \in doc.loaders => s.textComplete = FALSE
                /\ "animation" \in doc.loaders => s.animationComplete = FALSE
BY DEF Scroll!Samples, Scroll!Kinds, ScrollConstants

LEMMA ScrollInit == ScrollConstants /\ Scroll!Init => ScrollInv
<1> SUFFICES ASSUME ScrollConstants, Scroll!Init PROVE ScrollInv
  OBVIOUS
<1>1. run = None /\ answer = None /\ performed = 0 /\ attached = FALSE /\ visible \in BOOLEAN
  BY DEF Scroll!Init
<1>2. doc \in Documents
  <2>1. PICK l \in SUBSET Scroll!Kinds : doc = [version |-> 0, articles |-> 0, loaders |-> l]
    BY DEF Scroll!Init
  <2>2. 0 \in 0 .. MaxVersion /\ 0 \in 0 .. MaxArticles
    BY DEF ScrollConstants
  <2> QED BY <2>1, <2>2 DEF Documents
<1> QED BY <1>1, <1>2 DEF ScrollInv, ScrollTyped, AnswerIsTrue, Scroll!DisappearanceIsReal, Scroll!ElementIsPinned,
     Scroll!DispatchIsTold, Scroll!Said

\* The page changes: an element stays attached only in its document.
LEMMA ScrollPage ==
    ASSUME ScrollConstants, ScrollInv, Scroll!Changes \/ Scroll!Navigates \/ Scroll!Detaches \/ Scroll!Hides
    PROVE  ScrollInv'
<1>1. run' = run /\ performed' = performed /\ answer' = answer
  BY DEF Scroll!Changes, Scroll!Navigates, Scroll!Detaches, Scroll!Hides
<1>2. ScrollTyped' /\ (attached' => attached /\ doc'.version = doc.version)
  <2>1. CASE Scroll!Changes
    <3>1. PICK a \in 0 .. MaxArticles, l \in SUBSET Scroll!Kinds : doc' = [doc EXCEPT !.articles = a, !.loaders = l]
      BY <2>1 DEF Scroll!Changes
    <3>2. doc \in Documents
      BY DEF ScrollInv, ScrollTyped
    <3>3. doc' \in Documents /\ doc'.version = doc.version
      BY <3>1, <3>2 DEF Documents
    <3> QED BY <2>1, <3>3 DEF Scroll!Changes, ScrollInv, ScrollTyped
  <2>2. CASE Scroll!Navigates
    <3>1. PICK a \in 0 .. MaxArticles, l \in SUBSET Scroll!Kinds :
            doc' = [version |-> doc.version + 1, articles |-> a, loaders |-> l]
      BY <2>2 DEF Scroll!Navigates
    <3>2. doc.version + 1 \in 0 .. MaxVersion
      BY <2>2 DEF Scroll!Navigates, ScrollInv, ScrollTyped, Documents, ScrollConstants
    <3>3. doc' \in Documents
      BY <3>1, <3>2 DEF Documents
    <3> QED BY <2>2, <3>3 DEF Scroll!Navigates, ScrollInv, ScrollTyped
  <2>3. CASE Scroll!Detaches
    BY <2>3 DEF Scroll!Detaches, ScrollInv, ScrollTyped
  <2>4. CASE Scroll!Hides
    BY <2>4, Zenon DEF Scroll!Hides, ScrollInv, ScrollTyped
  <2> QED BY <2>1, <2>2, <2>3, <2>4
<1>3. AnswerIsTrue'
  BY <1>1 DEF ScrollInv, AnswerIsTrue, Scroll!DisappearanceIsReal, Scroll!ElementIsPinned, Scroll!DispatchIsTold,
     Scroll!Said
<1>4. run # None => ScrollIsSound(run)'
  BY <1>1, <1>2 DEF ScrollInv, ScrollIsSound
<1> QED BY <1>1, <1>2, <1>3, <1>4 DEF ScrollInv

\* A step of the scroll, and no answer yet.
LEMMA ScrollStep ==
    ASSUME ScrollConstants, ScrollInv, ScrollTyped', ScrollIsSound(run)', answer' = None
    PROVE  ScrollInv'
BY DEF ScrollInv, AnswerIsTrue, Scroll!DisappearanceIsReal, Scroll!ElementIsPinned, Scroll!DispatchIsTold,
   Scroll!Said

LEMMA ScrollBegin ==
    ASSUME ScrollConstants, ScrollInv, Scroll!Begin
    PROVE  ScrollInv'
<1>1. PICK condition \in Scroll!Conditions \cup {None}, container \in BOOLEAN :
        /\ run' = [condition |-> condition, container |-> container, at |-> "activate", surface |-> None, base |-> None,
                   articles |-> 0, seen |-> {}, textComplete |-> TRUE, animationComplete |-> TRUE,
                   steps |-> 0, dispatched |-> "no"]
        /\ attached' = container
  BY DEF Scroll!Begin
<1>2. run' \in Scrolls /\ run'.at = "activate" /\ run'.steps = 0 /\ run'.dispatched = "no"
  BY <1>1 DEF Scrolls, ScrollStages
<1>3. performed' = 0 /\ answer' = None /\ doc' = doc /\ visible' = visible
  BY DEF Scroll!Begin
<1>4. ScrollIsSound(run)' /\ ScrollTyped'
  BY <1>1, <1>2, <1>3 DEF ScrollIsSound, ScrollInv, ScrollTyped, Watching, ScrollConstants
<1> QED BY <1>3, <1>4, ScrollStep

\* A step that only moves on.
LEMMA ScrollGoes ==
    ASSUME ScrollConstants, ScrollInv, run # None, UNCHANGED <<doc, attached, performed, answer>>,
           visible' \in BOOLEAN,
           NEW where \in ScrollStages, Scroll!Goes(where), where # "moving", run.at # "moving",
           where = "move" => run.steps < MaxSteps, Watching(where) => Watching(run.at)
    PROVE  ScrollInv'
<1>1. ScrollIsSound(run) /\ run' = [run EXCEPT !.at = where]
  BY DEF ScrollInv, Scroll!Goes
<1>2. /\ run' \in Scrolls /\ run'.at = where /\ run'.surface = run.surface /\ run'.base = run.base
      /\ run'.steps = run.steps /\ run'.dispatched = run.dispatched
  BY <1>1 DEF ScrollIsSound, Scrolls
<1>3. ScrollIsSound(run)'
  BY <1>1, <1>2 DEF ScrollIsSound
<1> QED BY <1>3, ScrollStep DEF ScrollInv, ScrollTyped

\* A scroll that is blocked was not under way, and says what it had done.
LEMMA ScrollBlocked ==
    ASSUME ScrollConstants, ScrollInv, run # None, UNCHANGED Scroll!Page, visible' = visible, run.at # "moving",
           NEW kind, kind # "succeeded", Scroll!Blocked(kind)
    PROVE  ScrollInv'
<1>1. /\ ScrollIsSound(run) /\ run.steps \in Nat /\ performed \in Nat /\ performed' = performed /\ run' = None
      /\ run.dispatched \in {"no", "unknown", "yes"}
  BY DEF ScrollInv, ScrollIsSound, Scrolls, ScrollTyped, Scroll!Page, Scroll!Blocked, Scroll!Ends
<1>2. /\ answer'.kind = kind /\ answer'.told = (IF Scroll!Prior THEN "yes" ELSE "no")
      /\ answer'.recorded = run.dispatched /\ answer'.steps = run.steps
  BY DEF Scroll!Blocked, Scroll!Ends
<1>3. performed > 0 => answer'.told # "no" /\ answer'.recorded # "no"
  BY <1>1, <1>2 DEF Scroll!Prior, ScrollIsSound
<1>4. AnswerIsTrue'
  BY <1>1, <1>2, <1>3 DEF ScrollIsSound, AnswerIsTrue, Scroll!DisappearanceIsReal, Scroll!ElementIsPinned,
     Scroll!DispatchIsTold, Scroll!Said
<1> QED BY <1>1, <1>4 DEF ScrollInv, ScrollTyped, Scroll!Page

LEMMA ScrollActivates ==
    ASSUME ScrollConstants, ScrollInv, run # None, UNCHANGED Scroll!Page, run.at # "moving",
           NEW where \in {"pin", "move"}, Scroll!Activates(where),
           where = "move" => run.steps < MaxSteps /\ Watching(run.at)
    PROVE  ScrollInv'
<1>1. CASE visible' = TRUE /\ Scroll!Goes(where) /\ UNCHANGED answer
  <2>1. /\ where \in ScrollStages /\ (Watching(where) => where = "move")
        /\ UNCHANGED <<doc, attached, performed, answer>>
    BY <1>1 DEF ScrollStages, Watching, Scroll!Page
  <2> QED BY <1>1, <2>1, ScrollGoes
<1>2. CASE Scroll!Blocked("page_not_active") /\ UNCHANGED visible
  BY <1>2, ScrollBlocked
<1> QED BY <1>1, <1>2 DEF Scroll!Activates

LEMMA ScrollPins ==
    ASSUME ScrollConstants, ScrollInv, Scroll!Activate \/ Scroll!Pin
    PROVE  ScrollInv'
<1>1. CASE Scroll!Activate
  BY <1>1, ScrollActivates DEF Scroll!Activate, Scroll!At
<1>2. CASE Scroll!Pin
  <2>1. run # None /\ run.at = "pin" /\ UNCHANGED <<doc, visible, performed, runs, answer>> /\ ScrollIsSound(run)
    BY <1>2 DEF Scroll!Pin, Scroll!At, ScrollInv
  <2>2. PICK surface \in {"element", "viewport"} : run' = [run EXCEPT !.at = "baseline", !.surface = surface]
    BY <1>2 DEF Scroll!Pin
  <2>3. /\ run' \in Scrolls /\ run'.at = "baseline" /\ run'.steps = run.steps /\ run'.dispatched = run.dispatched
    BY <2>1, <2>2 DEF ScrollIsSound, Scrolls, ScrollStages
  <2>4. attached' \in BOOLEAN
    BY <1>2 DEF Scroll!Pin, ScrollInv, ScrollTyped
  <2>5. ScrollIsSound(run)'
    BY <2>1, <2>3 DEF ScrollIsSound, Watching
  <2> QED BY <2>1, <2>4, <2>5, ScrollStep DEF ScrollInv, ScrollTyped
<1> QED BY <1>1, <1>2

\* Another sample keeps the record.
LEMMA ScrollNoted ==
    ASSUME ScrollConstants, run \in Scrolls, NEW s \in Scroll!Samples
    PROVE  /\ Scroll!Noted(s) \in Scrolls
           /\ Scroll!Noted(s).at = run.at /\ Scroll!Noted(s).surface = run.surface /\ Scroll!Noted(s).base = run.base
           /\ Scroll!Noted(s).steps = run.steps /\ Scroll!Noted(s).dispatched = run.dispatched
           /\ Scroll!Noted(s).seen = run.seen \cup ({s.seen} \ {None})
           /\ Scroll!Noted(s).textComplete => s.textComplete
           /\ Scroll!Noted(s).animationComplete => s.animationComplete
<1>1. s.seen \in Scroll!Kinds \cup {None} /\ s.textComplete \in BOOLEAN /\ s.animationComplete \in BOOLEAN
  BY ScrollSamples
<1>2. /\ run.seen \cup ({s.seen} \ {None}) \in SUBSET Scroll!Kinds
      /\ (run.textComplete /\ s.textComplete) \in BOOLEAN
      /\ (run.animationComplete /\ s.animationComplete) \in BOOLEAN
  BY <1>1 DEF Scrolls
<1>3. Scroll!Noted(s) =
        [run EXCEPT !.seen = run.seen \cup ({s.seen} \ {None}), !.textComplete = run.textComplete /\ s.textComplete,
                    !.animationComplete = run.animationComplete /\ s.animationComplete]
  BY DEF Scroll!Noted, Scrolls
<1> QED BY <1>2, <1>3 DEF Scrolls

LEMMA ScrollBaseline ==
    ASSUME ScrollConstants, ScrollInv, Scroll!Baseline
    PROVE  ScrollInv'
<1>1. /\ run # None /\ run.at = "baseline" /\ UNCHANGED <<visible, Scroll!Page>> /\ ScrollIsSound(run)
      /\ run \in Scrolls
  BY DEF Scroll!Baseline, Scroll!At, ScrollInv, ScrollIsSound
<1>2. CASE Scroll!Blocked("surface_unavailable") \/ Scroll!Blocked("observation_incomplete")
  BY <1>1, <1>2, ScrollBlocked
<1>3. ASSUME NEW s \in Scroll!Samples, answer' = answer,
             run' = [Scroll!Noted(s) EXCEPT !.at = "step", !.articles = s.articles, !.base = doc.version,
                                            !.surface = IF Scroll!Observable THEN @ ELSE "viewport"]
      PROVE  ScrollInv'
  <2> DEFINE n == Scroll!Noted(s)
  <2>1. n \in Scrolls /\ n.steps = run.steps /\ n.dispatched = run.dispatched /\ n.surface = run.surface
    BY <1>1, ScrollNoted
  <2>2. s.articles \in Nat /\ doc.version \in 0 .. MaxVersion /\ doc.version \in Nat /\ "step" \in ScrollStages
    <3>1. doc.articles \in 0 .. MaxArticles /\ doc.version \in 0 .. MaxVersion
      BY DEF ScrollInv, ScrollTyped, Documents
    <3>2. doc.articles \in Nat /\ doc.version \in Nat
      BY <3>1 DEF ScrollConstants
    <3>3. s.articles = doc.articles
      BY ScrollSamples
    <3> QED BY <3>1, <3>2, <3>3 DEF ScrollStages
  <2> HIDE DEF n
  <2>3. PICK surface \in {"element", "viewport", None} :
           run' = [n EXCEPT !.at = "step", !.articles = s.articles, !.base = doc.version, !.surface = surface]
    <3>1. (IF Scroll!Observable THEN n.surface ELSE "viewport") \in {"element", "viewport", None}
      BY <2>1 DEF Scrolls
    <3>2. run' = [n EXCEPT !.at = "step", !.articles = s.articles, !.base = doc.version,
                           !.surface = IF Scroll!Observable THEN n.surface ELSE "viewport"]
      BY <1>3 DEF n
    <3> QED BY <3>1, <3>2
  <2>4. /\ run' \in Scrolls /\ run'.at = "step" /\ run'.steps = run.steps /\ run'.dispatched = run.dispatched
        /\ run'.base = doc.version
    BY <2>1, <2>2, <2>3 DEF Scrolls
  <2>5. ScrollIsSound(run)'
    BY <1>1, <2>2, <2>4 DEF ScrollIsSound, Scroll!Page
  <2> QED BY <1>1, <1>3, <2>5, ScrollStep DEF ScrollInv, ScrollTyped, Scroll!Page
<1> QED BY <1>2, <1>3 DEF Scroll!Baseline

LEMMA ScrollMoves ==
    ASSUME ScrollConstants, ScrollInv, Scroll!Step \/ Scroll!Move
    PROVE  ScrollInv'
<1>1. CASE Scroll!Step
  <2>1. run # None /\ run.at = "step" /\ UNCHANGED Scroll!Page /\ "wait" \in ScrollStages /\ Watching(run.at)
    BY <1>1 DEF Scroll!Step, Scroll!At, ScrollStages, Watching
  <2>2. CASE Scroll!Goes("wait") /\ UNCHANGED <<visible, answer>>
    BY <2>1, <2>2, ScrollGoes DEF Scroll!Page, ScrollInv, ScrollTyped
  <2>3. CASE run.steps < MaxSteps /\ Scroll!Activates("move")
    BY <2>1, <2>3, ScrollActivates
  <2> QED BY <1>1, <2>2, <2>3 DEF Scroll!Step
<1>2. CASE Scroll!Move
  <2>1. /\ run # None /\ run.at = "move" /\ UNCHANGED <<visible, answer, Scroll!Page>> /\ ScrollIsSound(run)
        /\ run' = [run EXCEPT !.at = "moving", !.dispatched = "unknown"]
    BY <1>2 DEF Scroll!Move, Scroll!At, Scroll!Dispatches, ScrollInv
  <2>2. /\ run' \in Scrolls /\ run'.at = "moving" /\ run'.steps = run.steps /\ run'.dispatched = "unknown"
        /\ run'.base = run.base /\ run'.surface = run.surface
    BY <2>1 DEF ScrollIsSound, Scrolls, ScrollStages
  <2>3. ScrollIsSound(run)'
    BY <2>1, <2>2 DEF ScrollIsSound, Scroll!Page, Watching
  <2> QED BY <2>1, <2>3, ScrollStep DEF ScrollInv, ScrollTyped, Scroll!Page
<1> QED BY <1>1, <1>2

LEMMA ScrollMoved ==
    ASSUME ScrollConstants, ScrollInv, Scroll!Moved
    PROVE  ScrollInv'
<1>1. /\ run # None /\ run.at = "moving" /\ UNCHANGED <<doc, visible, attached, runs>> /\ ScrollIsSound(run)
      /\ performed \in Nat /\ answer = None
  BY DEF Scroll!Moved, Scroll!At, ScrollInv, ScrollTyped
<1>2. /\ run.steps = performed /\ run.steps < MaxSteps /\ run.dispatched = "unknown" /\ run.steps \in Nat
      /\ MaxSteps \in Nat
  BY <1>1 DEF ScrollIsSound, Scrolls, ScrollConstants
<1>3. CASE /\ performed' = performed + 1
           /\ \E where \in {"step", "wait"} : run' = [run EXCEPT !.at = where, !.dispatched = "yes", !.steps = @ + 1]
           /\ UNCHANGED answer
  <2>1. PICK where \in {"step", "wait"} : run' = [run EXCEPT !.at = where, !.dispatched = "yes", !.steps = @ + 1]
    BY <1>3
  <2>2. run \in Scrolls /\ run.steps + 1 \in Nat /\ where \in ScrollStages
    BY <1>1, <1>2 DEF ScrollIsSound, ScrollStages
  <2>3. /\ run' \in Scrolls /\ run'.at = where /\ run'.steps = run.steps + 1 /\ run'.dispatched = "yes"
        /\ run'.base = run.base /\ run'.surface = run.surface
    BY <2>1, <2>2 DEF Scrolls
  <2>4. ScrollIsSound(run)'
    BY <1>1, <1>2, <1>3, <2>3 DEF ScrollIsSound, Watching
  <2> QED BY <1>1, <1>3, <2>4, ScrollStep DEF ScrollInv, ScrollTyped
<1>4. CASE performed' \in {performed, performed + 1} /\ Scroll!Ends(run, "failed", "unsaid", None)
  <2>1. /\ run' = None /\ answer'.kind = "failed" /\ answer'.told = "unsaid" /\ answer'.recorded = "unknown"
        /\ answer'.steps = performed
    BY <1>2, <1>4 DEF Scroll!Ends
  <2>2. performed' \in Nat /\ performed <= performed'
    BY <1>1, <1>4
  <2>3. AnswerIsTrue'
    BY <2>1, <2>2 DEF AnswerIsTrue, Scroll!DisappearanceIsReal, Scroll!ElementIsPinned, Scroll!DispatchIsTold,
       Scroll!Said
  <2> QED BY <1>1, <2>1, <2>2, <2>3 DEF ScrollInv, ScrollTyped
<1> QED BY <1>3, <1>4 DEF Scroll!Moved

\* What is said of the loaders is so of the sample it is said of.
LEMMA ScrollSucceeds ==
    ASSUME ScrollConstants, ScrollInv, run # None, run.at = "wait", UNCHANGED <<visible, Scroll!Page>>,
           Scroll!Observable,
           NEW s \in Scroll!Samples, NEW evidence,
           Scroll!Ends(Scroll!Noted(s), "succeeded", Scroll!Noted(s).dispatched, evidence),
           evidence = "disappeared" => Scroll!Disappeared(Scroll!Noted(s), s)
    PROVE  ScrollInv'
<1> DEFINE n == Scroll!Noted(s)
<1>1. /\ ScrollIsSound(run) /\ run \in Scrolls /\ n \in Scrolls
      /\ n.surface = run.surface /\ n.base = run.base /\ n.steps = run.steps /\ n.dispatched = run.dispatched
      /\ n.textComplete => s.textComplete
      /\ n.animationComplete => s.animationComplete
  BY ScrollNoted DEF ScrollInv, ScrollIsSound
<1>2. /\ run' = None /\ answer'.kind = "succeeded" /\ answer'.told = n.dispatched /\ answer'.recorded = n.dispatched
      /\ answer'.steps = n.steps /\ answer'.evidence = evidence /\ answer'.seen = n.seen
      /\ answer'.loaders = doc.loaders /\ answer'.surface = n.surface
      /\ answer'.same = (n.base = doc.version) /\ answer'.connected = attached
  BY DEF Scroll!Ends
<1>3. evidence = "disappeared" => s.seen = None /\ ("semantic" \in n.seen \/ Scroll!GenericComplete(n))
  BY DEF Scroll!Disappeared
<1> HIDE DEF n
<1>4. Scroll!DisappearanceIsReal'
  BY <1>1, <1>2, <1>3, ScrollSamples DEF Scroll!DisappearanceIsReal, Scroll!GenericComplete, Scroll!Said
<1>5. Scroll!ElementIsPinned'
  <2>1. run.surface = "element" => attached /\ run.base = doc.version
    BY <1>1 DEF ScrollIsSound, Watching, Scroll!Observable
  <2> QED BY <1>1, <1>2, <2>1 DEF Scroll!ElementIsPinned, Scroll!Said
<1>6. Scroll!DispatchIsTold'
  BY <1>1, <1>2 DEF Scroll!DispatchIsTold, ScrollIsSound, ScrollInv, ScrollTyped, Scroll!Page
<1>7. ScrollTyped'
  BY DEF ScrollInv, ScrollTyped, Scroll!Page
<1> QED BY <1>2, <1>4, <1>5, <1>6, <1>7 DEF ScrollInv, AnswerIsTrue

LEMMA ScrollWaits ==
    ASSUME ScrollConstants, ScrollInv, Scroll!Wait
    PROVE  ScrollInv'
<1>1. run # None /\ run.at = "wait" /\ UNCHANGED <<visible, Scroll!Page>> /\ run \in Scrolls /\ answer = None
  BY DEF Scroll!Wait, Scroll!At, ScrollInv, ScrollIsSound
<1>2. CASE Scroll!Blocked("surface_unavailable") \/ Scroll!Blocked("observation_incomplete")
  BY <1>1, <1>2, ScrollBlocked
<1>3. ASSUME NEW s \in Scroll!Samples, run' = Scroll!Noted(s), answer' = answer
      PROVE  ScrollInv'
  <2>1. /\ run' \in Scrolls /\ run'.at = run.at /\ run'.surface = run.surface /\ run'.base = run.base
        /\ run'.steps = run.steps /\ run'.dispatched = run.dispatched
    BY <1>1, <1>3, ScrollNoted
  <2>2. ScrollIsSound(run)'
    BY <1>1, <2>1 DEF ScrollIsSound, ScrollInv, Scroll!Page
  <2> QED BY <1>1, <1>3, <2>2, ScrollStep DEF ScrollInv, ScrollTyped, Scroll!Page
<1>4. ASSUME NEW s \in Scroll!Samples, NEW evidence, Scroll!Observable,
             Scroll!Ends(Scroll!Noted(s), "succeeded", Scroll!Noted(s).dispatched, evidence),
             evidence = "disappeared" => Scroll!Disappeared(Scroll!Noted(s), s)
      PROVE  ScrollInv'
  BY <1>1, <1>4, ScrollSucceeds
<1>5. \A r, s : Scroll!Evidence(r, s) # None /\ Scroll!Evidence(r, s) = "disappeared" => Scroll!Disappeared(r, s)
  BY DEF Scroll!Evidence
<1>6. ASSUME Scroll!Observable,
             NEW s \in Scroll!Samples,
             IF run.condition = None THEN Scroll!Ends(Scroll!Noted(s), "succeeded", Scroll!Noted(s).dispatched,
                                                      "not_requested")
             ELSE \/ Scroll!Evidence(Scroll!Noted(s), s) # None
                     /\ Scroll!Ends(Scroll!Noted(s), "succeeded", Scroll!Noted(s).dispatched,
                                    Scroll!Evidence(Scroll!Noted(s), s))
                  \/ Scroll!Evidence(Scroll!Noted(s), s) = None /\ run' = Scroll!Noted(s) /\ UNCHANGED answer
                  \/ IF Scroll!Incomplete(Scroll!Noted(s), s) THEN Scroll!Blocked("observation_incomplete")
                     ELSE Scroll!Ends(Scroll!Noted(s), "succeeded", Scroll!Noted(s).dispatched, "timeout")
      PROVE  ScrollInv'
  <2>1. CASE Scroll!Ends(Scroll!Noted(s), "succeeded", Scroll!Noted(s).dispatched, "not_requested")
    BY <1>6, <2>1, <1>4
  <2>2. CASE Scroll!Evidence(Scroll!Noted(s), s) # None
               /\ Scroll!Ends(Scroll!Noted(s), "succeeded", Scroll!Noted(s).dispatched,
                              Scroll!Evidence(Scroll!Noted(s), s))
    BY <1>6, <2>2, <1>4, <1>5
  <2>3. CASE run' = Scroll!Noted(s) /\ UNCHANGED answer
    BY <1>6, <2>3, <1>3
  <2>4. CASE Scroll!Blocked("observation_incomplete")
    BY <2>4, <1>2
  <2>5. CASE Scroll!Ends(Scroll!Noted(s), "succeeded", Scroll!Noted(s).dispatched, "timeout")
    BY <1>6, <2>5, <1>4
  <2> QED BY <1>6, <2>1, <2>2, <2>3, <2>4, <2>5
<1> QED BY <1>2, <1>6 DEF Scroll!Wait

LEMMA ScrollNext == ScrollConstants /\ ScrollInv /\ [Scroll!Next]_(Scroll!vars) => ScrollInv'
<1> SUFFICES ASSUME ScrollConstants, ScrollInv, [Scroll!Next]_(Scroll!vars) PROVE ScrollInv'
  OBVIOUS
<1>1. CASE UNCHANGED Scroll!vars
  BY <1>1 DEF Scroll!vars, ScrollInv, ScrollTyped, ScrollIsSound, AnswerIsTrue, Scroll!DisappearanceIsReal,
     Scroll!ElementIsPinned,
     Scroll!DispatchIsTold, Scroll!Said
<1>2. CASE Scroll!Next
  BY <1>2, ScrollPage, ScrollBegin, ScrollPins, ScrollBaseline, ScrollMoves, ScrollMoved, ScrollWaits DEF Scroll!Next
<1> QED BY <1>1, <1>2

LEMMA ScrollSafe ==
    ScrollConstants /\ ScrollInv
      => Scroll!TypeOK /\ Scroll!DisappearanceIsReal /\ Scroll!ElementIsPinned /\ Scroll!DispatchIsTold
BY DEF ScrollInv, ScrollTyped, ScrollIsSound, Documents, Watching, AnswerIsTrue, Scroll!TypeOK, Scrolls,
   ScrollConstants

\* A scroll never denies a movement that may have reached the page, ends on the
\* element of its baseline, and says that loaders disappeared only when the
\* surest kind that it ever saw does not show (scroll/action.ts).
THEOREM ScrollTellsWhatItDid == ASSUME ScrollConstants PROVE Spec => []ScrollsAreTold
<1> DEFINE Inv == part = "scroll" => ScrollInv
<1>1. Init => Inv
  BY ScrollInit, PartsBegin
<1>2. Inv /\ [Next]_vars => Inv'
  BY ScrollNext, PartsGoOn
<1>3. Inv => ScrollsAreTold
  BY ScrollSafe DEF ScrollsAreTold
<1> QED BY <1>1, <1>2, <1>3, PTL DEF Spec

-----------------------------------------------------------------------------
\* The inspection of a tab (TabInspection).
\* The record of an inspection; None is none of them, no page and no document.
TabStages == {"observe", "activate", "activated", "poll", "repoll", "ready", "reready", "content", "capture",
           "captured", "finally", "restored", "again", "judge", "summary", "answer"}
Inspections ==
    [page : Tabs, selected : Tabs \cup {None}, temporary : BOOLEAN, wait : BOOLEAN, pinned : Nat,
     at : TabStages, polls : Nat, recovered : BOOLEAN, failed : BOOLEAN, captured : Nat \cup {None},
     front : Tabs \cup {None}, proven : BOOLEAN, restored : BOOLEAN]
TabConstants == MaxVersion \in Nat /\ MaxPolls \in Nat /\ None \notin Tabs \cup Nat \cup Inspections

TabTyped ==
    /\ live \subseteq Tabs /\ visible \subseteq live /\ known \subseteq Tabs
    /\ active \in live \cup {None} /\ version \in [Tabs -> Nat]
\* An inspection has captured its document, or fails; it says that the renderer
\* was given back when it was, or never taken away.
InspectionIsSound(r) ==
    /\ r \in Inspections
    /\ r.front \in {None, r.page, r.selected} /\ (r.front # None \/ r.recovered => r.temporary)
    /\ r.at = "observe" => r.front = None
    /\ r.pinned <= version[r.page]
    /\ r.captured # None => r.pinned <= r.captured /\ r.captured <= version[r.page]
    /\ r.at = "captured" \/ (r.at \in {"finally", "restored", "again", "judge"} /\ ~r.failed) => r.captured # None
    /\ r.at \in {"summary", "answer"} => r.captured = r.pinned /\ (r.temporary => r.restored)
    /\ r.at \in {"restored", "again"} => r.front = r.selected
    /\ r.restored =>
        /\ r.at \in {"judge", "summary", "answer"}
        /\ r.selected = r.page \/ (r.front = r.selected /\ r.proven)

TabInv == TabTyped /\ (run # None => InspectionIsSound(run)) /\ Tab!SnapshotIsPinned /\ Tab!GivenBack

\* The page the selection settles on is one of the context.
LEMMA TabSole == ASSUME NEW s PROVE Tab!Sole(s) \in s \cup {None}
<1>1. Tab!Cardinality({}) = 0
  BY FS_EmptySet, SameCount
<1>2. CASE s = {}
  <2>1. Tab!Cardinality(s) # 1
    BY <1>1, <1>2
  <2> QED BY <2>1 DEF Tab!Sole
<1>3. CASE s # {}
  BY <1>3 DEF Tab!Sole
<1> QED BY <1>2, <1>3

LEMMA TabPreferred ==
    /\ Tab!Preferred \in live \cup {None}
    /\ active \in live \cup {None} /\ Tab!Settle => active' \in live \cup {None}
BY TabSole DEF Tab!Preferred, Tab!Settle

LEMMA TabInit == TabConstants /\ Tab!Init => TabInv
BY DEF TabConstants, Tab!Init, TabInv, TabTyped, Tab!SnapshotIsPinned, Tab!GivenBack, Tab!Ended

\* The pages change under an inspection: documents only advance.
LEMMA TabEnvironment ==
    ASSUME TabConstants, TabInv, TabTyped', run' = run, answer' = answer \/ answer' = None,
           \A p \in Tabs : version[p] <= version'[p]
    PROVE  TabInv'
<1>1. ASSUME run # None PROVE InspectionIsSound(run)'
  <2>1. InspectionIsSound(run) /\ run.page \in Tabs /\ run.pinned \in Nat /\ run.captured \in Nat \cup {None}
    BY <1>1 DEF TabInv, InspectionIsSound, Inspections
  <2>2. version[run.page] <= version'[run.page] /\ version[run.page] \in Nat /\ version'[run.page] \in Nat
    BY <2>1 DEF TabInv, TabTyped
  <2>3. /\ run.pinned <= version'[run.page]
        /\ run.captured # None => run.captured <= version'[run.page]
    BY <2>1, <2>2 DEF InspectionIsSound
  <2> QED BY <2>1, <2>3 DEF InspectionIsSound
<1> QED BY <1>1 DEF TabInv, Tab!SnapshotIsPinned, Tab!GivenBack, Tab!Ended

LEMMA TabPages ==
    ASSUME TabConstants, TabInv, Tab!Closes \/ Tab!Crashes \/ Tab!Navigates \/ Tab!Switches
    PROVE  TabInv'
<1>1. run' = run /\ answer' = answer
  BY DEF Tab!Closes, Tab!Crashes, Tab!Navigates, Tab!Switches
<1>2. TabTyped' /\ \A p \in Tabs : version[p] <= version'[p]
  <2> USE TabSole
  <2>1. CASE Tab!Closes
    BY <2>1 DEF Tab!Closes, Tab!Lost, TabInv, TabTyped
  <2>2. CASE Tab!Crashes
    BY <2>2 DEF Tab!Crashes, Tab!Lost, TabInv, TabTyped, Tab!env
  <2>3. CASE Tab!Navigates
    BY <2>3 DEF Tab!Navigates, TabInv, TabTyped
  <2>4. CASE Tab!Switches
    BY <2>4 DEF Tab!Switches, TabInv, TabTyped, Tab!env
  <2> QED BY <2>1, <2>2, <2>3, <2>4
<1> QED BY <1>1, <1>2, TabEnvironment

LEMMA TabCommands ==
    ASSUME TabConstants, TabInv, Tab!Tabs \/ Tab!SelectTab \/ Tab!Stale
    PROVE  TabInv'
<1>1. run' = run /\ (answer' = answer \/ answer' = None) /\ version' = version /\ live' = live
  BY DEF Tab!Tabs, Tab!SelectTab, Tab!Stale, Tab!env
<1>2. TabTyped'
  <2>1. CASE Tab!Tabs
    BY <2>1, TabSole, TabPreferred DEF Tab!Tabs, TabInv, TabTyped, Tab!env
  <2>2. CASE Tab!SelectTab
    BY <2>2 DEF Tab!SelectTab, Tab!Shown, TabInv, TabTyped, Tab!env
  <2>3. CASE Tab!Stale
    BY <2>3 DEF Tab!Stale, TabInv, TabTyped, Tab!env
  <2> QED BY <2>1, <2>2, <2>3
<1>3. \A p \in Tabs : version[p] <= version'[p]
  BY <1>1 DEF TabInv, TabTyped
<1> QED BY <1>1, <1>2, <1>3, TabEnvironment

\* A step of an inspection.
LEMMA TabStep ==
    ASSUME TabConstants, TabInv, live' = live, version' = version, visible' \subseteq live,
           known' \subseteq Tabs, active' \in live \cup {None}, InspectionIsSound(run)',
           answer' = answer \/ answer' = None
    PROVE  TabInv'
BY DEF TabInv, TabTyped, Tab!SnapshotIsPinned, Tab!GivenBack, Tab!Ended

LEMMA TabBegin ==
    ASSUME TabConstants, TabInv, Tab!Begin
    PROVE  TabInv'
<1>1. PICK p \in known \cap live, temporary \in BOOLEAN, wait \in BOOLEAN :
        /\ temporary => Tab!Preferred # None
        /\ run' = [page |-> p, selected |-> Tab!Preferred, temporary |-> temporary, wait |-> wait,
                   pinned |-> version[p], at |-> IF wait THEN "observe" ELSE "activate", polls |-> 0,
                   recovered |-> FALSE, failed |-> FALSE, captured |-> None,
                   front |-> None, proven |-> FALSE, restored |-> FALSE]
  BY DEF Tab!Begin
<1>2. p \in Tabs /\ version[p] \in Nat /\ Tab!Preferred \in Tabs \cup {None}
  BY TabPreferred DEF TabInv, TabTyped
<1>3. /\ run' \in Inspections /\ run'.page = p /\ run'.pinned = version[p] /\ run'.at \in {"observe", "activate"}
      /\ run'.front = None /\ run'.captured = None /\ run'.restored = FALSE /\ run'.recovered = FALSE
  BY <1>1, <1>2 DEF Inspections, TabStages
<1>4. version' = version /\ live' = live /\ visible' = visible /\ known' = known /\ Tab!Settle /\ answer' = None
  BY DEF Tab!Begin, Tab!env
<1>5. InspectionIsSound(run)'
  BY <1>2, <1>3, <1>4 DEF InspectionIsSound
<1> QED BY <1>4, <1>5, TabStep, TabPreferred DEF TabInv, TabTyped

\* What a step that stays with its pages leaves of the inspection.
LEMMA TabQuiet ==
    ASSUME TabConstants, TabInv, run # None, Tab!Quiet, visible' \subseteq live, answer' = answer,
           InspectionIsSound(run)'
    PROVE  TabInv'
BY TabStep DEF Tab!Quiet, Tab!env, TabInv, TabTyped

LEMMA TabGoes ==
    ASSUME TabConstants, TabInv, run # None, Tab!Quiet, visible' = visible, answer' = answer,
           NEW where \in TabStages, Tab!Goes(where),
           where \notin {"observe", "captured", "restored", "again", "summary", "answer"},
           where \in {"finally", "judge"} /\ ~run.failed => run.captured # None,
           run.restored => where = "judge"
    PROVE  TabInv'
<1>1. InspectionIsSound(run)
  BY DEF TabInv
<1>2. run' = [run EXCEPT !.at = where]
  BY DEF Tab!Goes
<1>3. /\ run' \in Inspections /\ run'.at = where /\ run'.page = run.page /\ run'.selected = run.selected
      /\ run'.temporary = run.temporary /\ run'.pinned = run.pinned /\ run'.recovered = run.recovered
      /\ run'.failed = run.failed /\ run'.captured = run.captured /\ run'.front = run.front
      /\ run'.proven = run.proven /\ run'.restored = run.restored
  BY <1>1, <1>2 DEF InspectionIsSound, Inspections
<1>4. InspectionIsSound(run)'
  BY <1>1, <1>3 DEF InspectionIsSound, Tab!Quiet, Tab!env
<1>5. visible' \subseteq live
  BY DEF TabInv, TabTyped
<1> QED BY <1>4, <1>5, TabQuiet

LEMMA TabFails ==
    ASSUME TabConstants, TabInv, run # None, Tab!Quiet, visible' = visible, answer' = answer, ~run.restored,
           Tab!Fails
    PROVE  TabInv'
<1>1. InspectionIsSound(run)
  BY DEF TabInv
<1>2. run' = [run EXCEPT !.at = "finally", !.failed = TRUE] /\ "finally" \in TabStages
  BY DEF Tab!Fails, TabStages
<1>3. /\ run' \in Inspections /\ run'.at = "finally" /\ run'.page = run.page /\ run'.selected = run.selected
      /\ run'.temporary = run.temporary /\ run'.pinned = run.pinned /\ run'.recovered = run.recovered
      /\ run'.failed = TRUE /\ run'.captured = run.captured /\ run'.front = run.front
      /\ run'.proven = run.proven /\ run'.restored = run.restored
  BY <1>1, <1>2 DEF InspectionIsSound, Inspections
<1>4. InspectionIsSound(run)'
  BY <1>1, <1>3 DEF InspectionIsSound, Tab!Quiet, Tab!env
<1>5. visible' \subseteq live
  BY DEF TabInv, TabTyped
<1> QED BY <1>4, <1>5, TabQuiet

\* A page is asked to the front, the inspected one or at the end the selected one.
LEMMA TabFront ==
    ASSUME TabConstants, TabInv, run # None, Tab!Quiet, answer' = answer, run.temporary, ~run.restored,
           NEW p \in {run.page, run.selected}, NEW where \in TabStages, Tab!BringsToFront(p, where),
           where \notin {"observe", "captured", "finally", "judge", "summary", "answer"},
           where \in {"restored", "again"} => p = run.selected /\ (~run.failed => run.captured # None)
    PROVE  TabInv'
<1>1. InspectionIsSound(run)
  BY DEF TabInv
<1>2. run' = [run EXCEPT !.at = where, !.front = p, !.proven = FALSE] /\ p \in live /\ Tab!Shown(p)
  BY DEF Tab!BringsToFront
<1>3. p \in Tabs
  BY <1>2 DEF TabInv, TabTyped
<1>4. /\ run' \in Inspections /\ run'.at = where /\ run'.page = run.page /\ run'.selected = run.selected
      /\ run'.temporary = run.temporary /\ run'.pinned = run.pinned /\ run'.recovered = run.recovered
      /\ run'.failed = run.failed /\ run'.captured = run.captured /\ run'.front = p
      /\ run'.restored = run.restored
  BY <1>1, <1>2, <1>3 DEF InspectionIsSound, Inspections
<1>5. InspectionIsSound(run)'
  BY <1>1, <1>4 DEF InspectionIsSound, Tab!Quiet, Tab!env
<1>6. visible' \subseteq live
  BY <1>2 DEF Tab!Shown, TabInv, TabTyped
<1> QED BY <1>5, <1>6, TabQuiet

\* An end: what was pinned was captured, and the renderer is back, or this is told.
LEMMA TabEnds ==
    ASSUME TabConstants, TabInv, run # None, Tab!Quiet, visible' = visible, NEW kind, Tab!Ends(kind),
           kind = "success" => run.captured = run.pinned,
           kind = "restore_failed" \/ run.front = None \/ run.selected = run.page
              \/ (run.front = run.selected /\ run.proven)
    PROVE  TabInv'
<1>1. run' = None
  BY DEF Tab!Ends
<1>2. /\ answer'.kind = kind /\ answer'.captured = run.captured /\ answer'.pinned = run.pinned
      /\ answer'.away = (run.front # None /\ run.selected # run.page)
      /\ answer'.back = (run.front = run.selected /\ run.proven)
  BY DEF Tab!Ends
<1>3. Tab!SnapshotIsPinned' /\ Tab!GivenBack'
  BY <1>2 DEF Tab!SnapshotIsPinned, Tab!GivenBack, Tab!Ended
<1>4. TabTyped'
  BY DEF TabInv, TabTyped, Tab!Quiet, Tab!env
<1> QED BY <1>1, <1>3, <1>4 DEF TabInv

LEMMA TabLooks ==
    ASSUME TabConstants, TabInv, Tab!Observe \/ Tab!Activate \/ Tab!Activated
    PROVE  TabInv'
<1>1. /\ run # None /\ Tab!Quiet /\ run.at \in {"observe", "activate", "activated"}
      /\ Tab!Looks \in {"poll", "ready"} /\ Tab!Looks \in TabStages /\ {"activate", "activated"} \subseteq TabStages
  BY DEF Tab!Observe, Tab!Activate, Tab!Activated, Tab!At, Tab!Looks, TabStages
<1>2. ~run.restored /\ (run.at = "observe" => run.front = None)
  BY <1>1 DEF TabInv, InspectionIsSound
<1>3. CASE Tab!Observe
  <2>1. CASE Tab!Goes("activate") /\ UNCHANGED answer
    BY <1>1, <1>2, <1>3, <2>1, TabGoes DEF Tab!Observe
  <2>2. CASE Tab!Ends("failed")
    BY <1>1, <1>2, <1>3, <2>2, TabEnds DEF Tab!Observe, Tab!At
  <2> QED BY <1>3, <2>1, <2>2 DEF Tab!Observe
<1>4. CASE Tab!Activate
  <2>1. CASE run.temporary /\ Tab!BringsToFront(run.page, "activated")
    BY <1>1, <1>2, <1>4, <2>1, TabFront DEF Tab!Activate
  <2>2. CASE Tab!Fails /\ UNCHANGED visible
    BY <1>1, <1>2, <1>4, <2>2, TabFails DEF Tab!Activate
  <2>3. CASE Tab!Goes(Tab!Looks) /\ UNCHANGED visible
    BY <1>1, <1>2, <1>4, <2>3, TabGoes DEF Tab!Activate
  <2> QED BY <1>4, <2>1, <2>2, <2>3 DEF Tab!Activate
<1>5. CASE Tab!Activated
  <2>1. UNCHANGED <<visible, answer>>
    BY <1>5 DEF Tab!Activated
  <2>2. CASE Tab!Goes(Tab!Looks)
    BY <1>1, <1>2, <2>1, <2>2, TabGoes
  <2>3. CASE Tab!Fails
    BY <1>1, <1>2, <2>1, <2>3, TabFails
  <2> QED BY <1>5, <2>2, <2>3 DEF Tab!Activated
<1> QED BY <1>3, <1>4, <1>5

LEMMA TabGuards ==
    ASSUME TabConstants, TabInv, Tab!Guard \/ Tab!Recovered \/ Tab!Content
    PROVE  TabInv'
<1>1. /\ run # None /\ Tab!Quiet /\ run.at \in {"poll", "ready", "repoll", "reready", "content"} /\ answer' = answer
      /\ Tab!AfterGuard \in {"content", "capture"}
      /\ {"content", "capture", "ready", "poll", "repoll", "reready"} \subseteq TabStages
  BY DEF Tab!Guard, Tab!Recovered, Tab!Content, Tab!At, Tab!AfterGuard, TabStages
<1>2. ~run.restored /\ InspectionIsSound(run)
  BY <1>1 DEF TabInv, InspectionIsSound
<1>3. CASE Tab!Fails /\ UNCHANGED visible
  BY <1>1, <1>2, <1>3, TabFails
<1>4. CASE Tab!Goes(Tab!AfterGuard) /\ UNCHANGED visible
  BY <1>1, <1>2, <1>4, TabGoes
<1>5. CASE Tab!Goes("ready") /\ UNCHANGED visible
  BY <1>1, <1>2, <1>5, TabGoes
<1>6. CASE /\ run.temporary /\ run.page \in live /\ Tab!Shown(run.page)
           /\ run' = [run EXCEPT !.at = IF run.at = "poll" THEN "repoll" ELSE "reready", !.recovered = TRUE,
                                 !.front = run.page]
  <2>1. /\ run' \in Inspections /\ run'.at \in {"repoll", "reready"} /\ run'.page = run.page
        /\ run'.selected = run.selected /\ run'.temporary = run.temporary /\ run'.pinned = run.pinned
        /\ run'.captured = run.captured /\ run'.front = run.page /\ run'.restored = run.restored
    BY <1>1, <1>2, <1>6 DEF InspectionIsSound, Inspections
  <2>2. InspectionIsSound(run)'
    BY <1>1, <1>2, <1>6, <2>1 DEF InspectionIsSound, Tab!Quiet, Tab!env
  <2>3. visible' \subseteq live
    BY <1>6 DEF Tab!Shown, TabInv, TabTyped
  <2> QED BY <1>1, <2>2, <2>3, TabQuiet
<1>7. CASE UNCHANGED visible /\ run' = [run EXCEPT !.at = "poll", !.polls = @ + 1]
  <2>0. run \in Inspections /\ run.polls + 1 \in Nat /\ "poll" \in TabStages
    BY <1>2 DEF InspectionIsSound, Inspections, TabStages
  <2>1. /\ run' \in Inspections /\ run'.at = "poll" /\ run'.page = run.page /\ run'.recovered = run.recovered
        /\ run'.selected = run.selected /\ run'.temporary = run.temporary /\ run'.pinned = run.pinned
        /\ run'.captured = run.captured /\ run'.front = run.front /\ run'.restored = run.restored
    BY <1>7, <2>0 DEF Inspections
  <2>2. InspectionIsSound(run)'
    BY <1>1, <1>2, <2>1 DEF InspectionIsSound, Tab!Quiet, Tab!env
  <2>3. visible' \subseteq live
    BY <1>7 DEF TabInv, TabTyped
  <2> QED BY <1>1, <2>2, <2>3, TabQuiet
<1> QED BY <1>3, <1>4, <1>5, <1>6, <1>7 DEF Tab!Guard, Tab!Recovered, Tab!Content

LEMMA TabCaptures ==
    ASSUME TabConstants, TabInv, Tab!Capture \/ Tab!Captured
    PROVE  TabInv'
<1>1. /\ run # None /\ Tab!Quiet /\ run.at \in {"capture", "captured"} /\ answer' = answer /\ visible' = visible
      /\ {"captured", "finally"} \subseteq TabStages
  BY DEF Tab!Capture, Tab!Captured, Tab!At, TabStages
<1>2. ~run.restored /\ InspectionIsSound(run) /\ (run.at = "captured" => run.captured # None)
  BY <1>1 DEF TabInv, InspectionIsSound
<1>3. CASE Tab!Fails
  BY <1>1, <1>2, <1>3, TabFails
<1>4. CASE run.at = "captured" /\ Tab!Goes("finally")
  BY <1>1, <1>2, <1>4, TabGoes
<1>5. CASE run' = [run EXCEPT !.at = "captured", !.captured = version[run.page]]
  <2>1. version[run.page] \in Nat /\ version[run.page] # None
    BY <1>2 DEF InspectionIsSound, Inspections, TabInv, TabTyped, TabConstants
  <2>2. /\ run' \in Inspections /\ run'.at = "captured" /\ run'.page = run.page /\ run'.recovered = run.recovered
        /\ run'.selected = run.selected /\ run'.temporary = run.temporary /\ run'.pinned = run.pinned
        /\ run'.captured = version[run.page] /\ run'.front = run.front /\ run'.restored = run.restored
    BY <1>1, <1>2, <1>5, <2>1 DEF InspectionIsSound, Inspections
  <2>3. InspectionIsSound(run)'
    BY <1>1, <1>2, <2>1, <2>2 DEF InspectionIsSound, Tab!Quiet, Tab!env
  <2>4. visible' \subseteq live
    BY <1>1 DEF TabInv, TabTyped
  <2> QED BY <1>1, <2>3, <2>4, TabQuiet
<1> QED BY <1>3, <1>4, <1>5 DEF Tab!Capture, Tab!Captured, Tab!At

LEMMA TabRestores ==
    ASSUME TabConstants, TabInv, Tab!Restore
    PROVE  TabInv'
<1>1. /\ run # None /\ Tab!Quiet /\ run.at = "finally" /\ answer' = answer
      /\ {"restored", "judge"} \subseteq TabStages
  BY DEF Tab!Restore, Tab!At, TabStages
<1>2. ~run.restored /\ InspectionIsSound(run) /\ (~run.failed => run.captured # None)
  BY <1>1 DEF TabInv, InspectionIsSound
<1>3. CASE run.temporary /\ Tab!BringsToFront(run.selected, "restored")
  BY <1>1, <1>2, <1>3, TabFront
<1>4. CASE Tab!Goes("judge") /\ UNCHANGED visible
  BY <1>1, <1>2, <1>4, TabGoes
<1>5. CASE /\ run' = [run EXCEPT !.at = "judge", !.restored = run.temporary /\ run.selected = run.page]
           /\ UNCHANGED visible
  <2>1. /\ run' \in Inspections /\ run'.at = "judge" /\ run'.page = run.page /\ run'.recovered = run.recovered
        /\ run'.selected = run.selected /\ run'.temporary = run.temporary /\ run'.pinned = run.pinned
        /\ run'.captured = run.captured /\ run'.front = run.front /\ run'.failed = run.failed
        /\ run'.restored => run.selected = run.page
    BY <1>1, <1>2, <1>5 DEF InspectionIsSound, Inspections
  <2>2. InspectionIsSound(run)'
    BY <1>1, <1>2, <2>1 DEF InspectionIsSound, Tab!Quiet, Tab!env
  <2>3. visible' \subseteq live
    BY <1>5 DEF TabInv, TabTyped
  <2> QED BY <1>1, <2>2, <2>3, TabQuiet
<1> QED BY <1>3, <1>4, <1>5 DEF Tab!Restore, Tab!MustRestore

\* Restored was seen while the page was the selected one.
LEMMA TabRestored ==
    ASSUME TabConstants, TabInv, Tab!Restored
    PROVE  TabInv'
<1>1. /\ run # None /\ run.at \in {"restored", "again"} /\ answer' = answer /\ live' = live /\ version' = version
      /\ known' = known /\ {"again", "judge"} \subseteq TabStages
  BY DEF Tab!Restored, Tab!At, TabStages, Tab!env
<1>2. /\ ~run.restored /\ InspectionIsSound(run) /\ (~run.failed => run.captured # None) /\ run.front = run.selected
      /\ active' \in live \cup {None} /\ known' \subseteq Tabs
  BY <1>1, TabPreferred DEF TabInv, TabTyped, InspectionIsSound, Tab!Restored
<1>3. run.front # None => run.temporary
  BY <1>2 DEF InspectionIsSound
<1>4. /\ InspectionIsSound(run)'
      /\ visible' \subseteq live
  <2>1. CASE Tab!SeenRestored /\ Tab!Proves /\ UNCHANGED visible
    <3>1. /\ run' \in Inspections /\ run'.at = "judge" /\ run'.page = run.page /\ run'.recovered = run.recovered
          /\ run'.selected = run.selected /\ run'.temporary = run.temporary /\ run'.pinned = run.pinned
          /\ run'.captured = run.captured /\ run'.front = run.front /\ run'.failed = run.failed
          /\ run'.proven = TRUE
      BY <1>1, <1>2, <2>1 DEF InspectionIsSound, Inspections, Tab!SeenRestored, Tab!Proves
    <3>2. InspectionIsSound(run)'
      BY <1>1, <1>2, <3>1 DEF InspectionIsSound
    <3> QED BY <2>1, <3>2 DEF TabInv, TabTyped
  <2>2. CASE Tab!BringsToFront(run.selected, "again")
    <3>1. run' = [run EXCEPT !.at = "again", !.front = run.selected, !.proven = FALSE] /\ run.selected \in live
      BY <2>2 DEF Tab!BringsToFront
    <3>2. run.selected \in Tabs /\ visible' \subseteq live
      BY <2>2, <3>1 DEF TabInv, TabTyped, Tab!BringsToFront, Tab!Shown
    <3>3. /\ run' \in Inspections /\ run'.at = "again" /\ run'.page = run.page /\ run'.recovered = run.recovered
          /\ run'.selected = run.selected /\ run'.temporary = run.temporary /\ run'.pinned = run.pinned
          /\ run'.captured = run.captured /\ run'.front = run.selected /\ run'.failed = run.failed
          /\ run'.restored = run.restored
      BY <1>1, <1>2, <3>1, <3>2 DEF InspectionIsSound, Inspections
    <3> QED BY <1>1, <1>2, <3>2, <3>3 DEF InspectionIsSound
  <2>3. CASE Tab!Goes("judge") /\ UNCHANGED visible
    <3>1. /\ run' \in Inspections /\ run'.at = "judge" /\ run'.page = run.page /\ run'.recovered = run.recovered
          /\ run'.selected = run.selected /\ run'.temporary = run.temporary /\ run'.pinned = run.pinned
          /\ run'.captured = run.captured /\ run'.front = run.front /\ run'.failed = run.failed
          /\ run'.restored = run.restored
      BY <1>1, <1>2, <2>3 DEF InspectionIsSound, Inspections, Tab!Goes
    <3> QED BY <1>1, <1>2, <2>3, <3>1 DEF InspectionIsSound, TabInv, TabTyped
  <2> QED BY <2>1, <2>2, <2>3 DEF Tab!Restored
<1> QED BY <1>1, <1>2, <1>4, TabStep

LEMMA TabJudges ==
    ASSUME TabConstants, TabInv, Tab!Judge
    PROVE  TabInv'
<1>1. run # None /\ run.at = "judge" /\ Tab!Quiet /\ visible' = visible /\ "summary" \in TabStages
  BY DEF Tab!Judge, Tab!At, TabStages
<1>2. /\ InspectionIsSound(run) /\ (~run.failed => run.captured # None)
      /\ run.restored => run.selected = run.page \/ (run.front = run.selected /\ run.proven)
      /\ run.front # None => run.temporary
  BY <1>1 DEF TabInv, InspectionIsSound
<1>3. CASE run.temporary /\ ~run.restored
  BY <1>1, <1>3, TabEnds DEF Tab!Judge
<1>4. CASE ~(run.temporary /\ ~run.restored)
  <2>1. run.front = None \/ run.selected = run.page \/ (run.front = run.selected /\ run.proven)
    BY <1>2, <1>4
  <2>2. CASE run.failed
    BY <1>1, <1>4, <2>1, <2>2, TabEnds DEF Tab!Judge
  <2>3. CASE ~run.failed /\ ~Tab!SameDocument
    BY <1>1, <1>4, <2>1, <2>3, TabEnds DEF Tab!Judge
  <2>4. CASE ~run.failed /\ Tab!SameDocument
    <3>1. run' = [run EXCEPT !.at = "summary"] /\ answer' = answer
      BY <1>4, <2>4 DEF Tab!Judge, Tab!Goes
    <3>2. run.captured = run.pinned
      <4>1. run.captured \in Nat /\ run.pinned \in Nat /\ version[run.page] = run.pinned
        BY <1>2, <2>4 DEF InspectionIsSound, Inspections, Tab!SameDocument
      <4> QED BY <1>2, <2>4, <4>1 DEF InspectionIsSound
    <3>3. /\ run' \in Inspections /\ run'.at = "summary" /\ run'.page = run.page /\ run'.recovered = run.recovered
          /\ run'.selected = run.selected /\ run'.temporary = run.temporary /\ run'.pinned = run.pinned
          /\ run'.captured = run.captured /\ run'.front = run.front /\ run'.failed = run.failed
          /\ run'.restored = run.restored /\ run'.proven = run.proven
      BY <1>1, <1>2, <3>1 DEF InspectionIsSound, Inspections
    <3>4. InspectionIsSound(run)'
      BY <1>1, <1>2, <1>4, <3>2, <3>3 DEF InspectionIsSound, Tab!Quiet, Tab!env
    <3>5. visible' \subseteq live
      BY <1>1 DEF TabInv, TabTyped
    <3> QED BY <1>1, <3>1, <3>4, <3>5, TabQuiet
  <2> QED BY <2>2, <2>3, <2>4
<1> QED BY <1>3, <1>4

LEMMA TabAnswers ==
    ASSUME TabConstants, TabInv, Tab!Summary \/ Tab!Answers
    PROVE  TabInv'
<1>1. run # None /\ run.at \in {"summary", "answer"} /\ "answer" \in TabStages
  BY DEF Tab!Summary, Tab!Answers, Tab!At, TabStages
<1>2. /\ InspectionIsSound(run) /\ run.captured = run.pinned
      /\ run.front = None \/ run.selected = run.page \/ (run.front = run.selected /\ run.proven)
      /\ run.page \in Tabs
  BY <1>1 DEF TabInv, InspectionIsSound, Inspections
<1>3. CASE Tab!Answers
  BY <1>1, <1>2, <1>3, TabEnds DEF Tab!Answers
<1>4. CASE Tab!Summary
  <2>1. run' = [run EXCEPT !.at = "answer"] /\ run.at = "summary"
    BY <1>4 DEF Tab!Summary, Tab!Goes, Tab!At
  <2>2. /\ run' \in Inspections /\ run'.at = "answer" /\ run'.page = run.page /\ run'.recovered = run.recovered
        /\ run'.selected = run.selected /\ run'.temporary = run.temporary /\ run'.pinned = run.pinned
        /\ run'.captured = run.captured /\ run'.front = run.front /\ run'.failed = run.failed
        /\ run'.restored = run.restored /\ run'.proven = run.proven
    BY <1>1, <1>2, <2>1 DEF InspectionIsSound, Inspections
  <2>3. /\ live' = live /\ version' = version /\ visible' = visible /\ known' = known \cup {run.page}
        /\ answer' = answer
        /\ active' \in live \cup {None}
    BY <1>4, TabPreferred DEF Tab!Summary, Tab!env, TabInv, TabTyped
  <2>4. InspectionIsSound(run)'
    BY <1>2, <2>1, <2>2, <2>3 DEF InspectionIsSound
  <2> QED BY <1>2, <2>3, <2>4, TabStep DEF TabInv, TabTyped
<1> QED BY <1>3, <1>4

LEMMA TabNext == TabConstants /\ TabInv /\ [Tab!Next]_(Tab!vars) => TabInv'
<1> SUFFICES ASSUME TabConstants, TabInv, [Tab!Next]_(Tab!vars) PROVE TabInv'
  OBVIOUS
<1>1. CASE UNCHANGED Tab!vars
  BY <1>1 DEF Tab!vars, TabInv, TabTyped, InspectionIsSound, Tab!SnapshotIsPinned, Tab!GivenBack, Tab!Ended
<1>2. CASE Tab!Next
  BY <1>2, TabPages, TabCommands, TabBegin, TabLooks, TabGuards, TabCaptures, TabRestores, TabRestored,
     TabJudges, TabAnswers DEF Tab!Next, Tab!Inspection
<1> QED BY <1>1, <1>2

LEMMA TabSafe == TabInv => Tab!TypeOK /\ Tab!SnapshotIsPinned /\ Tab!GivenBack
BY DEF TabInv, TabTyped, InspectionIsSound, Tab!TypeOK

\* What an inspection of a tab shows is the document it pinned, and the renderer
\* it took is given back or the answer says that it is not (observation/tabs.ts,
\* tab-activation.ts).
THEOREM InspectionIsPinnedAndGivenBack == ASSUME TabConstants PROVE Spec => []InspectsAndGivesBack
<1> DEFINE Inv == part = "tab" => TabInv
<1>1. Init => Inv
  BY TabInit, PartsBegin
<1>2. Inv /\ [Next]_vars => Inv'
  BY TabNext, PartsGoOn
<1>3. Inv => InspectsAndGivesBack
  BY TabSafe DEF InspectsAndGivesBack
<1> QED BY <1>1, <1>2, <1>3, PTL DEF Spec

-----------------------------------------------------------------------------
\* The dialogs of a command (Dialogs).
\* The manager's records, and None is none of them; Last bounds the commands.
Expected == [type : Types, response : {"accept", "dismiss"}]
Scopes == [expect : {None} \cup Expected, matched : BOOLEAN, failed : BOOLEAN]
DialogRecords == [type : Types, cause : Nat, scope : Nat, expected : BOOLEAN,
                  response : {"accept", "dismiss", "response_failed"}, pc : {"asked", "answered"}]
DialogConstants == Last \in Nat /\ None \notin DialogRecords \cup Scopes

DialogTyped ==
    /\ dialog \in [Dialogs -> DialogRecords \cup {None}] /\ scope \in Scopes \cup {None}
    /\ call \in Nat /\ DOMAIN answers = Calls
    /\ settled # None => scope # None /\ settled \subseteq Dialog!Raised

\* A command has one expected dialog at most, however many wait for their answers,
OneExpected == \A d, e \in Dialog!Raised :
    dialog[d].scope = dialog[e].scope /\ dialog[d].expected /\ dialog[e].expected => d = e
\* which is that of the scope, the one of the latest command, if it is marked.
MarkedIsExpected ==
    /\ \A d \in Dialog!Raised : dialog[d].scope <= call /\ (dialog[d].scope = 0 => ~dialog[d].expected)
    /\ scope # None =>
        /\ call >= 1
        /\ scope.matched <=> \E d \in Dialog!In(call) : dialog[d].expected
        /\ \A d \in Dialog!In(call) : dialog[d].expected =>
              scope.expect # None /\ dialog[d].type = scope.expect.type

\* A command that has its answer is over, and what it said stays so.
ExactWhenOver == \A c \in Calls : answers[c] # None =>
    /\ c \in 1 .. call /\ (scope # None => c # call)
    /\ answers[c].ok => /\ \A d, e \in Dialog!In(c) : d = e
                        /\ answers[c].expect = None => Dialog!In(c) = {}
                        /\ answers[c].expect # None =>
                              Dialog!In(c) # {} /\ \A d \in Dialog!In(c) : dialog[d].type = answers[c].expect.type

DialogInv == DialogTyped /\ OneExpected /\ MarkedIsExpected /\ ExactWhenOver

LEMMA DialogInit == DialogConstants /\ Dialog!Init => DialogInv
BY DEF DialogConstants, Dialog!Init, DialogInv, DialogTyped, OneExpected, MarkedIsExpected, ExactWhenOver,
   Dialog!Raised, Dialog!Pending, Dialog!In

LEMMA DialogBegin == DialogConstants /\ DialogInv /\ Dialog!Begin => DialogInv'
<1> SUFFICES ASSUME DialogConstants, DialogInv, Dialog!Begin PROVE DialogInv'
  OBVIOUS
<1>1. PICK e \in Dialog!Expectations : scope' = [expect |-> e, matched |-> FALSE, failed |-> FALSE]
  BY DEF Dialog!Begin
<1>2. /\ scope = None /\ call' = call + 1 /\ dialog' = dialog /\ settled' = settled /\ answers' = answers
      /\ call \in Nat
  BY DEF Dialog!Begin, DialogInv, DialogTyped
<1>3. DialogTyped'
  BY <1>1, <1>2 DEF DialogInv, DialogTyped, Dialog!Expectations, Scopes, Expected, Dialog!Raised
<1>4. OneExpected'
  BY <1>2 DEF DialogInv, OneExpected, Dialog!Raised, Dialog!Pending
<1>5. MarkedIsExpected'
  BY <1>1, <1>2 DEF DialogInv, DialogTyped, MarkedIsExpected, Dialog!Raised, Dialog!In, DialogRecords
<1>6. ExactWhenOver'
  <2>1. \A c : Dialog!In(c)' = Dialog!In(c)
    BY <1>2 DEF Dialog!In, Dialog!Raised
  <2> QED BY <1>2, <2>1 DEF DialogInv, ExactWhenOver
<1> QED BY <1>3, <1>4, <1>5, <1>6 DEF DialogInv

LEMMA DialogRaise == DialogConstants /\ DialogInv /\ Dialog!Raise => DialogInv'
<1> SUFFICES ASSUME DialogConstants, DialogInv, Dialog!Raise PROVE DialogInv'
  OBVIOUS
<1>1. PICK d \in Dialogs \ Dialog!Raised, type \in Types, cause \in 0 .. call :
        /\ dialog' = [dialog EXCEPT ![d] =
              [type |-> type, cause |-> cause, scope |-> IF scope = None THEN 0 ELSE call,
               expected |-> Dialog!IsExpected(type),
               response |-> IF Dialog!IsExpected(type) THEN scope.expect.response ELSE "dismiss", pc |-> "asked"]]
        /\ scope' = IF Dialog!IsExpected(type) THEN Dialog!Marked(scope) ELSE scope
  BY DEF Dialog!Raise
<1> DEFINE expects == Dialog!IsExpected(type)
           r == [type |-> type, cause |-> cause, scope |-> IF scope = None THEN 0 ELSE call,
                 expected |-> expects, response |-> IF expects THEN scope.expect.response ELSE "dismiss",
                 pc |-> "asked"]
<1>2. call' = call /\ settled' = settled /\ answers' = answers /\ call \in Nat
  BY DEF Dialog!Raise, DialogInv, DialogTyped
<1>3. /\ expects \in BOOLEAN
      /\ (expects => scope # None /\ scope.expect # None /\ scope.expect.type = type /\ ~scope.matched)
  BY DEF Dialog!IsExpected, Dialog!AnyOfType
<1>4. /\ r.type = type /\ r.expected = expects /\ r.pc = "asked" /\ r \in DialogRecords
      /\ r.scope = IF scope = None THEN 0 ELSE call
  BY <1>2, <1>3 DEF DialogRecords, DialogInv, DialogTyped, Scopes, Expected
<1>5. dialog' = [dialog EXCEPT ![d] = r]
  BY <1>1
<1> HIDE DEF r
<1>6. /\ dialog'[d] = r /\ dialog[d] = None /\ r # None
      /\ \A x \in Dialogs : x # d => dialog'[x] = dialog[x]
  BY <1>4, <1>5 DEF DialogInv, DialogTyped, Dialog!Raised, DialogConstants
<1>7. Dialog!Raised' = Dialog!Raised \cup {d} /\ d \notin Dialog!Raised
  BY <1>6 DEF Dialog!Raised
<1>8. /\ scope' = IF expects THEN [scope EXCEPT !.matched = TRUE] ELSE scope
      /\ scope # None => scope \in Scopes
  BY <1>1 DEF Dialog!Marked, DialogInv, DialogTyped
<1> HIDE DEF expects
<1>9. /\ (scope' = None) <=> (scope = None)
      /\ scope' \in Scopes \cup {None}
  BY <1>3, <1>8 DEF DialogInv, DialogTyped, Scopes, DialogConstants
<1>10. DialogTyped'
  <2>1. dialog' \in [Dialogs -> DialogRecords \cup {None}]
    BY <1>4, <1>5 DEF DialogInv, DialogTyped
  <2> QED BY <1>2, <1>7, <1>9, <2>1 DEF DialogInv, DialogTyped
<1>11. /\ expects => \A x \in Dialog!In(call) : ~dialog[x].expected
       /\ scope # None => scope'.expect = scope.expect /\ scope'.matched = (scope.matched \/ expects)
  BY <1>3, <1>8 DEF DialogInv, MarkedIsExpected, Scopes
<1>12. OneExpected'
  <2>1. \A x \in Dialog!Raised : dialog[x].scope = r.scope /\ dialog[x].expected => ~r.expected
    BY <1>2, <1>3, <1>4, <1>11 DEF Dialog!In, DialogInv, MarkedIsExpected
  <2> QED BY <1>6, <1>7, <2>1 DEF DialogInv, OneExpected, Dialog!Raised
<1>13. Dialog!In(call)' = (IF scope = None THEN Dialog!In(call) ELSE Dialog!In(call) \cup {d}) \/ call = 0
  BY <1>2, <1>4, <1>6, <1>7 DEF Dialog!In, Dialog!Raised
<1>14. MarkedIsExpected'
  <2>1. \A x \in Dialog!Raised' : dialog'[x].scope <= call' /\ (dialog'[x].scope = 0 => ~dialog'[x].expected)
    BY <1>2, <1>3, <1>4, <1>6, <1>7 DEF DialogInv, MarkedIsExpected, Dialog!Raised
  <2>2. ASSUME scope' # None
        PROVE  /\ call' >= 1
               /\ scope'.matched <=> \E x \in Dialog!In(call)' : dialog'[x].expected
               /\ \A x \in Dialog!In(call)' : dialog'[x].expected =>
                    scope'.expect # None /\ dialog'[x].type = scope'.expect.type
    <3>1. /\ scope # None /\ call >= 1 /\ (scope.matched <=> \E x \in Dialog!In(call) : dialog[x].expected)
          /\ \A x \in Dialog!In(call) : dialog[x].expected
               => scope.expect # None /\ dialog[x].type = scope.expect.type
      BY <2>2, <1>9 DEF DialogInv, MarkedIsExpected
    <3>2. Dialog!In(call)' = Dialog!In(call) \cup {d} /\ \A x \in Dialog!In(call) : dialog'[x] = dialog[x]
      BY <3>1, <1>2, <1>6, <1>7, <1>13 DEF Dialog!In, Dialog!Raised
    <3> QED BY <3>1, <3>2, <1>2, <1>3, <1>4, <1>6, <1>11
  <2> QED BY <2>1, <2>2 DEF MarkedIsExpected
<1>15. ExactWhenOver'
  <2>1. \A c \in Calls : answers[c] # None =>
          /\ Dialog!In(c)' = Dialog!In(c) /\ \A x \in Dialog!In(c) : dialog'[x] = dialog[x]
          /\ c \in 1 .. call /\ (scope # None => c # call)
    BY <1>2, <1>4, <1>6, <1>7 DEF Dialog!In, Dialog!Raised, DialogInv, ExactWhenOver
  <2> QED BY <2>1, <1>2, <1>9 DEF DialogInv, ExactWhenOver
<1> QED BY <1>10, <1>12, <1>14, <1>15 DEF DialogInv

\* An answer changes nothing of a dialog that the invariant is about.
LEMMA DialogRespond == DialogConstants /\ DialogInv /\ Dialog!Respond => DialogInv'
<1> SUFFICES ASSUME DialogConstants, DialogInv, Dialog!Respond PROVE DialogInv'
  OBVIOUS
<1>1. PICK d \in Dialog!Pending, failed \in BOOLEAN :
        dialog' = [dialog EXCEPT ![d].pc = "answered", ![d].response = IF failed THEN "response_failed" ELSE @]
  BY DEF Dialog!Respond
<1>2. scope' = scope /\ call' = call /\ settled' = settled /\ answers' = answers
  BY DEF Dialog!Respond
<1>3. dialog[d] \in DialogRecords /\ d \in Dialogs /\ d \in Dialog!Raised
  BY DEF Dialog!Pending, Dialog!Raised, DialogInv, DialogTyped
<1>4. /\ dialog'[d] \in DialogRecords /\ dialog'[d].type = dialog[d].type /\ dialog'[d].pc = "answered"
      /\ dialog'[d].scope = dialog[d].scope /\ dialog'[d].expected = dialog[d].expected
      /\ \A x \in Dialogs : x # d => dialog'[x] = dialog[x]
      /\ DOMAIN dialog' = Dialogs
  BY <1>1, <1>3 DEF DialogInv, DialogTyped, DialogRecords
<1>5. dialog' \in [Dialogs -> DialogRecords \cup {None}]
  BY <1>1, <1>3, <1>4 DEF DialogInv, DialogTyped
<1>6. /\ Dialog!Raised' = Dialog!Raised
      /\ \A x \in Dialog!Raised : /\ dialog'[x].type = dialog[x].type /\ dialog'[x].scope = dialog[x].scope
                                  /\ dialog'[x].expected = dialog[x].expected
  BY <1>3, <1>4 DEF Dialog!Raised, Dialog!Pending, DialogConstants
<1>7. \A c : Dialog!In(c)' = Dialog!In(c) /\ Dialog!In(c) \subseteq Dialog!Raised
  BY <1>6 DEF Dialog!In
<1>8. DialogTyped' /\ OneExpected'
  BY <1>2, <1>5, <1>6 DEF DialogInv, DialogTyped, OneExpected
<1>9. MarkedIsExpected'
  BY <1>2, <1>6, <1>7 DEF DialogInv, MarkedIsExpected
<1>10. ExactWhenOver'
  BY <1>2, <1>6, <1>7 DEF DialogInv, ExactWhenOver
<1> QED BY <1>8, <1>9, <1>10 DEF DialogInv

LEMMA DialogOperationEnds == DialogConstants /\ DialogInv /\ Dialog!OperationEnds => DialogInv'
<1> SUFFICES ASSUME DialogConstants, DialogInv, Dialog!OperationEnds PROVE DialogInv'
  OBVIOUS
<1>1. PICK failed \in BOOLEAN : scope' = [scope EXCEPT !.failed = failed]
  BY DEF Dialog!OperationEnds
<1>2. /\ scope # None /\ scope \in Scopes /\ settled' = Dialog!Pending /\ dialog' = dialog /\ call' = call
      /\ answers' = answers
  BY DEF Dialog!OperationEnds, DialogInv, DialogTyped
<1>3. scope' \in Scopes /\ scope'.expect = scope.expect /\ scope'.matched = scope.matched
  BY <1>1, <1>2 DEF Scopes
<1>4. DialogTyped'
  <2>1. Dialog!Raised' = Dialog!Raised /\ Dialog!Pending \subseteq Dialog!Raised
    BY <1>2 DEF Dialog!Raised, Dialog!Pending
  <2>2. scope' # None
    BY <1>3 DEF DialogConstants
  <2> QED BY <1>2, <1>3, <2>1, <2>2 DEF DialogInv, DialogTyped
<1>5. OneExpected' /\ MarkedIsExpected' /\ ExactWhenOver'
  BY <1>2, <1>3 DEF DialogInv, OneExpected, MarkedIsExpected, ExactWhenOver, Dialog!Raised, Dialog!Pending, Dialog!In
<1> QED BY <1>4, <1>5 DEF DialogInv

LEMMA DialogCloses == DialogConstants /\ DialogInv /\ Dialog!Closes => DialogInv'
<1> SUFFICES ASSUME DialogConstants, DialogInv, Dialog!Closes PROVE DialogInv'
  OBVIOUS
<1> DEFINE a == [ok |-> ~scope.failed /\ Dialog!Satisfied, expect |-> scope.expect, said |-> Dialog!Evidence(call)]
<1>1. /\ scope # None /\ scope' = None /\ settled' = None /\ dialog' = dialog /\ call' = call
      /\ answers' = [answers EXCEPT ![call] = a] /\ call \in Nat
  BY DEF Dialog!Closes, Dialog!Settled, DialogInv, DialogTyped
<1>2. a.ok => Dialog!Satisfied
  OBVIOUS
<1>3. a.expect = scope.expect
  OBVIOUS
<1> HIDE DEF a
<1>4. DialogTyped' /\ OneExpected' /\ MarkedIsExpected'
  BY <1>1 DEF DialogInv, DialogTyped, OneExpected, MarkedIsExpected, Dialog!Raised, Dialog!Pending
<1>5. \A c : Dialog!In(c)' = Dialog!In(c) /\ Dialog!In(c) \subseteq Dialog!Raised
  BY <1>1 DEF Dialog!In, Dialog!Raised
<1>6. a.ok => /\ \A d, e \in Dialog!In(call) : d = e
              /\ a.expect = None => Dialog!In(call) = {}
              /\ a.expect # None => Dialog!In(call) # {} /\ \A d \in Dialog!In(call) : dialog[d].type = a.expect.type
  <2> SUFFICES ASSUME a.ok
               PROVE /\ \A d, e \in Dialog!In(call) : d = e
                     /\ a.expect = None => Dialog!In(call) = {}
                     /\ a.expect # None
                          => Dialog!In(call) # {} /\ \A d \in Dialog!In(call) : dialog[d].type = a.expect.type
    OBVIOUS
  <2>1. /\ scope.expect # None => scope.matched
        /\ \A d \in Dialog!In(call) : dialog[d].expected
    BY <1>2 DEF Dialog!Satisfied, Dialog!Unexpected
  <2>2. \A d, e \in Dialog!In(call) : d = e
    BY <2>1 DEF DialogInv, OneExpected, Dialog!In
  <2> QED BY <2>1, <2>2, <1>1, <1>3 DEF DialogInv, MarkedIsExpected
<1>7. ExactWhenOver'
  <2> SUFFICES ASSUME NEW c \in Calls, answers'[c] # None
               PROVE  /\ c \in 1 .. call'
                      /\ answers'[c].ok =>
                            /\ \A d, e \in Dialog!In(c)' : d = e
                            /\ answers'[c].expect = None => Dialog!In(c)' = {}
                            /\ answers'[c].expect # None =>
                                  Dialog!In(c)' # {}
                                    /\ \A d \in Dialog!In(c)' : dialog'[d].type = answers'[c].expect.type
    BY <1>1 DEF ExactWhenOver
  <2>1. CASE c = call
    <3>1. answers'[c] = a /\ call >= 1
      BY <2>1, <1>1 DEF DialogInv, DialogTyped, MarkedIsExpected
    <3> QED BY <2>1, <3>1, <1>1, <1>5, <1>6
  <2>2. CASE c # call
    BY <2>2, <1>1, <1>5 DEF DialogInv, DialogTyped, ExactWhenOver
  <2> QED BY <2>1, <2>2
<1> QED BY <1>4, <1>7 DEF DialogInv

LEMMA DialogSafe == DialogInv => Dialog!TypeOK /\ Dialog!OneAccepted /\ Dialog!SuccessIsExact
<1> SUFFICES ASSUME DialogInv PROVE Dialog!TypeOK /\ Dialog!OneAccepted /\ Dialog!SuccessIsExact
  OBVIOUS
<1>1. \A S : (\A d, e \in S : d = e) => Dialog!Cardinality(S) <= 1
  <2> SUFFICES ASSUME NEW S, \A d, e \in S : d = e PROVE Dialog!Cardinality(S) <= 1
    OBVIOUS
  <2>1. CASE S = {}
    BY <2>1, FS_EmptySet, SameCount
  <2>2. CASE S # {}
    <3>1. PICK d : S = {d}
      BY <2>2
    <3> QED BY <3>1, FS_Singleton, SameCount
  <2> QED BY <2>1, <2>2
<1>2. Dialog!TypeOK
  BY DEF DialogInv, DialogTyped, MarkedIsExpected, Dialog!TypeOK
<1>3. Dialog!OneAccepted
  <2> SUFFICES ASSUME NEW c \in Calls PROVE Dialog!Cardinality({d \in Dialog!In(c) : dialog[d].expected}) <= 1
    BY DEF Dialog!OneAccepted
  <2>1. \A d, e \in {x \in Dialog!In(c) : dialog[x].expected} : d = e
    BY DEF DialogInv, OneExpected, Dialog!In
  <2> HIDE DEF DialogInv
  <2> QED BY <2>1, <1>1
<1>4. Dialog!SuccessIsExact
  <2> SUFFICES ASSUME NEW c \in Calls, answers[c] # None, answers[c].ok
               PROVE  /\ {dialog[d].type : d \in Dialog!In(c)} =
                             (IF answers[c].expect = None THEN {} ELSE {answers[c].expect.type})
                      /\ Dialog!Cardinality(Dialog!In(c)) <= 1
    BY DEF Dialog!SuccessIsExact
  <2>1. \A d, e \in Dialog!In(c) : d = e
    BY DEF DialogInv, ExactWhenOver
  <2>2. Dialog!Cardinality(Dialog!In(c)) <= 1
    BY <2>1, <1>1
  <2>3. /\ answers[c].expect = None => Dialog!In(c) = {}
        /\ answers[c].expect # None
             => Dialog!In(c) # {} /\ \A d \in Dialog!In(c) : dialog[d].type = answers[c].expect.type
    BY DEF DialogInv, ExactWhenOver
  <2> QED BY <2>2, <2>3
<1> QED BY <1>2, <1>3, <1>4

LEMMA DialogNext == DialogConstants /\ DialogInv /\ [Dialog!Next]_(Dialog!vars) => DialogInv'
<1>1. CASE UNCHANGED Dialog!vars
  BY <1>1 DEF Dialog!vars, DialogInv, DialogTyped, OneExpected, MarkedIsExpected, ExactWhenOver, Dialog!Raised,
     Dialog!Pending, Dialog!In
<1> QED BY <1>1, DialogBegin, DialogRaise, DialogRespond, DialogOperationEnds, DialogCloses DEF Dialog!Next

\* One dialog of a command at most gets the response that was asked for, and a
\* command that succeeds had this dialog and no other, or none when it expected
\* none (dialogs/manager.ts).
THEOREM DialogsGetTheirAnswer == ASSUME DialogConstants PROVE Spec => []AnswersOneDialog
<1> DEFINE Inv == part = "dialog" => DialogInv
<1>1. Init => Inv
  BY DialogInit, PartsBegin
<1>2. Inv /\ [Next]_vars => Inv'
  BY DialogNext, PartsGoOn
<1>3. Inv => AnswersOneDialog
  BY DialogSafe DEF AnswersOneDialog
<1> QED BY <1>1, <1>2, <1>3, PTL DEF Spec

-----------------------------------------------------------------------------
\* The handoff of a field (PrivateField).
\* The records of a command and of a handoff; None is none of them.
Observations == [filled : BOOLEAN, wrong : BOOLEAN]
FieldCommands ==
    [at : {"look"}, node : {0}] \cup [at : {"inspect", "before", "told"}, node : Field!Nodes]
    \cup [at : {"highlight"}, node : Field!Nodes, before : BOOLEAN]
    \cup [at : {"observe"}, node : Field!Nodes, observed : {None}]
    \cup [at : {"restore"}, node : Field!Nodes, observed : Observations \cup {None}]
    \cup [at : {"end"}, node : Field!Nodes, observed : Observations \cup {None}, before : BOOLEAN]
FieldHandoffs == [node : Field!Nodes, version : Nat, before : BOOLEAN]
FieldConstants ==
    /\ MaxVersion \in Nat /\ MaxNodes \in Nat \ {0} /\ MaxWorkers \in Nat
    /\ None \notin FieldCommands \cup FieldHandoffs

FieldPages == [open : BOOLEAN, version : Nat, field : 0 .. MaxNodes, made : 1 .. MaxNodes, filled : SUBSET Field!Nodes]

FieldTyped ==
    /\ page \in FieldPages
    /\ docOf \in [Field!Nodes -> Nat] /\ known \in Nat /\ worker \in Nat \ {0}
    /\ lined \in [Field!Nodes -> 0 .. worker]
\* The field is of the page's document, and an element not made yet is not highlighted.
PageIsSound ==
    /\ page.field <= page.made /\ known <= page.version
    /\ \A n \in Field!Nodes : docOf[n] <= page.version
    /\ \A n \in Field!Nodes : n > page.made => lined[n] = 0
\* What a handoff holds: an element of a document the controller knows of, and
\* the state before, from which only a write leads away.
HandoffIsSound == held # None =>
    /\ held \in FieldHandoffs /\ held.node <= page.made
    /\ held.version <= known /\ docOf[held.node] = held.version
    /\ (held.before <=> held.node \in page.filled) \/ held.node \in changed
\* No command but a resume runs during a handoff,
CommandIsSound == op # None =>
    /\ op \in FieldCommands /\ op.node <= page.made
    /\ op.at \in {"look", "inspect", "before", "highlight", "end"} => held = None
    /\ op.at \in {"inspect", "before", "highlight"} => docOf[op.node] <= known
    /\ op.at = "highlight" => (op.before <=> op.node \in page.filled) \/ op.node \in changed
    /\ op.at \in {"observe", "restore"} => held # None /\ op.node = held.node
    /\ op.at = "restore" /\ op.observed # None =>
          (op.observed.filled <=> held.before) \/ op.node \in changed
    /\ op.at = "end" /\ op.observed # None =>
          (op.observed.filled <=> op.before) \/ op.node \in changed
\* and what this worker highlighted, if it is still there, is the element of the handoff.
OutlineIsHeld == \A n \in Field!Nodes : lined[n] = worker /\ Field!Answers(n) => held # None /\ held.node = n

FieldInv ==
    FieldTyped /\ PageIsSound /\ HandoffIsSound /\ CommandIsSound /\ OutlineIsHeld /\ Field!CompletedIsAChange

\* Every command has its own fields.
LEMMA CommandFields ==
    ASSUME FieldConstants, op \in FieldCommands
    PROVE  /\ op.at \in {"look", "inspect", "before", "told", "highlight", "observe", "restore", "end"}
           /\ op.node \in Nat /\ (op.at # "look" => op.node \in Field!Nodes)
           /\ op.at \in {"highlight", "end"} => op.before \in BOOLEAN
           /\ op.at = "observe" => op.observed = None
           /\ op.at \in {"restore", "end"} => op.observed \in Observations \cup {None}
BY DEF FieldCommands, FieldConstants, Field!Nodes

LEMMA FieldInit == FieldConstants /\ Field!Init => FieldInv
<1> SUFFICES ASSUME FieldConstants, Field!Init PROVE FieldInv
  OBVIOUS
<1>1. /\ page \in [open : {TRUE}, version : {0}, field : {1}, made : {1}, filled : SUBSET {1}]
      /\ docOf = [n \in Field!Nodes |-> 0] /\ known = 0 /\ held = None /\ lined = [n \in Field!Nodes |-> 0]
      /\ op = None
      /\ worker = 1 /\ report = None
  BY DEF Field!Init
<1>2. page.version = 0 /\ page.field = 1 /\ page.made = 1 /\ 1 \in Field!Nodes
  BY <1>1 DEF FieldConstants, Field!Nodes
<1>3. page \in FieldPages
  <2>1. 1 \in 0 .. MaxNodes /\ 1 \in 1 .. MaxNodes /\ {1} \subseteq Field!Nodes /\ 0 \in Nat
    BY DEF FieldConstants, Field!Nodes
  <2> QED BY <1>1, <2>1 DEF FieldPages
<1>4. FieldTyped
  BY <1>1, <1>3 DEF FieldTyped, FieldPages
<1>5. PageIsSound
  BY <1>1, <1>2 DEF PageIsSound
<1>6. HandoffIsSound /\ CommandIsSound /\ OutlineIsHeld /\ Field!CompletedIsAChange
  BY <1>1 DEF HandoffIsSound, CommandIsSound, OutlineIsHeld, Field!CompletedIsAChange
<1> QED BY <1>4, <1>5, <1>6 DEF FieldInv

\* The page may change as long as the elements keep their documents,
\* and what is written into one is noted.
LEMMA FieldPage ==
    ASSUME FieldConstants, FieldInv, FieldTyped', PageIsSound',
           known' = known, held' = held, lined' = lined, op' = op, worker' = worker, report' = report,
           page.made <= page'.made, changed \subseteq changed',
           \A n \in Field!Nodes : n <= page.made =>
              /\ docOf'[n] = docOf[n]
              /\ (n \in page'.filled <=> n \in page.filled) \/ n \in changed'
              /\ page'.open /\ docOf'[n] = page'.version => page.open /\ docOf[n] = page.version
    PROVE  FieldInv'
<1>1. page.made \in Nat /\ page'.made \in Nat
  BY DEF FieldInv, FieldTyped, FieldPages, FieldConstants
<1>2. HandoffIsSound'
  BY <1>1 DEF FieldInv, HandoffIsSound, FieldHandoffs, Field!Nodes, FieldConstants
<1>3. CommandIsSound'
  <2>1. CASE op = None
    BY <2>1 DEF CommandIsSound
  <2>2. CASE op # None
    <3>1. op \in FieldCommands /\ op.node <= page.made /\ op.node \in Nat
      BY <2>2, CommandFields DEF FieldInv, CommandIsSound
    <3>2. op.at # "look" =>
            /\ op.node <= page'.made /\ docOf'[op.node] = docOf[op.node]
            /\ (op.node \in page'.filled <=> op.node \in page.filled) \/ op.node \in changed'
      BY <3>1, <1>1, CommandFields
    <3>3. op.node <= page'.made
      BY <3>1, <1>1
    <3>4. op.at \in {"inspect", "before", "highlight"} => docOf'[op.node] <= known'
      BY <2>2, <3>2 DEF FieldInv, CommandIsSound
    <3>5. op.at = "highlight" => (op.before <=> op.node \in page'.filled) \/ op.node \in changed'
      BY <2>2, <3>2 DEF FieldInv, CommandIsSound
    <3> QED BY <2>2, <3>1, <3>3, <3>4, <3>5 DEF FieldInv, CommandIsSound
  <2> QED BY <2>1, <2>2
<1>4. OutlineIsHeld'
  <2> SUFFICES ASSUME NEW n \in Field!Nodes, lined[n] = worker, Field!Answers(n)' PROVE held # None /\ held.node = n
    BY DEF OutlineIsHeld
  <2>1. lined[n] # 0
    BY DEF FieldInv, FieldTyped, FieldPages
  <2>2. ~(n > page.made) /\ n \in Nat
    BY <2>1 DEF FieldInv, PageIsSound, Field!Nodes, FieldConstants
  <2>3. n <= page.made
    BY <2>2, <1>1
  <2> QED BY <2>3 DEF FieldInv, OutlineIsHeld, Field!Answers
<1>5. Field!CompletedIsAChange'
  BY DEF FieldInv, Field!CompletedIsAChange
<1> QED BY <1>2, <1>3, <1>4, <1>5 DEF FieldInv

LEMMA FieldRenders == FieldConstants /\ FieldInv /\ Field!Renders => FieldInv'
<1> SUFFICES ASSUME FieldConstants, FieldInv, Field!Renders PROVE FieldInv'
  OBVIOUS
<1>1. /\ known' = known /\ held' = held /\ lined' = lined /\ op' = op /\ worker' = worker /\ report' = report
      /\ changed' = changed /\ page.open
  BY DEF Field!Renders, Field!Rest
<1>2. /\ page.version \in Nat /\ page.made \in 1 .. MaxNodes /\ docOf \in [Field!Nodes -> Nat] /\ MaxNodes \in Nat
      /\ \A n \in Field!Nodes : n > page.made => lined[n] = 0
      /\ page.filled \subseteq Field!Nodes
  BY DEF FieldInv, FieldTyped, FieldPages, PageIsSound, FieldConstants
<1>3. CASE page.field # 0 /\ page' = [page EXCEPT !.field = 0] /\ docOf' = docOf
  <2>1. /\ page'.made = page.made /\ page'.filled = page.filled /\ page'.open = page.open
        /\ page'.version = page.version /\ page'.field = 0
    BY <1>3 DEF FieldInv, FieldTyped, FieldPages
  <2>2. FieldTyped' /\ PageIsSound'
    BY <1>1, <1>3, <2>1 DEF FieldInv, FieldTyped, FieldPages, PageIsSound, FieldConstants
  <2> QED BY <1>1, <1>2, <1>3, <2>1, <2>2, FieldPage
<1>4. CASE /\ page.made < MaxNodes
           /\ \E with \in SUBSET {page.made + 1} :
                page' = [page EXCEPT !.field = page.made + 1, !.made = @ + 1, !.filled = @ \cup with]
           /\ docOf' = [docOf EXCEPT ![page.made + 1] = page.version]
  <2>1. PICK with \in SUBSET {page.made + 1} :
            page' = [page EXCEPT !.field = page.made + 1, !.made = @ + 1, !.filled = @ \cup with]
    BY <1>4
  <2>2. page.made + 1 \in Field!Nodes
    BY <1>2, <1>4 DEF Field!Nodes
  <2>3. /\ page'.made = page.made + 1 /\ page'.filled = page.filled \cup with /\ page'.open = page.open
        /\ page'.version = page.version /\ page'.field = page.made + 1
    BY <2>1 DEF FieldInv, FieldTyped, FieldPages
  <2>7. page' \in FieldPages
    <3>1. page.filled \cup with \subseteq Field!Nodes
      BY <2>2, <1>2, with \subseteq {page.made + 1}
    <3>2. page.made + 1 \in 0 .. MaxNodes /\ page.made + 1 \in 1 .. MaxNodes
      BY <1>2, <1>4
    <3> QED BY <2>1, <3>1, <3>2 DEF FieldInv, FieldTyped, FieldPages
  <2>8. \A n \in Field!Nodes : n <= page.made => (n \in page'.filled <=> n \in page.filled) /\ n # page.made + 1
    BY <2>3, <1>2 DEF Field!Nodes
  <2>4. \A n \in Field!Nodes : docOf'[n] = IF n = page.made + 1 THEN page.version ELSE docOf[n]
    BY <1>2, <1>4
  <2>5. FieldTyped'
    BY <1>1, <1>2, <1>4, <2>2, <2>7 DEF FieldInv, FieldTyped, FieldPages
  <2>6. PageIsSound'
    <3>1. known <= page.version /\ known \in Nat /\ \A n \in Field!Nodes : docOf[n] <= page.version
            /\ docOf[n] \in Nat
      BY DEF FieldInv, FieldTyped, FieldPages, PageIsSound
    <3>2. \A n \in Field!Nodes : docOf'[n] <= page'.version
      BY <3>1, <2>3, <2>4, <1>2
    <3>3. \A n \in Field!Nodes : n > page'.made => lined'[n] = 0
      BY <1>1, <1>2, <2>3 DEF Field!Nodes
    <3> QED BY <1>1, <1>2, <2>3, <3>1, <3>2, <3>3 DEF PageIsSound
  <2>9. page.made <= page'.made
    BY <1>2, <2>3
  <2> QED BY <1>1, <2>3, <2>4, <2>5, <2>6, <2>8, <2>9, FieldPage
<1> QED BY <1>3, <1>4 DEF Field!Renders

LEMMA FieldGoes == FieldConstants /\ FieldInv /\ (Field!Navigates \/ Field!Closes) => FieldInv'
<1> SUFFICES ASSUME FieldConstants, FieldInv, Field!Navigates \/ Field!Closes PROVE FieldInv'
  OBVIOUS
<1>1. /\ known' = known /\ held' = held /\ lined' = lined /\ op' = op /\ worker' = worker /\ report' = report
      /\ changed' = changed /\ page.open /\ docOf' = docOf
  BY DEF Field!Navigates, Field!Closes, Field!Rest
<1>2. /\ page'.made = page.made /\ page'.filled = page.filled /\ page'.field = 0
      /\ (page'.version = page.version /\ ~page'.open) \/ page'.version = page.version + 1
      /\ page' \in FieldPages
  <2>1. CASE Field!Navigates
    <3>1. page' = [page EXCEPT !.version = @ + 1, !.field = 0] /\ page.version + 1 \in Nat /\ 0 \in 0 .. MaxNodes
      BY <2>1 DEF Field!Navigates, FieldInv, FieldTyped, FieldPages, FieldConstants
    <3> QED BY <3>1 DEF FieldInv, FieldTyped, FieldPages
  <2>2. CASE Field!Closes
    <3>1. page' = [page EXCEPT !.open = FALSE, !.field = 0] /\ 0 \in 0 .. MaxNodes
      BY <2>2 DEF Field!Closes, FieldConstants
    <3> QED BY <3>1 DEF FieldInv, FieldTyped, FieldPages
  <2> QED BY <2>1, <2>2
<1>3. /\ page.version \in Nat /\ page.made \in Nat /\ docOf \in [Field!Nodes -> Nat] /\ known \in Nat
      /\ \A n \in Field!Nodes : docOf[n] <= page.version
  BY DEF FieldInv, FieldTyped, FieldPages, PageIsSound, FieldConstants
<1>4. FieldTyped' /\ PageIsSound'
  BY <1>1, <1>2, <1>3 DEF FieldInv, FieldTyped, FieldPages, PageIsSound
<1> QED BY <1>1, <1>2, <1>3, <1>4, FieldPage

LEMMA FieldWrites == FieldConstants /\ FieldInv /\ (Field!PageWrites \/ Field!PersonWrites) => FieldInv'
<1> SUFFICES ASSUME FieldConstants, FieldInv, Field!PageWrites \/ Field!PersonWrites PROVE FieldInv'
  OBVIOUS
<1>1. /\ known' = known /\ held' = held /\ lined' = lined /\ op' = op /\ worker' = worker /\ report' = report
      /\ docOf' = docOf /\ Field!Written
  BY DEF Field!PageWrites, Field!PersonWrites, Field!Rest
<1>2. /\ page.field # 0 /\ changed' = changed \cup {page.field}
      /\ page' = [page EXCEPT !.filled = IF page.field \in @ THEN @ \ {page.field} ELSE @ \cup {page.field}]
  BY <1>1 DEF Field!Written
<1>3. page.field \in Field!Nodes
  BY <1>2 DEF FieldInv, FieldTyped, FieldPages, FieldConstants, Field!Nodes
<1>4. /\ page'.made = page.made /\ page'.field = page.field /\ page'.version = page.version
      /\ page'.open = page.open
      /\ \A n \in Field!Nodes : n # page.field => (n \in page'.filled <=> n \in page.filled)
      /\ page' \in FieldPages
  BY <1>2, <1>3 DEF FieldInv, FieldTyped, FieldPages
<1>5. FieldTyped' /\ PageIsSound' /\ page.made \in Nat
  BY <1>1, <1>4 DEF FieldInv, FieldTyped, FieldPages, PageIsSound, FieldConstants
<1> QED BY <1>1, <1>2, <1>4, <1>5, FieldPage

\* A command's step that leaves the handoff alone.
LEMMA FieldStep ==
    ASSUME FieldConstants, FieldInv, UNCHANGED Field!World, held' = held, lined' = lined, CommandIsSound',
           changed' = changed \/ held = None, Field!CompletedIsAChange'
    PROVE  FieldInv'
BY DEF FieldInv, FieldTyped, FieldPages, PageIsSound, HandoffIsSound, OutlineIsHeld, Field!Answers, Field!World

LEMMA FieldNavigated == FieldConstants /\ FieldInv /\ Field!FrameNavigated => FieldInv'
<1> SUFFICES ASSUME FieldConstants, FieldInv, Field!FrameNavigated PROVE FieldInv'
  OBVIOUS
<1>1. /\ known < page.version /\ known' = known + 1 /\ known \in Nat /\ page.version \in Nat
      /\ docOf \in [Field!Nodes -> Nat]
      /\ UNCHANGED <<page, docOf, held, lined, op, worker, turn, typed, changed, report>>
  BY DEF Field!FrameNavigated, FieldInv, FieldTyped, FieldPages
<1>2. FieldTyped' /\ PageIsSound' /\ OutlineIsHeld' /\ Field!CompletedIsAChange'
  BY <1>1 DEF FieldInv, FieldTyped, FieldPages, PageIsSound, OutlineIsHeld, Field!Answers, Field!CompletedIsAChange
<1>3. HandoffIsSound'
  BY <1>1 DEF FieldInv, HandoffIsSound, FieldHandoffs
<1>4. CommandIsSound'
  <2>1. CASE op = None
    BY <1>1, <2>1 DEF CommandIsSound
  <2>2. CASE op # None
    BY <1>1, <2>2, CommandFields DEF FieldInv, CommandIsSound
  <2> QED BY <2>1, <2>2
<1> QED BY <1>2, <1>3, <1>4 DEF FieldInv

LEMMA FieldBegin == FieldConstants /\ FieldInv /\ (Field!Look \/ Field!Request \/ Field!Resume) => FieldInv'
<1> SUFFICES ASSUME FieldConstants, FieldInv, Field!Look \/ Field!Request \/ Field!Resume PROVE FieldInv'
  OBVIOUS
<1>1. UNCHANGED Field!World /\ held' = held /\ lined' = lined /\ changed' = changed /\ Field!CompletedIsAChange'
  BY DEF Field!Look, Field!Request, Field!Resume, Field!Begins, Field!CompletedIsAChange
<1>2. CASE Field!Look
  <2>1. op' = [at |-> "look", node |-> 0] /\ held = None
    BY <1>2 DEF Field!Look, Field!Begins, Field!Authorized
  <2>2. op' \in FieldCommands /\ op'.at = "look" /\ op'.node = 0
    BY <2>1 DEF FieldCommands
  <2>3. CommandIsSound'
    BY <1>1, <2>1, <2>2 DEF CommandIsSound, FieldInv, FieldTyped, FieldPages, Field!World
  <2> QED BY <1>1, <2>3, FieldStep
<1>3. CASE Field!Request
  <2>1. op' = [at |-> "inspect", node |-> page.field] /\ held = None /\ page.field # 0 /\ known = page.version
    BY <1>3 DEF Field!Request, Field!Begins, Field!Authorized
  <2>2. page.field \in Field!Nodes /\ page.field <= page.made /\ docOf[page.field] <= known
    BY <2>1 DEF FieldInv, FieldTyped, FieldPages, PageIsSound, Field!Nodes, FieldConstants
  <2>3. op' \in FieldCommands /\ op'.at = "inspect" /\ op'.node = page.field
    BY <2>1, <2>2 DEF FieldCommands
  <2>4. CommandIsSound'
    BY <1>1, <2>1, <2>2, <2>3 DEF CommandIsSound, Field!World
  <2> QED BY <1>1, <2>4, FieldStep
<1>4. CASE Field!Resume
  <2>1. /\ held # None
        /\ op' = [at |-> IF Field!SameDocument THEN "observe" ELSE "restore", node |-> held.node, observed |-> None]
    BY <1>4 DEF Field!Resume, Field!Begins
  <2>2. held.node \in Field!Nodes /\ held.node <= page.made
    BY <2>1 DEF FieldInv, HandoffIsSound, FieldHandoffs
  <2>3. op' \in FieldCommands /\ op'.at \in {"observe", "restore"} /\ op'.node = held.node /\ op'.observed = None
    BY <2>1, <2>2 DEF FieldCommands
  <2>4. CommandIsSound'
    BY <1>1, <2>1, <2>2, <2>3 DEF CommandIsSound, Field!World
  <2> QED BY <1>1, <2>4, FieldStep
<1> QED BY <1>2, <1>3, <1>4

LEMMA FieldEnds == FieldConstants /\ FieldInv /\ (Field!LookEnds \/ Field!Requested) => FieldInv'
<1> SUFFICES ASSUME FieldConstants, FieldInv, Field!LookEnds \/ Field!Requested PROVE FieldInv'
  OBVIOUS
<1>1. /\ page' = page /\ docOf' = docOf /\ known' = known /\ worker' = worker /\ held' = held
      /\ lined' = lined /\ changed' = changed /\ op' = None
  BY DEF Field!LookEnds, Field!Step, Field!Requested, Field!World
<1>2. Field!CompletedIsAChange'
  BY DEF Field!LookEnds, Field!Step, Field!Requested, FieldInv, Field!CompletedIsAChange
<1> QED
  BY <1>1, <1>2 DEF FieldInv, FieldTyped, FieldPages, PageIsSound, HandoffIsSound, CommandIsSound, OutlineIsHeld,
     Field!Answers

LEMMA FieldFails == FieldConstants /\ FieldInv /\ Field!Fails => FieldInv'
<1> SUFFICES ASSUME FieldConstants, FieldInv, Field!Fails PROVE FieldInv'
  OBVIOUS
<1>1. CommandIsSound' /\ Field!CompletedIsAChange'
  BY DEF Field!Fails, CommandIsSound, Field!CompletedIsAChange
<1> QED BY <1>1, FieldStep DEF Field!Fails

LEMMA FieldInspects == FieldConstants /\ FieldInv /\ (Field!InspectPrivateField \/ Field!Before) => FieldInv'
<1> SUFFICES ASSUME FieldConstants, FieldInv, Field!InspectPrivateField \/ Field!Before, ~Field!Fails PROVE FieldInv'
  BY FieldFails
<1>1. CASE Field!InspectPrivateField
  <2>1. op' = [op EXCEPT !.at = "before"] /\ op # None /\ op.at = "inspect" /\ Field!Step(op')
    BY <1>1 DEF Field!InspectPrivateField, Field!At, Field!Step
  <2>2. op \in FieldCommands /\ held = None /\ op.node <= page.made /\ docOf[op.node] <= known
    BY <2>1 DEF FieldInv, CommandIsSound
  <2>3. op' \in FieldCommands /\ op'.at = "before" /\ op'.node = op.node
    BY <2>1, <2>2 DEF FieldCommands
  <2>4. CommandIsSound'
    BY <2>1, <2>2, <2>3 DEF CommandIsSound, Field!Step, Field!World
  <2>5. Field!CompletedIsAChange'
    BY <2>1 DEF Field!Step, FieldInv, Field!CompletedIsAChange
  <2> QED BY <2>1, <2>4, <2>5, FieldStep DEF Field!Step
<1>2. CASE Field!Before
  <2>1. /\ op' = [at |-> "highlight", node |-> op.node, before |-> op.node \in page.filled] /\ changed' = {}
        /\ UNCHANGED <<Field!World, held, lined, turn, report>> /\ op # None /\ op.at = "before"
    BY <1>2 DEF Field!Before, Field!At
  <2>2. op \in FieldCommands /\ held = None /\ op.node <= page.made /\ docOf[op.node] <= known
    BY <2>1 DEF FieldInv, CommandIsSound
  <2>3. op.node \in Field!Nodes
    BY <2>1, <2>2, CommandFields
  <2>4. /\ op' \in FieldCommands /\ op'.at = "highlight" /\ op'.node = op.node
        /\ (op'.before <=> op.node \in page.filled)
    <3>1. op' \in [at : {"highlight"}, node : Field!Nodes, before : BOOLEAN]
      BY <2>1, <2>3
    <3> QED BY <2>1, <3>1 DEF FieldCommands
  <2>5. CommandIsSound'
    BY <2>1, <2>2, <2>4 DEF CommandIsSound, Field!World
  <2>6. Field!CompletedIsAChange'
    BY <2>1 DEF FieldInv, Field!CompletedIsAChange
  <2> QED BY <2>1, <2>2, <2>5, <2>6, FieldStep
<1> QED BY <1>1, <1>2

\* The handoff begins with the element of the current document highlighted.
LEMMA FieldHighlight == FieldConstants /\ FieldInv /\ Field!Highlight => FieldInv'
<1> SUFFICES ASSUME FieldConstants, FieldInv, Field!Highlight, ~Field!Fails PROVE FieldInv'
  BY FieldFails
<1>1. /\ Field!Answers(op.node) /\ lined' = [lined EXCEPT ![op.node] = worker]
      /\ held' = [node |-> op.node, version |-> known, before |-> op.before]
      /\ op' = [at |-> "told", node |-> op.node]
      /\ UNCHANGED <<Field!World, turn, changed, report>> /\ op # None /\ op.at = "highlight"
  BY DEF Field!Highlight, Field!At
<1>2. /\ op \in FieldCommands /\ held = None /\ op.node <= page.made /\ docOf[op.node] <= known
      /\ (op.before <=> op.node \in page.filled) \/ op.node \in changed
  BY <1>1 DEF FieldInv, CommandIsSound
<1>3. op.node \in Field!Nodes /\ op.before \in BOOLEAN
  BY <1>1, <1>2, CommandFields
<1>4. page' = page /\ docOf' = docOf /\ known' = known /\ worker' = worker /\ changed' = changed /\ report' = report
  BY <1>1 DEF Field!World
<1>5. docOf[op.node] = known /\ docOf[op.node] = page.version
  BY <1>1, <1>2, <1>3 DEF Field!Answers, FieldInv, FieldTyped, FieldPages, PageIsSound
<1>6. held' \in FieldHandoffs /\ held'.node = op.node /\ held'.version = known /\ held'.before = op.before
  BY <1>1, <1>3 DEF FieldHandoffs, FieldInv, FieldTyped, FieldPages
<1>7. op' \in FieldCommands /\ op'.at = "told" /\ op'.node = op.node
  BY <1>1, <1>3 DEF FieldCommands
<1>8. \A n \in Field!Nodes : lined'[n] = IF n = op.node THEN worker ELSE lined[n]
  BY <1>1 DEF FieldInv, FieldTyped, FieldPages
<1>9. FieldTyped'
  <2>1. worker \in 0 .. worker
    BY DEF FieldInv, FieldTyped, FieldPages
  <2> QED BY <1>1, <1>3, <1>4, <2>1 DEF FieldInv, FieldTyped, FieldPages
<1>10. PageIsSound'
  <2>1. ~(op.node > page.made)
    BY <1>2, <1>3 DEF FieldInv, FieldTyped, FieldPages, Field!Nodes, FieldConstants
  <2> QED BY <1>4, <1>8, <2>1 DEF FieldInv, PageIsSound
<1>11. HandoffIsSound'
  BY <1>2, <1>4, <1>5, <1>6, <1>3 DEF HandoffIsSound, FieldInv, FieldTyped, FieldPages
<1>12. CommandIsSound'
  BY <1>2, <1>4, <1>7 DEF CommandIsSound
<1>13. OutlineIsHeld'
  BY <1>2, <1>4, <1>6, <1>8 DEF OutlineIsHeld, Field!Answers, FieldInv, FieldConstants
<1> QED BY <1>4, <1>9, <1>11, <1>12, <1>13, <1>10 DEF FieldInv, Field!CompletedIsAChange

LEMMA FieldObserves == FieldConstants /\ FieldInv /\ Field!ObservePrivateFieldState => FieldInv'
<1> SUFFICES ASSUME FieldConstants, FieldInv, Field!ObservePrivateFieldState PROVE FieldInv'
  OBVIOUS
<1>1. op # None /\ op.at = "observe" /\ op \in FieldCommands /\ held # None /\ op.node = held.node
  BY DEF Field!ObservePrivateFieldState, Field!At, FieldInv, CommandIsSound
<1>2. /\ op.node \in Field!Nodes /\ op.observed = None /\ op.node <= page.made
      /\ (held.before <=> op.node \in page.filled) \/ op.node \in changed
  BY <1>1, CommandFields DEF FieldInv, CommandIsSound, HandoffIsSound
<1>3. ASSUME NEW s \in Observations \cup {None}, op' = [op EXCEPT !.at = "restore", !.observed = s], Field!Step(op'),
             s # None => (s.filled <=> op.node \in page.filled)
      PROVE  FieldInv'
  <2>1. op' \in FieldCommands /\ op'.at = "restore" /\ op'.node = op.node /\ op'.observed = s
    BY <1>1, <1>2, <1>3 DEF FieldCommands
  <2>2. CommandIsSound'
    BY <1>1, <1>2, <1>3, <2>1 DEF CommandIsSound, Field!Step, Field!World
  <2>3. Field!CompletedIsAChange'
    BY <1>3 DEF Field!Step, FieldInv, Field!CompletedIsAChange
  <2> QED BY <1>3, <2>2, <2>3, FieldStep DEF Field!Step
<1>4. CASE \E state \in Field!States(Field!Retained(op.node)) :
          Field!Step([op EXCEPT !.at = "restore", !.observed = state])
  <2>1. PICK state \in Field!States(Field!Retained(op.node)) :
          Field!Step([op EXCEPT !.at = "restore", !.observed = state])
    BY <1>4
  <2>2. state \in Observations /\ (state.filled <=> op.node \in page.filled)
    BY DEF Field!States, Field!Retained, Observations
  <2> QED BY <1>3, <2>1, <2>2 DEF Field!Step
<1>5. CASE Field!Step([op EXCEPT !.at = "restore"])
  <2>1. [op EXCEPT !.at = "restore"] = [op EXCEPT !.at = "restore", !.observed = None]
    BY <1>1, <1>2 DEF FieldCommands
  <2> QED BY <1>3, <1>5, <2>1 DEF Field!Step
<1>6. CASE /\ ~Field!Answers(op.node) /\ op' = None /\ held' = None /\ report' = [kind |-> "failed"]
           /\ UNCHANGED <<Field!World, lined, turn, changed>>
  <2>1. OutlineIsHeld'
    BY <1>1, <1>6 DEF OutlineIsHeld, Field!Answers, Field!World, FieldInv
  <2> QED
    BY <1>6, <2>1 DEF FieldInv, FieldTyped, FieldPages, PageIsSound, HandoffIsSound, CommandIsSound,
       Field!CompletedIsAChange, Field!World
<1> QED BY <1>4, <1>5, <1>6 DEF Field!ObservePrivateFieldState

LEMMA FieldRestore == FieldConstants /\ FieldInv /\ Field!Restore => FieldInv'
<1> SUFFICES ASSUME FieldConstants, FieldInv, Field!Restore PROVE FieldInv'
  OBVIOUS
<1>1. /\ op # None /\ op.at = "restore" /\ held' = None
      /\ op' = [at |-> "end", node |-> op.node, observed |-> op.observed, before |-> held.before]
      /\ lined' = IF Field!Answers(op.node) THEN [lined EXCEPT ![op.node] = 0] ELSE lined
      /\ UNCHANGED <<Field!World, turn, changed, report>>
  BY DEF Field!Restore, Field!At
<1>2. /\ op \in FieldCommands /\ held # None /\ op.node = held.node /\ op.node <= page.made
      /\ op.observed # None => (op.observed.filled <=> held.before) \/ op.node \in changed
  BY <1>1 DEF FieldInv, CommandIsSound
<1>3. op.node \in Field!Nodes /\ op.observed \in Observations \cup {None} /\ held.before \in BOOLEAN
  BY <1>1, <1>2, CommandFields DEF FieldInv, HandoffIsSound, FieldHandoffs
<1>4. /\ op' \in FieldCommands /\ op'.at = "end" /\ op'.node = op.node /\ op'.observed = op.observed
      /\ op'.before = held.before
  BY <1>1, <1>3 DEF FieldCommands
<1>5. page' = page /\ docOf' = docOf /\ known' = known /\ worker' = worker /\ changed' = changed /\ report' = report
  BY <1>1 DEF Field!World
<1>6. \A n \in Field!Nodes : lined'[n] = IF n = op.node /\ Field!Answers(n) THEN 0 ELSE lined[n]
  BY <1>1 DEF FieldInv, FieldTyped, FieldPages
<1>7. FieldTyped' /\ PageIsSound'
  BY <1>1, <1>3, <1>5, <1>6 DEF FieldInv, FieldTyped, FieldPages, PageIsSound
<1>8. CommandIsSound' /\ HandoffIsSound'
  BY <1>1, <1>2, <1>4, <1>5 DEF CommandIsSound, HandoffIsSound
<1>9. OutlineIsHeld'
  BY <1>2, <1>5, <1>6 DEF OutlineIsHeld, Field!Answers, FieldInv, FieldTyped, FieldPages
<1> QED BY <1>5, <1>7, <1>8, <1>9 DEF FieldInv, Field!CompletedIsAChange

LEMMA FieldResumed == FieldConstants /\ FieldInv /\ Field!Resumed => FieldInv'
<1> SUFFICES ASSUME FieldConstants, FieldInv, Field!Resumed PROVE FieldInv'
  OBVIOUS
<1>1. /\ op # None /\ op.at = "end" /\ op' = None
      /\ report' = [kind |-> "resumed", node |-> op.node, outcome |-> Field!Outcome(op.observed, op.before),
                    changed |-> changed, typed |-> typed \cap page.filled]
      /\ UNCHANGED <<page, docOf, known, worker, held, lined, turn>>
  BY DEF Field!Resumed, Field!At
<1>2. /\ op \in FieldCommands /\ held = None
      /\ op.observed # None => (op.observed.filled <=> op.before) \/ op.node \in changed
  BY <1>1 DEF FieldInv, CommandIsSound
<1>3. Field!Outcome(op.observed, op.before) = "completed" => op.node \in changed
  <2>1. Field!Outcome(op.observed, op.before) = "completed" => op.observed # None /\ op.observed.filled # op.before
    BY DEF Field!Outcome
  <2>2. op.observed # None => op.observed.filled \in BOOLEAN /\ op.before \in BOOLEAN
    BY <1>1, <1>2, CommandFields DEF Observations
  <2> QED BY <1>2, <2>1, <2>2
<1>4. Field!CompletedIsAChange'
  BY <1>1, <1>3 DEF Field!CompletedIsAChange
<1> QED
  BY <1>1, <1>2, <1>4 DEF FieldInv, FieldTyped, FieldPages, PageIsSound, HandoffIsSound, CommandIsSound,
     OutlineIsHeld, Field!Answers

LEMMA FieldReplaced == FieldConstants /\ FieldInv /\ Field!Replaced => FieldInv'
<1> SUFFICES ASSUME FieldConstants, FieldInv, Field!Replaced PROVE FieldInv'
  OBVIOUS
<1>1. /\ worker' = worker + 1 /\ held' = None /\ op' = None
      /\ UNCHANGED <<page, docOf, known, lined, turn, typed, changed, report>>
  BY DEF Field!Replaced
<1>2. worker \in Nat /\ \A n \in Field!Nodes : lined[n] \in 0 .. worker
  BY DEF FieldInv, FieldTyped, FieldPages
<1> QED
  BY <1>1, <1>2 DEF FieldInv, FieldTyped, FieldPages, PageIsSound, HandoffIsSound, CommandIsSound, OutlineIsHeld,
     Field!CompletedIsAChange

LEMMA FieldNext == FieldConstants /\ FieldInv /\ [Field!Next]_(Field!vars) => FieldInv'
<1>1. CASE UNCHANGED Field!vars
  BY <1>1 DEF Field!vars, FieldInv, FieldTyped, FieldPages, PageIsSound, HandoffIsSound, CommandIsSound,
     OutlineIsHeld,
     Field!Answers, Field!CompletedIsAChange
<1> QED
  BY <1>1, FieldRenders, FieldGoes, FieldWrites, FieldNavigated, FieldBegin, FieldEnds, FieldInspects,
     FieldHighlight, FieldObserves, FieldRestore, FieldResumed, FieldReplaced DEF Field!Next

LEMMA FieldSafe == FieldConstants /\ FieldInv => Field!TypeOK /\ Field!CompletedIsAChange /\ Field!OutlineGone
BY DEF FieldInv, FieldTyped, FieldPages, PageIsSound, HandoffIsSound, CommandIsSound, OutlineIsHeld, Field!TypeOK,
   Field!OutlineGone, Field!At

\* A field that the person is said to have completed is the element that was
\* highlighted, in its document, and it got or lost a value meanwhile; no element
\* stays highlighted when no handoff holds it (handoff/private-field.ts).
THEOREM FieldComesBack == ASSUME FieldConstants PROVE Spec => []FieldIsGivenBack
<1> DEFINE Inv == part = "field" => FieldInv
<1>1. Init => Inv
  BY FieldInit, PartsBegin
<1>2. Inv /\ [Next]_vars => Inv'
  BY FieldNext, PartsGoOn
<1>3. Inv => FieldIsGivenBack
  BY FieldSafe DEF FieldIsGivenBack
<1> QED BY <1>1, <1>2, <1>3, PTL DEF Spec
=============================================================================
