---------------------------- MODULE Snake_proofs ----------------------------
(***************************************************************************)
(* What holds of the two games for every field, snake and number of keys.  *)
(***************************************************************************)
EXTENDS Snake, FiniteSetTheorems, TLAPS

Label == {"idle", "start", "place", "clear", "loop", "shift", "turn", "check",
          "eat", "end", "done"}

Types ==
  /\ pc \in [Level -> Label]
  /\ heading \in [Level -> Direction \cup {"none"}]
  /\ reversed \in [Level -> BOOLEAN]
  /\ direction \in Direction
  /\ turns \in Nat

\* A second game that ran while main's was being played leaves game_over set:
\* it ends with the flag set, and only main's own set-up, which is over by
\* then, or a further game would clear it.
OverStays ==
  /\ pc["main"] \in {"start", "place", "clear"} => spoiled # "play"
  /\ pc["handler"] = "end" => gameOver
  /\ pc["handler"] = "idle" /\ spoiled = "play" => gameOver

\* Where the keys since main's last move can have brought the direction.
TurnsApart ==
  heading["main"] # "none" =>
    /\ turns = 0 => direction = heading["main"]
    /\ turns = 1 => direction # Opposite[heading["main"]]

IInv == Types /\ OverStays /\ TurnsApart /\ KeysGoToAGame

\* Every conjunct holds when the machine starts.
LEMMA InitIInv == Init => IInv
  BY DEF Init, IInv, Types, OverStays, TurnsApart, KeysGoToAGame, Level, Label,
         Direction

\* The opposite of a direction is another one, and back again.
LEMMA OppositeTwice ==
  \A d \in Direction : /\ Opposite[d] \in Direction
                       /\ Opposite[d] # d
                       /\ Opposite[Opposite[d]] = d
  BY DEF Direction, Opposite

\* A step of a game, whoever plays it, keeps the invariant.
LEMMA PlayKeepsIInv ==
  ASSUME IInv, NEW l \in Level, Play(l)
  PROVE  IInv'
<1> USE DEF IInv, Types, OverStays, TurnsApart, KeysGoToAGame, Level, Label,
            Runs, At, Go
<1>1. CASE Start(l)  BY <1>1 DEF Start, game, history
<1>2. CASE Place(l)  BY <1>2 DEF Place
<1>3. CASE Clear(l)  BY <1>3 DEF Clear, history
<1>4. CASE Loop(l)   BY <1>4 DEF Loop, game, history
<1>5. CASE Shift(l)  BY <1>5 DEF Shift, history
<1>6. CASE Move(l)
  <2>1. turns' \in Nat  BY <1>6 DEF Move
  <2>2. /\ reversed' \in [Level -> BOOLEAN]
        /\ heading' \in [Level -> Direction \cup {"none"}]
    BY <1>6 DEF Move
  <2>3. TurnsApart'
    <3>1. CASE l = "main"
      BY <1>6, <3>1, OppositeTwice DEF Move
    <3>2. CASE l = "handler"
      BY <1>6, <3>2 DEF Move
    <3> QED BY <3>1, <3>2
  <2>4. OverStays' /\ KeysGoToAGame' /\ pc' \in [Level -> Label]
    BY <1>6 DEF Move
  <2> QED BY <1>6, <2>1, <2>2, <2>3, <2>4 DEF Move
<1>7. CASE Check(l)  BY <1>7 DEF Check, history
<1>8. CASE Eat(l)    BY <1>8 DEF Eat, history
<1>9. CASE End(l)    BY <1>9 DEF End, history, ModeAfter, OverAfter
<1> QED BY <1>1, <1>2, <1>3, <1>4, <1>5, <1>6, <1>7, <1>8, <1>9 DEF Play

\* A key keeps the invariant.
LEMMA KeyKeepsIInv ==
  ASSUME IInv, Key
  PROVE  IInv'
<1> USE DEF IInv, Types, OverStays, TurnsApart, KeysGoToAGame, Level, Label, Go
<1>1. ASSUME NEW d \in Direction, Turn(d)
      PROVE  IInv'
  <2>1. direction' \in Direction /\ turns' \in Nat
    BY <1>1 DEF Turn
  <2>2. TurnsApart'
    <3>1. CASE direction' = direction
      BY <1>1, <3>1 DEF Turn
    <3>2. CASE direction' # direction
      <4>1. direction' = d /\ direction # Opposite[d] /\ turns' = turns + 1
        BY <1>1, <3>2 DEF Turn, Allowed
      <4>2. ASSUME turns = 0, heading["main"] # "none"
            PROVE  direction' # Opposite[heading["main"]]
        BY <4>1, <4>2, <1>1, OppositeTwice
      <4> QED BY <1>1, <4>1, <4>2 DEF Turn
    <3> QED BY <3>1, <3>2
  <2> QED BY <1>1, <2>1, <2>2 DEF Turn
<1>2. CASE Quit     BY <1>2 DEF Quit, history, ModeAfter, OverAfter
<1>3. CASE Command /\ pc["handler"] = "idle"
  BY <1>3 DEF Command, game
<1> QED BY <1>1, <1>2, <1>3 DEF Key

\* IInv holds in every reachable state.
THEOREM SnakeInvariant == Spec => []IInv
<1>1. IInv /\ [Next]_vars => IInv'
  <2> SUFFICES ASSUME IInv, [Next]_vars PROVE IInv'
    OBVIOUS
  <2>1. CASE Key  BY <2>1, KeyKeepsIInv
  <2>2. ASSUME NEW l \in Level, Play(l) PROVE IInv'  BY <2>2, PlayKeepsIInv
  <2>3. CASE UNCHANGED vars
    BY <2>3 DEF IInv, Types, OverStays, TurnsApart, KeysGoToAGame, vars, game,
                history
  <2> QED BY <2>1, <2>2, <2>3 DEF Next
<1> QED BY InitIInv, <1>1, PTL DEF Spec

\* The keyboard handler hands keys to update_direction only while main or the
\* handler is inside start_snake_game.
THEOREM KeysNeedAGame == Spec => []KeysGoToAGame
<1>1. IInv => KeysGoToAGame  BY DEF IInv
<1> QED BY <1>1, SnakeInvariant, PTL

\* main never moves a snake on after a game in the handler has taken the
\* variables over: SecondGameEndsFirst.
THEOREM SecondGameEnds == Spec => SecondGameEndsFirst
<1>1. ASSUME IInv, Next, pc["main"] = "loop", pc'["main"] = "shift"
      PROVE  spoiled # "play"
  <2> USE DEF IInv, Types, OverStays, Level, Label, Runs, At, Go
  <2>1. ~Key
    BY <1>1 DEF Key, Turn, Quit, Command
  <2>2. PICK l \in Level : Play(l)
    BY <1>1, <2>1 DEF Next
  <2>3. Loop("main")
    BY <1>1, <2>2 DEF Play, Start, Place, Clear, Loop, Shift, Move, Check, Eat, End
  <2>4. pc["handler"] = "idle" /\ ~gameOver
    BY <1>1, <2>3 DEF Loop
  <2> QED BY <1>1, <2>4
<1>2. IInv /\ [Next]_vars =>
        [pc["main"] = "loop" /\ pc'["main"] = "shift" => spoiled # "play"]_vars
  BY <1>1
<1> QED BY <1>2, SnakeInvariant, PTL DEF Spec, SecondGameEndsFirst

\* update_direction keeps one key from turning the snake back on itself, on
\* any field: ReversalNeedsTwoKeys.
THEOREM ReversalNeedsTwo == Spec => ReversalNeedsTwoKeys
<1> DEFINE Back == pc["main"] = "turn" /\ pc'["main"] = "check"
                     /\ heading["main"] # "none" /\ reversed'["main"]
<1>1. ASSUME IInv, Next, Back
      PROVE  turns >= 2
  <2> USE DEF IInv, Types, Level, Label, Runs, At, Go
  <2>1. ~Key
    BY <1>1 DEF Key, Turn, Quit, Command
  <2>2. PICK l \in Level : Play(l)
    BY <1>1, <2>1 DEF Next
  <2>3. Move("main")
    BY <1>1, <2>2 DEF Play, Start, Place, Clear, Loop, Shift, Move, Check, Eat, End
  <2>4. direction = Opposite[heading["main"]]
    BY <1>1, <2>3 DEF Move
  <2>5. heading["main"] \in Direction
    BY <1>1
  <2>6. turns # 0 /\ turns # 1
    BY <1>1, <2>4, <2>5, OppositeTwice DEF TurnsApart
  <2> QED BY <2>6, <1>1
<1>2. IInv /\ [Next]_vars => [Back => turns >= 2]_vars
  BY <1>1
<1> QED BY <1>2, SnakeInvariant, PTL DEF Spec, ReversalNeedsTwoKeys

-----------------------------------------------------------------------------
(***************************************************************************)
(* Where the head can be, and how long the snake.                          *)
(***************************************************************************)
Cell == Int \X Int

\* Main's snake is laid out on the field whatever games went before: every
\* length the apples allow, but for the cell added last, fits to the left of
\* the start (GAME_WIDTH / 2 - i >= 0; with 80 columns, up to 18 apples).
Room == StartLength + MaxApples <= (Width \div 2) + 2

\* The snake's ground: the field, if there is that room.
OnGround(c) == Room => c \in Field

StepTo(d, p) ==
  CASE d = "up"    -> <<p[1], p[2] - 1>>
    [] d = "down"  -> <<p[1], p[2] + 1>>
    [] d = "left"  -> <<p[1] - 1, p[2]>>
    [] d = "right" -> <<p[1] + 1, p[2]>>

CellTypes ==
  /\ snake \in [Index -> Cell]
  /\ index \in [Level -> Index]
  /\ apples \in 0 .. MaxApples
  /\ length \in StartLength .. StartLength + apples

\* The head is at most n cells off the field.
Near(n) ==
  /\ snake[0][1] >= -n /\ snake[0][1] <= Width - 1 + n
  /\ snake[0][2] >= -n /\ snake[0][2] <= Height - 1 + n

\* A head leaves the field once per game; a second game, or the flag main
\* clears, lets it go on for one more cell.
HeadNear ==
  /\ Near(2)
  /\ pc["handler"] \in {"clear", "shift", "turn"} => Near(0)
  /\ pc["handler"] \in {"loop", "eat"} => gameOver \/ Near(0)
  /\ pc["handler"] \in {"loop", "check", "eat", "end"} => Near(1)
  /\ pc["handler"] = "idle" /\ pc["main"] \in {"clear", "shift", "turn"} =>
       Near(1)
  /\ pc["handler"] = "idle" /\ pc["main"] \in {"loop", "eat"} =>
       gameOver \/ Near(1)

\* Every cell the snake grew was an apple, and the apple on the field is one
\* it has not grown by yet.
Fed ==
  apple # Nowhere =>
    \/ pc["main"] \in {"start", "place"} /\ pc["handler"] \in {"idle", "start", "place"}
    \/ length < StartLength + apples

Playing == {"clear", "loop", "shift", "turn", "check", "eat"}

\* A game of main's that nobody spoiled runs alone.
Alone == spoiled = "no" /\ pc["main"] \in Playing => pc["handler"] = "idle"

HeadInv == CellTypes /\ HeadNear /\ Fed /\ Alone

LEMMA IndexHolds ==
  /\ Index \subseteq Nat /\ 0 \in Index /\ 1 \in Index
  /\ Width \in Nat /\ Width > 0 /\ Height \in Nat /\ Height > 0
  /\ StartLength \in Nat /\ StartLength >= 2 /\ MaxApples \in Nat
  BY SnakeAssumption DEF Index

\* A step leads from a cell to the next one in that direction.
LEMMA StepMoves ==
  ASSUME NEW p \in Cell, NEW d \in Direction
  PROVE  /\ StepTo(d, p) \in Cell
         /\ StepTo(d, p) # p
         /\ Adjacent(StepTo(d, p), p)
         /\ StepTo(d, p)[1] >= p[1] - 1 /\ StepTo(d, p)[1] <= p[1] + 1
         /\ StepTo(d, p)[2] >= p[2] - 1 /\ StepTo(d, p)[2] <= p[2] + 1
<1>1. p = <<p[1], p[2]>> /\ p[1] \in Int /\ p[2] \in Int
  BY DEF Cell
<1>2. CASE d = "up"    BY <1>1, <1>2 DEF StepTo, Cell, Adjacent
<1>3. CASE d = "down"  BY <1>1, <1>3 DEF StepTo, Cell, Adjacent
<1>4. CASE d = "left"  BY <1>1, <1>4 DEF StepTo, Cell, Adjacent
<1>5. CASE d = "right" BY <1>1, <1>5 DEF StepTo, Cell, Adjacent
<1> QED BY <1>2, <1>3, <1>4, <1>5 DEF Direction

LEMMA StepIsStepTo == \A p : Step(p) = StepTo(direction, p)
  BY DEF Step, StepTo

\* On the field and zero cells off it are the same.
LEMMA NearIsField ==
  ASSUME CellTypes
  PROVE  /\ snake[0] \in Cell /\ snake[0][1] \in Int /\ snake[0][2] \in Int
         /\ Near(0) <=> snake[0] \in Field
         /\ Near(0) => Near(1)
         /\ Near(1) => Near(2)
         /\ Near(2) => snake[0] # Nowhere
<1>1. snake[0] \in Cell /\ snake[0] = <<snake[0][1], snake[0][2]>>
      /\ snake[0][1] \in Int /\ snake[0][2] \in Int
  BY IndexHolds DEF CellTypes, Cell
<1>2. Near(0) <=> snake[0] \in Field
  <2> DEFINE x == snake[0][1]
             y == snake[0][2]
  <2>1. <<x, y>> \in Field <=> x \in 0 .. Width - 1 /\ y \in 0 .. Height - 1
    BY DEF Field
  <2>2. Near(0) <=> x \in 0 .. Width - 1 /\ y \in 0 .. Height - 1
    BY <1>1, IndexHolds DEF Near
  <2> QED BY <2>1, <2>2, <1>1
<1>3. /\ Near(0) => Near(1)
      /\ Near(1) => Near(2)
  BY <1>1, IndexHolds DEF Near
<1>4. Near(2) => snake[0] # Nowhere
  BY <1>1 DEF Near, Nowhere
<1> QED BY <1>1, <1>2, <1>3, <1>4

LEMMA InitHeadInv == Init => HeadInv
<1> SUFFICES ASSUME Init PROVE HeadInv
  OBVIOUS
<1>1. CellTypes
  BY IndexHolds DEF Init, CellTypes, Cell, Index
<1>2. snake[0] = <<0, 0>> /\ snake[0][1] = 0 /\ snake[0][2] = 0
  BY IndexHolds DEF Init
<1>3. Near(2)
  BY <1>2, IndexHolds DEF Near
<1> QED BY <1>1, <1>3 DEF Init, HeadInv, HeadNear, Fed, Alone, Playing

\* What a new apple is.
LEMMA AppleCounts ==
  ASSUME CellTypes, NewApple
  PROVE  /\ apples' \in 0 .. MaxApples /\ apples' >= apples
         /\ apple' # Nowhere => apples' = apples + 1
  BY IndexHolds DEF CellTypes, NewApple, Nowhere

\* The range the length may have only grows.
LEMMA RangeGrows ==
  ASSUME NEW s \in Nat, NEW m \in Nat, NEW a \in 0 .. m, NEW b \in 0 .. m,
         b >= a, NEW n \in s .. s + a
  PROVE  /\ n \in s .. s + b
         /\ n < s + a => n + 1 \in s .. s + b
  OBVIOUS

\* Every step of a game keeps the types of the cells.
LEMMA PlayKeepsCellTypes ==
  ASSUME IInv, HeadInv, NEW l \in Level, Play(l)
  PROVE  CellTypes'
<1> USE IndexHolds DEF HeadInv, CellTypes, At, Go
<1>1. CASE Start(l)  BY <1>1 DEF Start, game
<1>2. CASE Place(l)
  <2>1. \A i \in Index : <<(Width \div 2) - i, Height \div 2>> \in Cell
    BY DEF Cell
  <2>2. snake' \in [Index -> Cell]
    BY <1>2, <2>1 DEF Place
  <2>3. apples' \in 0 .. MaxApples /\ apples' >= apples
    BY <1>2, AppleCounts DEF Place
  <2>4. UNCHANGED <<index, length>>
    BY <1>2 DEF Place
  <2>5. length' \in StartLength .. StartLength + apples'
    BY <2>3, <2>4, RangeGrows
  <2>6. index' \in [Level -> Index]
    BY <2>4
  <2> QED BY <2>2, <2>3, <2>5, <2>6
<1>3. CASE Clear(l)  BY <1>3 DEF Clear
<1>4. CASE Loop(l)
  <2>1. length - 1 \in Index
    BY DEF Index
  <2>2. index' \in [Level -> Index]
    BY <1>4, <2>1 DEF Loop, LastIndex
  <2> QED BY <1>4, <2>2 DEF Loop, game
<1>5. CASE Shift(l)
  <2>1. CASE index[l] > 0
    <3>1. index[l] \in Index /\ index[l] - 1 \in Index
      BY <2>1 DEF Index
    <3> QED BY <1>5, <2>1, <3>1 DEF Shift
  <2>2. CASE ~(index[l] > 0)
    BY <1>5, <2>2 DEF Shift
  <2> QED BY <2>1, <2>2
<1>6. CASE Move(l)
  <2>1. snake[0] \in Cell /\ direction \in Direction
    BY DEF IInv, Types
  <2>2. Step(snake[0]) \in Cell
    BY <2>1, StepMoves, StepIsStepTo
  <2> QED BY <1>6, <2>2 DEF Move
<1>7. CASE Check(l)  BY <1>7 DEF Check
<1>8. CASE Eat(l)
  <2>1. CASE snake[0] = apple
    <3>1. apple # Nowhere
      BY <2>1, NearIsField DEF HeadNear
    <3>2. length < StartLength + apples
      BY <1>8, <3>1 DEF Eat, Fed, Runs, Level
    <3>3. apples' \in 0 .. MaxApples /\ apples' >= apples /\ length' = length + 1
      BY <1>8, <2>1, AppleCounts DEF Eat
    <3>4. UNCHANGED <<index, snake>>
      BY <1>8 DEF Eat
    <3>5. length' \in StartLength .. StartLength + apples'
      BY <3>2, <3>3, RangeGrows
    <3>6. index' \in [Level -> Index] /\ snake' \in [Index -> Cell]
      BY <3>4
    <3> QED BY <3>3, <3>5, <3>6
  <2>2. CASE snake[0] # apple
    BY <1>8, <2>2 DEF Eat
  <2> QED BY <2>1, <2>2
<1>9. CASE End(l)    BY <1>9 DEF End
<1> QED BY <1>1, <1>2, <1>3, <1>4, <1>5, <1>6, <1>7, <1>8, <1>9 DEF Play

\* The head is moved by nothing but the layout and its own move.
LEMMA HeadStays ==
  ASSUME CellTypes, NEW l \in Level, Play(l), ~Place(l), ~Move(l)
  PROVE  snake'[0] = snake[0]
<1> USE DEF At, Go
<1>1. CASE Shift(l)
  <2>1. CASE index[l] > 0
    <3>1. snake' = [snake EXCEPT ![index[l]] = snake[index[l] - 1]]
      BY <1>1, <2>1 DEF Shift
    <3>2. index[l] # 0
      BY <2>1
    <3> QED BY <3>1, <3>2, IndexHolds DEF CellTypes
  <2>2. CASE ~(index[l] > 0)
    BY <1>1, <2>2 DEF Shift
  <2> QED BY <2>1, <2>2
<1>2. CASE Start(l)  BY <1>2 DEF Start, game
<1>3. CASE Clear(l)  BY <1>3 DEF Clear
<1>4. CASE Loop(l)   BY <1>4 DEF Loop, game
<1>5. CASE Check(l)  BY <1>5 DEF Check
<1>6. CASE Eat(l)    BY <1>6 DEF Eat
<1>7. CASE End(l)    BY <1>7 DEF End
<1> QED BY <1>1, <1>2, <1>3, <1>4, <1>5, <1>6, <1>7 DEF Play

\* Where the head is after a step of a game.
LEMMA PlayKeepsHeadNear ==
  ASSUME IInv, HeadInv, NEW l \in Level, Play(l)
  PROVE  HeadNear'
<1> USE DEF Runs, At, Go, Level
<1>a. CellTypes /\ HeadNear /\ pc \in [Level -> Label]
  BY DEF HeadInv, IInv, Types
<1>b. /\ Near(0) <=> snake[0] \in Field
      /\ Near(0) => Near(1)
      /\ Near(1) => Near(2)
  BY <1>a, NearIsField
<1>c. /\ pc["handler"] = "end" => gameOver
      /\ l = "main" => pc["handler"] = "idle"
      /\ pc["handler"] \in {"idle", "start"} \/ pc["handler"] \notin {"idle", "start"}
  BY DEF IInv, OverStays, Play, Start, Place, Clear, Loop, Shift, Move, Check, Eat, End
<1>d. ASSUME snake'[0] = snake[0]
      PROVE  \A n \in 0 .. 2 : Near(n)' <=> Near(n)
  BY <1>d DEF Near
<1>1. CASE Start(l)
  <2>1. \A n \in 0 .. 2 : Near(n)' <=> Near(n)
    BY <1>1, <1>d DEF Start, game
  <2> QED BY <1>1, <2>1, <1>a, <1>b DEF HeadNear, Start
<1>2. CASE Place(l)
  <2>1. snake'[0] = <<Width \div 2, Height \div 2>>
    BY <1>2, IndexHolds, <1>a DEF Place, CellTypes
  <2>2. \A n \in 0 .. 2 : Near(n)'
    BY <2>1, IndexHolds DEF Near
  <2> HIDE DEF Level
  <2> QED BY <2>2 DEF HeadNear
<1>3. CASE Clear(l)
  <2>1. \A n \in 0 .. 2 : Near(n)' <=> Near(n)
    BY <1>3, <1>d DEF Clear
  <2> QED BY <1>3, <2>1, <1>a, <1>b, <1>c DEF HeadNear, Clear
<1>4. CASE Loop(l)
  <2>1. \A n \in 0 .. 2 : Near(n)' <=> Near(n)
    BY <1>4, <1>d DEF Loop, game
  <2> QED BY <1>4, <2>1, <1>a, <1>b, <1>c DEF HeadNear, Loop, game
<1>5. CASE Shift(l)
  <2>1. snake'[0] = snake[0]
    BY <1>5, <1>a, HeadStays DEF Shift, Place, Move, Play
  <2>2. \A n \in 0 .. 2 : Near(n)' <=> Near(n)
    BY <2>1, <1>d
  <2> QED BY <1>5, <2>2, <1>a, <1>b, <1>c DEF HeadNear, Shift
<1>6. CASE Move(l)
  <2>1. snake[0] \in Cell /\ direction \in Direction
    BY <1>a, NearIsField DEF IInv, Types
  <2>2. snake'[0] = StepTo(direction, snake[0])
    BY <1>6, <1>a, IndexHolds, StepIsStepTo DEF Move, CellTypes
  <2>3. /\ snake'[0][1] >= snake[0][1] - 1 /\ snake'[0][1] <= snake[0][1] + 1
        /\ snake'[0][2] >= snake[0][2] - 1 /\ snake'[0][2] <= snake[0][2] + 1
        /\ snake'[0][1] \in Int /\ snake'[0][2] \in Int
    BY <2>1, <2>2, StepMoves DEF Cell
  <2>4. /\ Near(0) => Near(1)'
        /\ Near(1) => Near(2)'
    BY <2>3, <2>1, <1>a, NearIsField, IndexHolds DEF Near
  <2>5. CASE l = "handler"
    BY <1>6, <2>5, <2>4, <1>a, <1>b DEF HeadNear, Move
  <2>6. CASE l = "main"
    BY <1>6, <2>6, <2>4, <1>a, <1>b DEF HeadNear, Move
  <2> QED BY <2>5, <2>6
<1>7. CASE Check(l)
  <2>1. \A n \in 0 .. 2 : Near(n)' <=> Near(n)
    BY <1>7, <1>d DEF Check
  <2>2. gameOver' \/ snake[0] \in Field
    BY <1>7 DEF Check, HitsWall
  <2> QED BY <1>7, <2>1, <2>2, <1>a, <1>b, <1>c DEF HeadNear, Check
<1>8. CASE Eat(l)
  <2>1. \A n \in 0 .. 2 : Near(n)' <=> Near(n)
    BY <1>8, <1>d DEF Eat
  <2> QED BY <1>8, <2>1, <1>a, <1>b, <1>c DEF HeadNear, Eat
<1>9. CASE End(l)
  <2>1. \A n \in 0 .. 2 : Near(n)' <=> Near(n)
    BY <1>9, <1>d DEF End
  <2> QED BY <1>9, <2>1, <1>a, <1>b, <1>c DEF HeadNear, End, OverAfter
<1> QED BY <1>1, <1>2, <1>3, <1>4, <1>5, <1>6, <1>7, <1>8, <1>9 DEF Play

LEMMA PlayKeepsFed ==
  ASSUME IInv, HeadInv, NEW l \in Level, Play(l)
  PROVE  Fed'
<1> USE IndexHolds DEF HeadInv, Fed, CellTypes, Runs, At, Go, Level, IInv, Types
<1>1. CASE Start(l)  BY <1>1 DEF Start, game
<1>2. CASE Place(l)
  <2>1. apple' # Nowhere => apples' = apples + 1
    BY <1>2, AppleCounts DEF Place
  <2>2. length' = length
    BY <1>2 DEF Place
  <2> QED BY <2>1, <2>2
<1>3. CASE Clear(l)  BY <1>3 DEF Clear
<1>4. CASE Loop(l)   BY <1>4 DEF Loop, game
<1>5. CASE Shift(l)  BY <1>5 DEF Shift
<1>6. CASE Move(l)   BY <1>6 DEF Move
<1>7. CASE Check(l)  BY <1>7 DEF Check
<1>8. CASE Eat(l)
  <2>1. CASE snake[0] = apple
    <3>1. apple # Nowhere
      BY <2>1, NearIsField DEF HeadNear
    <3>2. length < StartLength + apples
      BY <1>8, <3>1 DEF Eat
    <3>3. length' = length + 1 /\ (apple' # Nowhere => apples' = apples + 1)
      BY <1>8, <2>1, AppleCounts DEF Eat
    <3> QED BY <3>2, <3>3
  <2>2. CASE snake[0] # apple
    BY <1>8, <2>2 DEF Eat
  <2> QED BY <2>1, <2>2
<1>9. CASE End(l)
  <2>1. UNCHANGED <<apple, apples, length>>
    BY <1>9 DEF End
  <2>2. length < StartLength + apples \/ apple = Nowhere
    BY <1>9 DEF End
  <2> QED BY <2>1, <2>2
<1> QED BY <1>1, <1>2, <1>3, <1>4, <1>5, <1>6, <1>7, <1>8, <1>9 DEF Play

LEMMA PlayKeepsAlone ==
  ASSUME IInv, HeadInv, NEW l \in Level, Play(l)
  PROVE  Alone'
<1> USE DEF HeadInv, Alone, Runs, At, Go, Level, IInv, Types, Playing
<1>1. CASE Start(l)  BY <1>1 DEF Start, history
<1>2. CASE Place(l)  BY <1>2 DEF Place
<1>3. CASE Clear(l)  BY <1>3 DEF Clear, history
<1>4. CASE Loop(l)   BY <1>4 DEF Loop, history
<1>5. CASE Shift(l)  BY <1>5 DEF Shift, history
<1>6. CASE Move(l)   BY <1>6 DEF Move
<1>7. CASE Check(l)  BY <1>7 DEF Check, history
<1>8. CASE Eat(l)    BY <1>8 DEF Eat, history
<1>9. CASE End(l)    BY <1>9 DEF End, history
<1> QED BY <1>1, <1>2, <1>3, <1>4, <1>5, <1>6, <1>7, <1>8, <1>9 DEF Play

\* A key moves no cell.
LEMMA KeyLeavesCells ==
  ASSUME Key
  PROVE  /\ UNCHANGED <<snake, length, apple, gameOver, index, apples, heading, reversed>>
         /\ (pc' = pc /\ spoiled' = spoiled) \/ Command
  BY DEF Key, Turn, Quit, Command, OverAfter, game, history

LEMMA KeyKeepsHeadInv ==
  ASSUME IInv, HeadInv, Key
  PROVE  HeadInv'
<1>1. CellTypes' /\ (\A n \in 0 .. 2 : Near(n)' <=> Near(n))
  BY KeyLeavesCells DEF HeadInv, CellTypes, Near
<1>2. CASE pc' = pc /\ spoiled' = spoiled
  BY <1>1, <1>2, KeyLeavesCells DEF HeadInv, HeadNear, Fed, Alone
<1>3. CASE Command
  <2>1. /\ pc["handler"] = "idle" /\ pc'["handler"] = "start"
        /\ pc'["main"] = pc["main"]
    BY <1>3 DEF Key, Command, Go, Level, IInv, Types
  <2>2. HeadNear' /\ Fed'
    BY <1>1, <2>1, KeyLeavesCells DEF HeadInv, HeadNear, Fed
  <2>3. Alone'
    BY <1>3, <2>1 DEF Alone, Command, Playing
  <2> QED BY <1>1, <2>2, <2>3 DEF HeadInv
<1> QED BY <1>2, <1>3, KeyLeavesCells

\* HeadInv holds in every reachable state.
LEMMA HeadHolds == Spec => []HeadInv
<1>1. IInv /\ HeadInv /\ [Next]_vars => HeadInv'
  <2> SUFFICES ASSUME IInv, HeadInv, [Next]_vars PROVE HeadInv'
    OBVIOUS
  <2>1. CASE Key  BY <2>1, KeyKeepsHeadInv
  <2>2. ASSUME NEW l \in Level, Play(l) PROVE HeadInv'
    BY <2>2, PlayKeepsCellTypes, PlayKeepsHeadNear, PlayKeepsFed, PlayKeepsAlone
       DEF HeadInv
  <2>3. CASE UNCHANGED vars
    BY <2>3 DEF HeadInv, CellTypes, HeadNear, Near, Fed, Alone, vars, game, history
  <2> QED BY <2>1, <2>2, <2>3 DEF Next
<1> QED BY InitHeadInv, <1>1, SnakeInvariant, PTL DEF Spec

-----------------------------------------------------------------------------
(***************************************************************************)
(* The body.  A path is what the cells of a snake form: it lies on the     *)
(* ground, each cell next to the one before it, no cell twice, and its     *)
(* first cell is one step in direction h from its second.  While the cells *)
(* are shifted, the path to look at is the one the snake lay on when the   *)
(* move began.                                                             *)
(***************************************************************************)
Path(f, n, h) ==
  /\ f \in [0 .. n -> Cell]
  /\ \A i \in 0 .. n : OnGround(f[i])
  /\ \A i \in 1 .. n : Adjacent(f[i - 1], f[i])
  /\ \A i, j \in 0 .. n : f[i] = f[j] => i = j
  /\ n >= 1 => f[0] = StepTo(h, f[1])

\* Cells 0 to n; the same one place further back; and, with the cells after k
\* already shifted, where they were.
Lying(n) == [i \in 0 .. n |-> snake[i]]
Behind(n) == [i \in 0 .. n |-> snake[i + 1]]
Halfway(k, n) == [i \in 0 .. n |-> IF i <= k THEN snake[i] ELSE snake[i + 1]]

\* The direction the head points to.
Heading(l) == IF heading[l] = "none" THEN "right" ELSE heading[l]

\* All cells but the last, which an apple may just have added, until the shift
\* has overwritten that one; once the move has survived its check, all of them.
Whole(l) ==
  /\ pc[l] = "clear" => Path(Lying(length - 2), length - 2, Heading(l))
  /\ pc[l] = "loop" /\ ~gameOver => Path(Lying(length - 2), length - 2, Heading(l))
  /\ pc[l] = "shift" =>
       /\ index[l] <= length - 1
       /\ index[l] < length - 1 => snake[index[l] + 1] = snake[index[l]]
       /\ Path(Halfway(index[l], length - 2), length - 2, Heading(l))
  /\ pc[l] = "turn" =>
       /\ snake[1] = snake[0]
       /\ Path(Behind(length - 2), length - 2, Heading(l))
  /\ pc[l] = "check" =>
       /\ heading[l] \in Direction /\ snake[0] = StepTo(heading[l], snake[1])
       /\ \E h \in Direction :
            /\ Path(Behind(length - 2), length - 2, h)
            /\ reversed[l] <=> heading[l] = Opposite[h]
  /\ pc[l] = "eat" /\ ~gameOver =>
       /\ heading[l] \in Direction
       /\ Path(Lying(length - 1), length - 1, heading[l])

\* Main's game until a second one is played on its variables, the handler's
\* always.
BodyInv == \A l \in Level : (l = "main" => spoiled = "no") => Whole(l)

LEMMA PathShortens ==
  ASSUME NEW n \in Nat, NEW f, NEW h, Path(f, n + 1, h)
  PROVE  Path([i \in 0 .. n |-> f[i]], n, h)
BY DEF Path

\* A new head in front of a path, on a cell the path does not cover.
LEMMA PathExtends ==
  ASSUME NEW n \in Nat, NEW f, NEW h, Path(f, n, h), NEW d \in Direction,
         NEW g \in [0 .. n + 1 -> Cell],
         \A i \in 0 .. n : g[i + 1] = f[i],
         g[0] = StepTo(d, f[0]), OnGround(g[0]), \A i \in 0 .. n : g[0] # f[i]
  PROVE  Path(g, n + 1, d)
<1>1. \A i \in 0 .. n + 1 : i = 0 \/ (i - 1 \in 0 .. n /\ g[i] = f[i - 1])
  OBVIOUS
<1>2. f[0] \in Cell /\ Adjacent(g[0], f[0])
  BY StepMoves DEF Path
<1>3. \A i \in 0 .. n + 1 : OnGround(g[i])
  BY <1>1 DEF Path
<1>4. \A i \in 1 .. n + 1 : Adjacent(g[i - 1], g[i])
  <2> SUFFICES ASSUME NEW i \in 1 .. n + 1 PROVE Adjacent(g[i - 1], g[i])
    OBVIOUS
  <2>1. CASE i = 1  BY <2>1, <1>2
  <2>2. CASE i # 1
    <3>1. i - 1 \in 1 .. n /\ i - 2 \in 0 .. n
      BY <2>2
    <3>2. g[i] = f[i - 1] /\ g[i - 1] = f[(i - 1) - 1]
      BY <3>1, <1>1
    <3> QED BY <3>1, <3>2 DEF Path
  <2> QED BY <2>1, <2>2
<1>5. ASSUME NEW i \in 0 .. n + 1, NEW j \in 0 .. n + 1, g[i] = g[j]
      PROVE  i = j
  <2>1. CASE i = 0 \/ j = 0  BY <2>1, <1>5, <1>1
  <2>2. CASE i # 0 /\ j # 0
    <3>1. i - 1 = j - 1
      BY <2>2, <1>5, <1>1 DEF Path
    <3> QED BY <3>1
  <2> QED BY <2>1, <2>2
<1>6. g[0] = StepTo(d, g[1])
  OBVIOUS
<1> QED BY <1>3, <1>4, <1>5, <1>6 DEF Path

\* One step back from a step is where one came from only in the opposite
\* direction.
LEMMA BackIsOpposite ==
  ASSUME NEW q \in Cell, NEW d \in Direction, NEW h \in Direction,
         StepTo(d, StepTo(h, q)) = q
  PROVE  d = Opposite[h]
<1>1. q = <<q[1], q[2]>> /\ q[1] \in Int /\ q[2] \in Int
  BY DEF Cell
<1>2. CASE h = "up"    BY <1>1, <1>2 DEF StepTo, Opposite, Direction
<1>3. CASE h = "down"  BY <1>1, <1>3 DEF StepTo, Opposite, Direction
<1>4. CASE h = "left"  BY <1>1, <1>4 DEF StepTo, Opposite, Direction
<1>5. CASE h = "right" BY <1>1, <1>5 DEF StepTo, Opposite, Direction
<1> QED BY <1>2, <1>3, <1>4, <1>5 DEF Direction

\* Two cells next to the same one are not next to each other.
LEMMA NoTriangle ==
  ASSUME NEW p \in Cell, NEW q \in Cell, NEW r \in Cell,
         Adjacent(p, q), Adjacent(q, r)
  PROVE  ~Adjacent(r, p)
<1>1. /\ p[1] \in Int /\ p[2] \in Int /\ q[1] \in Int /\ q[2] \in Int
      /\ r[1] \in Int /\ r[2] \in Int
  BY DEF Cell
<1> QED BY <1>1 DEF Adjacent

\* What the lemmas about a step l itself makes have in common.
LEMMA LengthFits ==
  ASSUME HeadInv
  PROVE  /\ length \in Nat /\ length >= 2 /\ length - 2 \in Nat
         /\ \A i \in 0 .. length - 1 : i \in Index /\ snake[i] \in Cell
<1>1. length \in Nat /\ length >= 2 /\ length <= StartLength + MaxApples
  BY IndexHolds DEF HeadInv, CellTypes
<1> QED BY <1>1, IndexHolds DEF HeadInv, CellTypes, Index

\* init_snake_game lays the snake out in one piece.
LEMMA PlaceIsWhole ==
  ASSUME IInv, HeadInv, NEW l \in Level, Place(l)
  PROVE  Whole(l)'
<1> DEFINE n == length - 2
           w == Width \div 2
           y == Height \div 2
           f == [i \in 0 .. n |-> <<w - i, y>>]
<1>1. /\ pc'[l] = "clear" /\ heading'[l] = "none" /\ length' = length
      /\ snake' = [i \in Index |-> IF i < length THEN <<w - i, y>> ELSE snake[i]]
  BY DEF Place, At, Go, IInv, Types
<1>2. n \in Nat /\ (\A i \in 0 .. n : i \in Index /\ i < length)
  BY LengthFits
<1>3. w \in 0 .. Width - 1 /\ y \in 0 .. Height - 1
  BY IndexHolds
<1>4. Room => n <= w
  BY IndexHolds DEF HeadInv, CellTypes, Room
<1>5. Lying(length - 2)' = f
  BY <1>1, <1>2 DEF Lying
<1> HIDE DEF n, w, y
<1>6. Path(f, n, "right")
  <2>1. f \in [0 .. n -> Cell]
    BY <1>2, <1>3, IndexHolds DEF Cell
  <2>2. \A i \in 0 .. n : OnGround(f[i])
    BY <1>2, <1>3, <1>4, IndexHolds DEF OnGround, Field
  <2>3. \A i \in 1 .. n : Adjacent(f[i - 1], f[i])
    BY <1>2, <1>3, IndexHolds DEF Adjacent
  <2>4. \A i, j \in 0 .. n : f[i] = f[j] => i = j
    BY <1>2, <1>3, IndexHolds
  <2>5. n >= 1 => f[0] = StepTo("right", f[1])
    BY <1>2, <1>3, IndexHolds DEF StepTo
  <2> QED BY <2>1, <2>2, <2>3, <2>4, <2>5 DEF Path
<1> QED BY <1>1, <1>5, <1>6 DEF Whole, Heading, n

\* The shift leaves the path the snake lay on as it is.
LEMMA ShiftKeepsWhole ==
  ASSUME IInv, HeadInv, NEW l \in Level, Shift(l), Whole(l)
  PROVE  Whole(l)'
<1> DEFINE n == length - 2
           k == index[l]
<1>1. /\ pc[l] = "shift" /\ k <= length - 1
      /\ k < length - 1 => snake[k + 1] = snake[k]
      /\ Path(Halfway(k, n), n, Heading(l))
      /\ UNCHANGED <<length, heading>>
  BY DEF Shift, At, Whole, history
<1>2. /\ length \in Nat /\ n \in Nat /\ k \in Nat
      /\ \A i \in 0 .. n + 1 : i \in Index
  <2>1. index[l] \in Index
    BY DEF HeadInv, CellTypes
  <2>2. 0 .. n + 1 = 0 .. length - 1
    BY LengthFits
  <2> QED BY <2>1, <2>2, LengthFits, IndexHolds
<1>3. CASE k > 0
  <2>1. /\ snake' = [snake EXCEPT ![k] = snake[k - 1]]
        /\ index'[l] = k - 1 /\ pc'[l] = "shift"
    BY <1>1, <1>3 DEF Shift, HeadInv, CellTypes
  <2>2. k \in 1 .. n + 1 /\ k - 1 \in 0 .. n
    BY <1>1, <1>2, <1>3
  <2>3. /\ snake'[k] = snake[k - 1]
        /\ \A i \in 0 .. n + 1 : i # k => snake'[i] = snake[i]
    BY <2>1, <2>2, <1>2 DEF HeadInv, CellTypes
  <2>4. [i \in 0 .. n |-> IF i <= k - 1 THEN snake'[i] ELSE snake'[i + 1]]
          = Halfway(k, n)
    <3>1. ASSUME NEW i \in 0 .. n
          PROVE  (IF i <= k - 1 THEN snake'[i] ELSE snake'[i + 1])
                   = (IF i <= k THEN snake[i] ELSE snake[i + 1])
      <4>1. CASE i <= k - 1
        BY <4>1, <2>2, <2>3, <1>2
      <4>2. CASE i = k
        <5>1. snake[k + 1] = snake[k]
          BY <4>2, <1>1, <1>2
        <5> QED BY <4>2, <5>1, <2>3, <2>2, <1>2
      <4>3. CASE i > k
        BY <4>3, <2>2, <2>3, <1>2
      <4> QED BY <4>1, <4>2, <4>3, <2>2
    <3> QED BY <3>1 DEF Halfway
  <2>5. Halfway(index[l], length - 2)' = Halfway(k, n)
    BY <2>1, <2>4, <1>1 DEF Halfway
  <2>6. snake'[(k - 1) + 1] = snake'[k - 1]
    BY <2>2, <2>3, <1>2
  <2>7. Path(Halfway(index[l], length - 2), length - 2, Heading(l))'
    BY <1>1, <2>5 DEF Path, Heading, OnGround, Adjacent, StepTo
  <2>8. index'[l] <= length' - 1
    BY <2>1, <2>2, <1>1, <1>2
  <2> QED BY <2>1, <2>6, <2>7, <2>8 DEF Whole
<1>4. CASE k = 0
  <2>1. pc'[l] = "turn" /\ snake' = snake
    BY <1>1, <1>4 DEF Shift, Go, IInv, Types
  <2>2. snake[1] = snake[0]
    BY <1>1, <1>2, <1>4
  <2>3. \A i \in 0 .. n : Halfway(0, n)[i] = snake[i + 1]
    BY <2>2, <1>2 DEF Halfway
  <2>4. Behind(n) = Halfway(0, n)
    BY <2>3 DEF Behind, Halfway
  <2>5. Behind(length - 2)' = Halfway(k, n)
    BY <2>1, <2>4, <1>1, <1>4 DEF Behind
  <2>6. Path(Behind(length - 2), length - 2, Heading(l))'
    BY <1>1, <2>5 DEF Path, Heading, OnGround, Adjacent, StepTo
  <2> QED BY <2>1, <2>2, <2>6 DEF Whole
<1> QED BY <1>2, <1>3, <1>4

\* So does the move of the head.
LEMMA MoveKeepsWhole ==
  ASSUME IInv, HeadInv, NEW l \in Level, Move(l), Whole(l)
  PROVE  Whole(l)'
<1> DEFINE n == length - 2
<1>1. /\ snake[1] = snake[0] /\ Path(Behind(n), n, Heading(l))
      /\ pc'[l] = "check" /\ length' = length
      /\ heading'[l] = direction /\ direction \in Direction
      /\ reversed'[l] = (direction = Opposite[Heading(l)])
      /\ Heading(l) \in Direction
  BY DEF Move, At, Go, Whole, IInv, Types, Heading, Direction
<1>2. /\ snake'[0] = StepTo(direction, snake[0])
      /\ \A i \in 0 .. n : snake'[i + 1] = snake[i + 1]
  <2>1. snake' = [snake EXCEPT ![0] = StepTo(direction, snake[0])]
    BY StepIsStepTo DEF Move
  <2>2. \A i \in 0 .. n : i + 1 \in Index /\ i + 1 # 0
    BY LengthFits
  <2> QED BY <2>1, <2>2, IndexHolds DEF HeadInv, CellTypes
<1>3. snake'[0] = StepTo(direction, snake'[1])
  BY <1>1, <1>2, LengthFits
<1>4. Behind(length - 2)' = Behind(n)
  BY <1>1, <1>2 DEF Behind
<1>5. \E h \in Direction :
        /\ Path(Behind(n), n, h)
        /\ reversed'[l] <=> heading'[l] = Opposite[h]
  BY <1>1
<1>6. ASSUME NEW h \in Direction, Path(Behind(n), n, h)
      PROVE  Path(Behind(length - 2), length - 2, h)'
  <2>1. Behind(length - 2)' = Behind(n) /\ (length - 2)' = n
    BY <1>1, <1>4
  <2> HIDE DEF n
  <2> QED BY <1>6, <2>1 DEF Path, OnGround, Adjacent, StepTo
<1> HIDE DEF n
<1> QED BY <1>1, <1>3, <1>5, <1>6 DEF Whole

\* A path stays one as long as the variables it is made of do.
LEMMA ClearKeepsWhole ==
  ASSUME IInv, HeadInv, NEW l \in Level, Clear(l), Whole(l)
  PROVE  Whole(l)'
<1>1. /\ Path(Lying(length - 2), length - 2, Heading(l))
      /\ pc'[l] = "loop" /\ UNCHANGED <<snake, length, heading>>
  BY DEF Clear, At, Go, Whole, IInv, Types, history
<1>2. Lying(length - 2)' = Lying(length - 2)
  BY <1>1 DEF Lying
<1>3. Path(Lying(length - 2), length - 2, Heading(l))'
  BY <1>1, <1>2 DEF Path, Heading, OnGround, Adjacent, StepTo
<1> QED BY <1>1, <1>3 DEF Whole

LEMMA LoopKeepsWhole ==
  ASSUME IInv, HeadInv, NEW l \in Level, Loop(l), Whole(l)
  PROVE  Whole(l)'
<1> DEFINE n == length - 2
<1>1. /\ pc[l] = "loop" /\ UNCHANGED <<snake, length, heading>>
      /\ gameOver => pc'[l] = "end"
      /\ ~gameOver => pc'[l] = "shift" /\ index'[l] = length - 1
  BY DEF Loop, At, Go, LastIndex, IInv, Types, HeadInv, CellTypes, game, history
<1>2. CASE gameOver  BY <1>1, <1>2 DEF Whole
<1>3. CASE ~gameOver
  <2>1. Path(Lying(n), n, Heading(l))
    BY <1>1, <1>3 DEF Whole
  <2>2. \A i \in 0 .. n : i <= length - 1
    BY LengthFits
  <2>3. Halfway(index[l], length - 2)' = Lying(n) /\ (length - 2)' = n
    BY <1>1, <1>3, <2>2 DEF Halfway, Lying
  <2>4. Path(Halfway(index[l], length - 2), length - 2, Heading(l))'
    <3>1. Heading(l)' = Heading(l)
      BY <1>1 DEF Heading
    <3> HIDE DEF n
    <3> QED BY <2>1, <2>3, <3>1 DEF Path, OnGround, Adjacent, StepTo
  <2>5. index'[l] <= length' - 1 /\ ~(index'[l] < length' - 1)
    BY <1>1, <1>3, LengthFits
  <2> QED BY <1>1, <1>3, <2>4, <2>5 DEF Whole
<1> QED BY <1>2, <1>3

\* A head that survived the check is a new first cell of the path.
LEMMA CheckKeepsWhole ==
  ASSUME IInv, HeadInv, NEW l \in Level, Check(l), Whole(l)
  PROVE  Whole(l)'
<1> DEFINE n == length - 2
<1>1. /\ pc'[l] = "eat" /\ UNCHANGED <<snake, length, heading>>
      /\ gameOver' = (gameOver \/ HitsWall \/ HitsItself)
      /\ heading[l] \in Direction /\ snake[0] = StepTo(heading[l], snake[1])
      /\ \E h \in Direction : Path(Behind(n), n, h)
  BY DEF Check, At, Go, Whole, IInv, Types, history
<1>2. ASSUME ~gameOver'
      PROVE  Path(Lying(length - 1), length - 1, heading[l])'
  <2>1. PICK h \in Direction : Path(Behind(n), n, h)
    BY <1>1
  <2>2. snake[0] \in Field /\ (\A i \in 1 .. length - 1 : snake[i] # snake[0])
    BY <1>1, <1>2 DEF HitsWall, HitsItself
  <2>3. n \in Nat /\ n + 1 = length - 1 /\ (\A i \in 0 .. n : i + 1 \in 1 .. length - 1)
    BY LengthFits
  <2>4. Lying(n + 1) \in [0 .. n + 1 -> Cell]
    BY <2>3, LengthFits DEF Lying
  <2>5. /\ Lying(n + 1)[0] = snake[0]
        /\ \A i \in 0 .. n : Lying(n + 1)[i + 1] = Behind(n)[i]
        /\ \A i \in 0 .. n : Behind(n)[i] = snake[i + 1]
        /\ Behind(n)[0] = snake[1]
    BY <2>3 DEF Lying, Behind
  <2> HIDE DEF n
  <2>6. Path(Lying(n + 1), n + 1, heading[l])
    <3>1. \A i \in 0 .. n : Lying(n + 1)[0] # Behind(n)[i]
      BY <2>2, <2>3, <2>5
    <3>2. OnGround(Lying(n + 1)[0])
      BY <2>2, <2>5 DEF OnGround
    <3>3. Lying(n + 1)[0] = StepTo(heading[l], Behind(n)[0])
      BY <1>1, <2>5
    <3> QED BY <1>1, <2>1, <2>3, <2>4, <2>5, <3>1, <3>2, <3>3, PathExtends
  <2>7. Lying(length - 1)' = Lying(n + 1) /\ (length - 1)' = n + 1
    BY <1>1, <2>3 DEF Lying
  <2> QED BY <1>1, <2>6, <2>7 DEF Path, OnGround, Adjacent, StepTo
<1> QED BY <1>1, <1>2 DEF Whole

\* Eaten or not, all cells but the last of the new length form the path.
LEMMA EatKeepsWhole ==
  ASSUME IInv, HeadInv, NEW l \in Level, Eat(l), Whole(l)
  PROVE  Whole(l)'
<1> DEFINE n == length - 2
<1>1. /\ pc[l] = "eat" /\ pc'[l] = "loop"
      /\ UNCHANGED <<snake, heading, gameOver>>
      /\ length' = length + 1 \/ length' = length
  BY DEF Eat, At, Go, IInv, Types, history
<1>2. ASSUME ~gameOver
      PROVE  Path(Lying(length - 2), length - 2, Heading(l))'
  <2>1. heading[l] \in Direction /\ Path(Lying(length - 1), length - 1, heading[l])
    BY <1>1, <1>2 DEF Whole
  <2>2. Heading(l)' = heading[l]
    BY <1>1, <2>1 DEF Heading, Direction
  <2>3. n \in Nat /\ n + 1 = length - 1 /\ length \in Nat
    BY LengthFits
  <2>4. CASE length' = length + 1
    <3>1. Lying(length - 2)' = Lying(length - 1) /\ (length - 2)' = length - 1
      BY <1>1, <2>4, <2>3 DEF Lying
    <3> QED BY <2>1, <2>2, <3>1 DEF Path, OnGround, Adjacent, StepTo
  <2>5. CASE length' = length
    <3>1. Path([i \in 0 .. n |-> Lying(n + 1)[i]], n, heading[l])
      BY <2>1, <2>3, PathShortens
    <3>2. [i \in 0 .. n |-> Lying(n + 1)[i]] = Lying(n)
      BY <2>3 DEF Lying
    <3>3. Lying(length - 2)' = Lying(n) /\ (length - 2)' = n
      BY <1>1, <2>5 DEF Lying
    <3>4. Path(Lying(n), n, heading[l])
      BY <3>1, <3>2
    <3> HIDE DEF n
    <3> QED BY <2>2, <3>3, <3>4 DEF Path, OnGround, Adjacent, StepTo
  <2> QED BY <1>1, <2>4, <2>5
<1> QED BY <1>1, <1>2 DEF Whole

\* A level that is not in a game has nothing to keep.
LEMMA NotPlayingIsWhole ==
  ASSUME NEW l \in Level, pc'[l] \notin Playing
  PROVE  Whole(l)'
  BY DEF Whole, Playing

\* A body stays as it is with the variables it is made of.
LEMMA SameIsWhole ==
  ASSUME NEW l \in Level, Whole(l),
         UNCHANGED <<snake, length, gameOver, index, heading, reversed, pc>>
  PROVE  Whole(l)'
<1> USE DEF OnGround, Adjacent, StepTo
<1>1. /\ Lying(length - 2)' = Lying(length - 2)
      /\ Lying(length - 1)' = Lying(length - 1)
      /\ Behind(length - 2)' = Behind(length - 2)
      /\ Halfway(index[l], length - 2)' = Halfway(index[l], length - 2)
      /\ Heading(l)' = Heading(l)
  BY DEF Lying, Behind, Halfway, Heading
<1>2. ASSUME Path(Lying(length - 2), length - 2, Heading(l))
      PROVE  Path(Lying(length - 2), length - 2, Heading(l))'
  BY <1>1, <1>2 DEF Path
<1>3. ASSUME Path(Halfway(index[l], length - 2), length - 2, Heading(l))
      PROVE  Path(Halfway(index[l], length - 2), length - 2, Heading(l))'
  <2> DEFINE f == Halfway(index[l], length - 2)
             n == length - 2
             h == Heading(l)
  <2>1. f' = f /\ n' = n /\ h' = h
    BY <1>1
  <2> HIDE DEF f, n, h
  <2>2. Path(f, n, h)'
    <3>1. Path(f, n, h)  BY <1>3 DEF f, n, h
    <3> QED BY <3>1, <2>1 DEF Path
  <2> QED BY <2>2 DEF f, n, h
<1>4. ASSUME Path(Behind(length - 2), length - 2, Heading(l))
      PROVE  Path(Behind(length - 2), length - 2, Heading(l))'
  BY <1>1, <1>4 DEF Path
<1>5. ASSUME NEW h \in Direction, Path(Behind(length - 2), length - 2, h)
      PROVE  Path(Behind(length - 2), length - 2, h)'
  BY <1>1, <1>5 DEF Path
<1>6. ASSUME Path(Lying(length - 1), length - 1, heading[l])
      PROVE  Path(Lying(length - 1), length - 1, heading[l])'
  BY <1>1, <1>6 DEF Path
<1>7. pc[l] = "clear" => Path(Lying(length - 2), length - 2, Heading(l))'
  BY <1>2 DEF Whole
<1>8. pc[l] = "loop" /\ ~gameOver => Path(Lying(length - 2), length - 2, Heading(l))'
  BY <1>2 DEF Whole
<1>9. pc[l] = "shift" => Path(Halfway(index[l], length - 2), length - 2, Heading(l))'
  BY <1>3 DEF Whole
<1>10. pc[l] = "turn" => Path(Behind(length - 2), length - 2, Heading(l))'
  BY <1>4 DEF Whole
<1>11. pc[l] = "check" => \E h \in Direction :
                            /\ Path(Behind(length - 2), length - 2, h)'
                            /\ reversed[l] <=> heading[l] = Opposite[h]
  BY <1>5 DEF Whole
<1>12. pc[l] = "eat" /\ ~gameOver => Path(Lying(length - 1), length - 1, heading[l])'
  BY <1>6 DEF Whole
<1> QED BY <1>7, <1>8, <1>9, <1>10, <1>11, <1>12 DEF Whole

\* A step of one game leaves the other level's alone: main's is not being
\* played undisturbed, the handler's not at all.
LEMMA PlayKeepsBody ==
  ASSUME IInv, HeadInv, BodyInv, NEW l \in Level, Play(l)
  PROVE  BodyInv'
<1> SUFFICES ASSUME NEW k \in Level, (k = "main" => spoiled = "no")'
             PROVE  Whole(k)'
  BY DEF BodyInv
<1>1. spoiled' = spoiled
  BY DEF Play, Start, Place, Clear, Loop, Shift, Move, Check, Eat, End, history
<1>2. CASE k = l
  <2>1. Whole(l)
    BY <1>1, <1>2 DEF BodyInv
  <2>2. CASE Start(l) \/ End(l)
    BY <1>2, <2>2, NotPlayingIsWhole DEF Start, End, Go, Playing, IInv, Types
  <2> QED BY <1>2, <2>1, <2>2, PlaceIsWhole, ClearKeepsWhole, LoopKeepsWhole,
             ShiftKeepsWhole, MoveKeepsWhole, CheckKeepsWhole, EatKeepsWhole DEF Play
<1>3. CASE k # l
  <2>1. pc'[k] = pc[k]
    BY <1>3 DEF Play, Start, Place, Clear, Loop, Shift, Move, Check, Eat, End, At,
                Go, IInv, Types
  <2>2. l = "main" => pc["handler"] = "idle"
    BY DEF Play, Start, Place, Clear, Loop, Shift, Move, Check, Eat, End, At, Runs
  <2>3. l = "handler" => pc["handler"] # "idle"
    BY DEF Play, Start, Place, Clear, Loop, Shift, Move, Check, Eat, End, At
  <2>4. pc[k] \notin Playing
    BY <1>1, <1>3, <2>2, <2>3 DEF Level, HeadInv, Alone, Playing
  <2> QED BY <2>1, <2>4, NotPlayingIsWhole
<1> QED BY <1>2, <1>3

\* A key moves no cell, and the one that starts a second game marks the first
\* as spoiled if that is under way.
LEMMA KeyKeepsBody ==
  ASSUME IInv, HeadInv, BodyInv, Key
  PROVE  BodyInv'
<1> SUFFICES ASSUME NEW k \in Level, (k = "main" => spoiled = "no")'
             PROVE  Whole(k)'
  BY DEF BodyInv
<1>1. CASE Command
  <2>1. /\ pc'["handler"] = "start" /\ pc'["main"] = pc["main"]
        /\ pc["main"] \in Playing => spoiled' # "no"
    BY <1>1 DEF Command, Go, IInv, Types, Level, Playing
  <2>2. pc'[k] \notin Playing
    BY <2>1 DEF Level, Playing
  <2> QED BY <2>2, NotPlayingIsWhole
<1>2. CASE pc' = pc /\ spoiled' = spoiled
  <2>1. Whole(k)
    BY <1>2 DEF BodyInv
  <2>2. UNCHANGED <<snake, length, gameOver, index, heading, reversed, pc>>
    BY <1>2, KeyLeavesCells
  <2> QED BY <2>1, <2>2, SameIsWhole
<1> QED BY <1>1, <1>2, KeyLeavesCells

\* BodyInv holds in every reachable state.
THEOREM SnakeBody == Spec => []BodyInv
<1>1. Init => BodyInv
  BY DEF Init, BodyInv, Whole, Level
<1>2. IInv /\ HeadInv /\ BodyInv /\ [Next]_vars => BodyInv'
  <2> SUFFICES ASSUME IInv, HeadInv, BodyInv, [Next]_vars PROVE BodyInv'
    OBVIOUS
  <2>1. CASE Key  BY <2>1, KeyKeepsBody
  <2>2. ASSUME NEW l \in Level, Play(l) PROVE BodyInv'  BY <2>2, PlayKeepsBody
  <2>3. CASE UNCHANGED vars
    BY <2>3, SameIsWhole DEF BodyInv, vars, game, history
  <2> QED BY <2>1, <2>2, <2>3 DEF Next
<1> QED BY <1>1, <1>2, SnakeInvariant, HeadHolds, PTL DEF Spec

\* As long as main's game goes on undisturbed the snake covers no cell twice,
\* each cell lies next to the one before it, and with room for every length at
\* the start, all lie on the field: SnakeInOnePiece.
THEOREM SnakeStaysWhole ==
  ASSUME Room
  PROVE  Spec => []SnakeInOnePiece
<1>1. ASSUME HeadInv, BodyInv
      PROVE  SnakeInOnePiece
  <2> SUFFICES ASSUME pc["main"] = "loop", ~gameOver, spoiled = "no"
               PROVE  /\ \A i \in 0 .. length - 2 : snake[i] \in Field
                      /\ \A i \in (0 .. length - 2) \ {0} : Adjacent(snake[i - 1], snake[i])
                      /\ Cardinality({snake[i] : i \in 0 .. length - 2}) = length - 1
    BY DEF SnakeInOnePiece
  <2> DEFINE n == length - 2
             body == 0 .. n
             cells == {snake[i] : i \in body}
             f == Lying(n)
  <2>1. Path(f, n, Heading("main"))
    BY <1>1 DEF BodyInv, Whole, Level
  <2>2. n \in Nat /\ \A i \in body : f[i] = snake[i]
    BY <1>1, LengthFits DEF Lying
  <2>3. \A i \in body : snake[i] \in Field
    BY <2>1, <2>2 DEF Path, OnGround
  <2>4. \A i \in body \ {0} : Adjacent(snake[i - 1], snake[i])
    <3>1. \A i \in body \ {0} : i \in 1 .. n /\ i - 1 \in body
      BY <2>2
    <3> QED BY <2>1, <2>2, <3>1 DEF Path
  <2>5. Cardinality(cells) = length - 1
    <3>1. f \in Bijection(body, cells)
      <4>1. f \in [body -> cells]
        BY DEF Lying
      <4>2. \A i, j \in body : f[i] = f[j] => i = j
        BY <2>1 DEF Path
      <4>3. \A c \in cells : \E i \in body : f[i] = c
        BY <2>2
      <4> QED BY <4>1, <4>2, <4>3 DEF Bijection, Injection, Surjection, IsInjective
    <3>2. IsFiniteSet(body) /\ Cardinality(body) = n + 1
      BY <2>2, FS_Interval
    <3>3. Cardinality(cells) = n + 1
      BY <3>1, <3>2, FS_Bijection DEF ExistsBijection
    <3> QED BY <3>3, LengthFits, <1>1
  <2> QED BY <2>3, <2>4, <2>5
<1> QED BY <1>1, HeadHolds, SnakeBody, PTL

\* A snake of two to four cells runs into itself only by turning back, whatever
\* the keys and the apples were: ShortSnakeDiesByReversal.
THEOREM ShortSnakeReverses == Spec => []ShortSnakeDiesByReversal
<1>1. ASSUME IInv, HeadInv, BodyInv
      PROVE  ShortSnakeDiesByReversal
  <2> SUFFICES ASSUME NEW l \in Level, At(l, "check"), length < 5, HitsItself,
                      l = "main" => spoiled = "no"
               PROVE  reversed[l]
    BY DEF ShortSnakeDiesByReversal
  <2> DEFINE n == length - 2
             f == Behind(n)
             d == heading[l]
  <2>1. /\ d \in Direction /\ snake[0] = StepTo(d, snake[1])
        /\ \E h \in Direction : Path(f, n, h) /\ (reversed[l] <=> d = Opposite[h])
    BY <1>1 DEF BodyInv, Whole, At
  <2>2. PICK h \in Direction : Path(f, n, h) /\ (reversed[l] <=> d = Opposite[h])
    BY <2>1
  <2>3. PICK j \in 1 .. length - 1 : snake[j] = snake[0]
    BY DEF HitsItself
  <2>4. /\ n \in 0 .. 2 /\ j - 1 \in 0 .. n /\ j \in 1 .. 3 /\ j <= n + 1
        /\ \A i \in 0 .. n : f[i] = snake[i + 1] /\ f[i] \in Cell
    BY <1>1, LengthFits, <2>2 DEF Behind, Path
  <2>5. f[0] = snake[1] /\ f[0] \in Cell /\ f[j - 1] = snake[j]
    BY <2>4
  <2> HIDE DEF f, n, d
  <2>6. j # 1
    BY <2>1, <2>3, <2>5, StepMoves
  <2>7. CASE j = 2
    <3>1. f[1] = snake[0] /\ f[1] \in Cell /\ n >= 1
      BY <2>3, <2>4, <2>5, <2>7
    <3>2. f[0] = StepTo(h, f[1])
      BY <2>2, <3>1 DEF Path
    <3>3. StepTo(d, StepTo(h, f[1])) = f[1]
      BY <2>1, <2>5, <3>1, <3>2
    <3>4. d = Opposite[h]
      BY <2>1, <2>2, <3>1, <3>3, BackIsOpposite
    <3> QED BY <2>2, <3>4
  <2>8. CASE j = 3
    <3>1. f[2] = snake[0] /\ f[2] \in Cell /\ f[1] \in Cell /\ n = 2
      BY <2>3, <2>4, <2>5, <2>8
    <3>2. 1 \in 1 .. n /\ 2 \in 1 .. n /\ 1 - 1 = 0 /\ 2 - 1 = 1
      BY <3>1
    <3>3. Adjacent(f[0], f[1]) /\ Adjacent(f[1], f[2])
      BY <2>2, <3>2 DEF Path
    <3>4. Adjacent(f[2], f[0])
      BY <2>1, <2>5, <3>1, StepMoves
    <3> QED BY <2>5, <3>1, <3>3, <3>4, NoTriangle
  <2> QED BY <2>4, <2>6, <2>7, <2>8
<1> QED BY <1>1, SnakeInvariant, HeadHolds, SnakeBody, PTL
=============================================================================
