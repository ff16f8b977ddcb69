-------------------------------- MODULE Snake --------------------------------
(***************************************************************************)
(* The snake game of the C kernel, src/1.1/programs/snake.c.  main plays   *)
(* it with interrupts on, so the keyboard handler runs between any two     *)
(* steps: it turns the snake, or takes the keyboard back to the command    *)
(* line, from where a second game can be started.  That one is played      *)
(* inside the handler, on the same global variables, while main's game     *)
(* stands still.                                                           *)
(*                                                                         *)
(* A level is who runs the game.  Drawing, which changes nothing but the   *)
(* screen, is left out; where the random numbers put the apple is open.    *)
(***************************************************************************)
EXTENDS Integers, FiniteSets

CONSTANTS
  Width, Height, \* GAME_WIDTH (80), GAME_HEIGHT (25)
  StartLength,   \* the first value of snake_length (24)
  MaxApples,     \* bound: apples put on the field, none follow
  MaxKeys        \* bound: keys pressed

ASSUME SnakeAssumption ==
  /\ Width \in Nat \ {0} /\ Height \in Nat \ {0}
  /\ StartLength \in Nat \ {0, 1}
  /\ MaxApples \in Nat /\ MaxKeys \in Nat

VARIABLES
  snake, length, \* the array and snake_length
  apple,
  direction,     \* current_direction
  gameOver,      \* game_over
  mode,          \* who gets the keys: currentMode
  pc, index,     \* per level: position in the game, i of the shift
  heading,       \* history, per level: the direction of the last move
  reversed,      \* history, per level: the last move went back
  turns,         \* history: keys that turned the snake since main's last move
  spoiled,       \* history: the part of main's game a second game ran in
  apples, keys   \* apples and keys so far (bounded by MaxApples, MaxKeys)

game == <<snake, length, apple, direction, gameOver>>
history == <<heading, reversed, turns, spoiled>>
vars == <<game, mode, pc, index, history, apples, keys>>

Level == {"main", "handler"}
Direction == {"up", "down", "left", "right"}
Opposite == [up |-> "down", down |-> "up", left |-> "right", right |-> "left"]

Field == (0 .. Width - 1) \X (0 .. Height - 1)
Nowhere == <<-9, -9>>
Index == 0 .. StartLength + MaxApples - 1

Init ==
  /\ snake = [i \in Index |-> <<0, 0>>] /\ length = StartLength
  /\ apple = <<0, 0>> /\ direction = "right" /\ gameOver = FALSE
  /\ mode = "default"
  /\ pc = [main |-> "start", handler |-> "idle"]
  /\ index = [l \in Level |-> 0]
  /\ heading = [l \in Level |-> "none"] /\ reversed = [l \in Level |-> FALSE]
  /\ turns = 0 /\ spoiled = "no"
  /\ apples = 0 /\ keys = 0

-----------------------------------------------------------------------------
\* A handler is never interrupted.
Runs(l) == l = "main" => pc["handler"] = "idle"
At(l, here) == Runs(l) /\ pc[l] = here
Go(l, there) == pc' = [pc EXCEPT ![l] = there]

\* rand_range for both coordinates; the bound keeps further apples away.
NewApple ==
  IF apples < MaxApples THEN apple' \in Field /\ apples' = apples + 1
                        ELSE apple' = Nowhere /\ UNCHANGED apples

\* start_snake_game, init_snake_game up to the apple.
Start(l) ==
  /\ At(l, "start")
  /\ mode' = "snake"
  /\ Go(l, "place")
  /\ UNCHANGED <<game, index, history, apples, keys>>

Place(l) ==
  /\ At(l, "place")
  /\ snake' = [i \in Index |-> IF i < length
                               THEN <<(Width \div 2) - i, Height \div 2>>
                               ELSE snake[i]]
  /\ NewApple
  /\ heading' = [heading EXCEPT ![l] = "none"]
  /\ Go(l, "clear")
  /\ UNCHANGED <<length, direction, gameOver, mode, index, reversed, turns,
                 spoiled, keys>>

\* The last statement of init_snake_game.
Clear(l) ==
  /\ At(l, "clear")
  /\ gameOver' = FALSE
  /\ Go(l, "loop")
  /\ UNCHANGED <<snake, length, apple, direction, mode, index, history, apples,
                 keys>>

\* The loop's condition and the one at the start of move_snake.
\* Mutant of LastIndex: the cell that was just added is not filled.
LastIndexShort == length - 2
LastIndex == length - 1
Loop(l) ==
  /\ At(l, "loop")
  /\ IF gameOver THEN Go(l, "end") /\ UNCHANGED index
                 ELSE Go(l, "shift") /\ index' = [index EXCEPT ![l] = LastIndex]
  /\ UNCHANGED <<game, mode, history, apples, keys>>

\* The body, from tail to head, one cell at a time.
Shift(l) ==
  /\ At(l, "shift")
  /\ IF index[l] > 0
     THEN /\ snake' = [snake EXCEPT ![index[l]] = snake[index[l] - 1]]
          /\ index' = [index EXCEPT ![l] = @ - 1]
          /\ UNCHANGED pc
     ELSE Go(l, "turn") /\ UNCHANGED <<snake, index>>
  /\ UNCHANGED <<length, apple, direction, gameOver, mode, history, apples, keys>>

\* Mutant of Step: the snake comes back on the other side.
StepAround(p) ==
  CASE direction = "up"    -> <<p[1], (p[2] - 1) % Height>>
    [] direction = "down"  -> <<p[1], (p[2] + 1) % Height>>
    [] direction = "left"  -> <<(p[1] - 1) % Width, p[2]>>
    [] direction = "right" -> <<(p[1] + 1) % Width, p[2]>>
Step(p) ==
  CASE direction = "up"    -> <<p[1], p[2] - 1>>
    [] direction = "down"  -> <<p[1], p[2] + 1>>
    [] direction = "left"  -> <<p[1] - 1, p[2]>>
    [] direction = "right" -> <<p[1] + 1, p[2]>>

\* A new snake lies with its head to the right.
Move(l) ==
  /\ At(l, "turn")
  /\ snake' = [snake EXCEPT ![0] = Step(@)]
  /\ heading' = [heading EXCEPT ![l] = direction]
  /\ reversed' = [reversed EXCEPT ![l] =
       direction = Opposite[IF heading[l] = "none" THEN "right" ELSE heading[l]]]
  /\ turns' = IF l = "main" THEN 0 ELSE turns
  /\ Go(l, "check")
  /\ UNCHANGED <<length, apple, direction, gameOver, mode, index, spoiled,
                 apples, keys>>

HitsWall == snake[0] \notin Field
HitsItself == \E i \in 1 .. length - 1 : snake[i] = snake[0]
Check(l) ==
  /\ At(l, "check")
  /\ gameOver' = (gameOver \/ HitsWall \/ HitsItself)
  /\ Go(l, "eat")
  /\ UNCHANGED <<snake, length, apple, direction, mode, index, history, apples,
                 keys>>

Eat(l) ==
  /\ At(l, "eat")
  /\ IF snake[0] = apple
     THEN length' = length + 1 /\ NewApple
     ELSE UNCHANGED <<length, apple, apples>>
  /\ Go(l, "loop")
  /\ UNCHANGED <<snake, direction, gameOver, mode, index, history, keys>>

\* end_snake_game at the end of start_snake_game.
\* Mutant of ModeAfter: the keys stay with the game.
ModeAfterNone == mode
ModeAfter == "cli"
\* Mutant of OverAfter: the game leaves its flag ready for the next one.
OverAfterReset == FALSE
OverAfter == gameOver
End(l) ==
  /\ At(l, "end")
  /\ mode' = ModeAfter
  /\ gameOver' = OverAfter
  /\ Go(l, IF l = "main" THEN "done" ELSE "idle")
  /\ UNCHANGED <<snake, length, apple, direction, index, history, apples, keys>>

Play(l) ==
  \/ Start(l) \/ Place(l) \/ Clear(l) \/ Loop(l) \/ Shift(l)
  \/ Move(l) \/ Check(l) \/ Eat(l) \/ End(l)

-----------------------------------------------------------------------------
(* The keyboard handler.                                                   *)

\* Mutant of Allowed: a key may reverse the snake.
AllowedAny(d) == TRUE
Allowed(d) == direction # Opposite[d]

\* update_direction for W, A, S, D.
Turn(d) ==
  /\ mode = "snake"
  /\ direction' = IF Allowed(d) THEN d ELSE direction
  /\ turns' = IF direction' # direction THEN turns + 1 ELSE turns
  /\ UNCHANGED <<snake, length, apple, gameOver, mode, pc, heading, reversed,
                 spoiled>>

\* update_direction for q: end_snake_game, which does not end the game.
Quit ==
  /\ mode = "snake"
  /\ mode' = ModeAfter
  /\ gameOver' = OverAfter
  /\ UNCHANGED <<snake, length, apple, direction, pc, history>>

\* The Enter that executes "snake".
Command ==
  /\ mode = "cli"
  /\ Go("handler", "start")
  /\ spoiled' = CASE pc["main"] \in {"loop", "shift", "turn", "check", "eat"} ->
                       "play"
                  [] pc["main"] = "clear" /\ spoiled = "no" -> "setup"
                  [] OTHER -> spoiled
  /\ UNCHANGED <<game, mode, heading, reversed, turns>>

Key ==
  /\ pc["handler"] = "idle" /\ keys < MaxKeys
  /\ (\E d \in Direction : Turn(d)) \/ Quit \/ Command
  /\ keys' = keys + 1
  /\ UNCHANGED <<index, apples>>

Next == Key \/ \E l \in Level : Play(l)

Spec == Init /\ [][Next]_vars

\* The processor runs whoever can run; keys need not come.
FairSpec == Spec /\ WF_vars(\E l \in Level : Play(l))

-----------------------------------------------------------------------------
(* Properties.                                                             *)

Adjacent(p, q) ==
  \/ p[1] = q[1] /\ p[2] - q[2] \in {-1, 1}
  \/ p[2] = q[2] /\ p[1] - q[1] \in {-1, 1}

\* As long as main's game goes on, undisturbed by a second one, its snake is on
\* the field in one piece and covers no cell twice; only the cell just added by
\* an apple may still lie anywhere.
SnakeInOnePiece ==
  pc["main"] = "loop" /\ ~gameOver /\ spoiled = "no" =>
    LET body == 0 .. length - 2
    IN  /\ \A i \in body : snake[i] \in Field
        /\ \A i \in body \ {0} : Adjacent(snake[i - 1], snake[i])
        /\ Cardinality({snake[i] : i \in body}) = length - 1

\* A snake of fewer than five cells can only run into itself by going back, be
\* it in main's game or in the handler's.  The cell an apple has just added
\* never stands in the way.
ShortSnakeDiesByReversal ==
  \A l \in Level :
    At(l, "check") /\ length < 5 /\ HitsItself /\ (l = "main" => spoiled = "no")
      => reversed[l]

\* A single key cannot turn the snake back on itself; two keys between two
\* moves can.
ReversalNeedsTwoKeys ==
  [][pc["main"] = "turn" /\ pc'["main"] = "check" /\ heading["main"] # "none"
       /\ reversed'["main"] => turns >= 2]_vars

\* The game in the handler, once over, has ended main's game too: main never
\* moves a snake on that it did not lay out.
SecondGameEndsFirst ==
  [][pc["main"] = "loop" /\ pc'["main"] = "shift" => spoiled # "play"]_vars

\* Keys go to a game only as long as some game is being played.
KeysGoToAGame ==
  mode = "snake" => pc["handler"] # "idle" \/ pc["main"] \notin {"start", "done"}

\* The handler returns: without keys the snake runs into a wall.
HandlerReturns == pc["handler"] # "idle" ~> pc["handler"] = "idle"
=============================================================================
