---------------------------- MODULE StatusDisplay ----------------------------
(***************************************************************************)
(* oled_task beside the supervisor: it asks for the status, composes four  *)
(* lines and draws them on the panel (ssd1306.cpp), over and over.  Its    *)
(* pauses are not timed, so the supervisor may do anything between two of  *)
(* its steps.  A query that fails changes nothing: a stuttering step.      *)
(*                                                                         *)
(* The panel is not part of the repository.  A command sets the row that   *)
(* data goes to.  Either transaction may fail; data may break off midway,  *)
(* and where the data after a command that was not heard begins is not     *)
(* known.  clear() leaves the window on row 7, which is not drawn again.   *)
(***************************************************************************)
EXTENDS StatusLines

CONSTANT KeptRow   \* the rows whose contents the model keeps

DrawnRow == {DrawOrder[i] : i \in DOMAIN DrawOrder}

ASSUME RowAssumption == KeptRow \subseteq DrawnRow

VARIABLES
  frame,     \* the lines of the render() under way, by row
  drawn,     \* how many of them drawText() has been through
  failed,    \* a transaction failed since the last query
  screen,    \* what each kept row shows
  window     \* the row the next data goes to

displayVars == <<frame, drawn, failed, screen, window>>
dvars == <<vars, displayVars>>

\* connect() succeeded; clear() blanked what it could reach.
DInit ==
  /\ Init
  /\ frame = [r \in DrawnRow |-> "Blank"] /\ drawn = Len(DrawOrder) /\ failed = TRUE
  /\ screen \in [KeptRow -> {"Blank", "Garbled"}] /\ window \in DrawnRow \cup {7}

-----------------------------------------------------------------------------
Query ==
  /\ drawn = Len(DrawOrder)
  /\ frame' = Lines /\ drawn' = 0 /\ failed' = FALSE
  /\ UNCHANGED <<screen, window>>

\* Writes to the row the window is on.
Shows(text) == screen' = [r \in KeptRow |-> IF r = window' THEN text ELSE screen[r]]

\* Mutant: the window is set for the first line only.
SetWindowOnce(row, heard) == window' = IF heard /\ row = 0 THEN row ELSE window

SetWindow(row, heard) == window' = IF heard THEN row ELSE window

\* drawText(): setWindow(), and writeData() whatever came of it.
DrawText ==
  \E heard, written \in BOOLEAN :
    /\ drawn < Len(DrawOrder)
    /\ drawn' = drawn + 1
    /\ failed' = (failed \/ ~heard \/ ~written)
    /\ SetWindow(DrawOrder[drawn + 1], heard)
    /\ \/ written /\ Shows(frame[DrawOrder[drawn + 1]])
       \/ ~written /\ UNCHANGED screen
       \/ ~(heard /\ written) /\ Shows("Garbled")
    /\ UNCHANGED frame

Display == (Query \/ DrawText) /\ UNCHANGED vars

DNext == Display \/ (Next /\ UNCHANGED displayVars)

DSpec == DInit /\ [][DNext]_dvars

\* The task keeps running, and a query is answered; of the supervisor and of
\* the panel nothing is assumed.
FairDSpec == DSpec /\ WF_dvars(Display)

-----------------------------------------------------------------------------
\* A frame whose transactions were all heard stands on the panel line by
\* line, whatever earlier frames left there and on whichever row they left
\* the window: drawText() asks for its row every time and fills it.
FrameFaithful ==
  drawn = Len(DrawOrder) /\ ~failed => \A r \in KeptRow : screen[r] = frame[r]

\* The strengthening it rests on: while a frame is drawn without a failure,
\* the lines behind it stand and no later one disturbs them.
DisplayInv ==
  /\ drawn \in 0 .. Len(DrawOrder)
  /\ screen = [r \in KeptRow |-> screen[r]]
  /\ ~failed => \A i \in 1 .. drawn :
                  DrawOrder[i] \in KeptRow => screen[DrawOrder[i]] = frame[DrawOrder[i]]

\* The top line settles on whether the vehicle is stopped, once that stays as
\* it is and the panel hears again: no failed transaction and no change in
\* the middle of a frame leaves it wrong for good.
TopLineSettles ==
  <>[]~failed =>
    /\ <>[](overrideActive \/ state = "SafeStop") => <>[](screen[0] = "VehicleStopped")
    /\ <>[]~(overrideActive \/ state = "SafeStop") => <>[](screen[0] = "VehicleMoving")
=============================================================================
