--------------------------- MODULE MCMessageStream ---------------------------
(* Messages for TLC, with bytes of two bits: the second has a garbage shorter  *)
(* than the room for it, the third fills its field and has no room for its     *)
(* garbage, the fourth has a word too long for a size of one byte, after one   *)
(* that fits.                                                                  *)
EXTENDS MessageStream, TLC

Short == [tag |-> 6, flags |-> <<1, 0, 0>>, name |-> [str |-> <<2, 3, 1>>, garbage |-> << >>],
          code |-> <<1, 2>>, marks |-> << >>, words |-> << >>, labels |-> (2 :> <<3>>),
          note |-> << >>]
Long == [tag |-> 1, flags |-> <<0, 0, 1>>, name |-> [str |-> << >>, garbage |-> <<0, 2>>],
         code |-> <<0, 0>>, marks |-> <<9>>, words |-> << <<1>>, << >> >>,
         labels |-> (1 :> <<2>>) @@ (2 :> << >>), note |-> <<2>>]
Cut == [Short EXCEPT !.name = [str |-> <<1, 2>>, garbage |-> <<1, 3>>], !.labels = << >>]
TooLong == [Long EXCEPT !.words = << <<1>>, <<2, 2, 2, 2>> >>]

Messages == {Short, Long, Cut, TooLong}
=============================================================================
