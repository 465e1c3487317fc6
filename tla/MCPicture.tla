------------------------------ MODULE MCPicture ------------------------------
(* Small pictures for Picture: flat colours, slopes, edges, single points.  *)
EXTENDS Picture

MCSizes  == { <<16, 16>>, <<16, 32>> }
OddSizes == { <<8, 8>> }

White  == <<255, 255, 255>>
Black  == <<0, 0, 0>>
Flats  == { White, Black, <<255, 0, 0>>, <<0, 0, 255>>, <<90, 160, 30>> }

MCPictures(w, h) ==
    LET P(F(_, _)) == [y \in 0 .. h - 1 |-> [x \in 0 .. w - 1 |-> F(y, x)]]
    IN  { P(LAMBDA y, x : f) : f \in Flats } \cup
        { P(LAMBDA y, x : IF (x + y) % 2 = 0 THEN White ELSE Black),
          P(LAMBDA y, x : IF x < 3 THEN White ELSE Black),
          P(LAMBDA y, x : IF y = 5 /\ x = 9 THEN White ELSE Black),
          P(LAMBDA y, x : <<16 * x, 16 * x, 16 * x>>),
          P(LAMBDA y, x : <<15 * x, 7 * y, (x * y) % 256>>) }

MCQualities == {0, 50, 100}
=============================================================================
