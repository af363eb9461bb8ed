---- MODULE MCSampleLoop ----
EXTENDS SampleLoop

CONSTANT Sessions      \* which of the sets of options below

O(f, H, n, T, E, fs) == [f |-> f, H |-> H, n |-> n, T |-> T, E |-> E, files |-> fs]

MCOptions ==
  CASE Sessions = "one" ->
         {O(f, <<>>, n, T, E, fs) : f \in {<<>>, <<2>>}, n \in {0, 5}, T \in {0, 2},
                                    E \in 0 .. 2, fs \in {<<>>, <<0>>, <<3>>, <<14>>}}
         \cup {O(f, H, 0, T, E, <<>>) : f \in {<<1, 2>>, <<2, 1, 1>>}, H \in {<<>>, <<1>>, <<3, 1>>},
                                       T \in {0, 3}, E \in {0, 2}}
    [] Sessions = "twice" -> {O(f, <<>>, 0, 0, 0, <<>>) : f \in {<<>>, <<1>>}}
====
