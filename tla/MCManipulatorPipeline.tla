----------------------- MODULE MCManipulatorPipeline -----------------------
EXTENDS ManipulatorPipeline

MCModifierFlagsOf == ("shift" :> <<"left_shift", "right_shift">>)

OneKeyboard == {1} \X {"a", "b", "left_shift"}
TwoKeyboards == OneKeyboard \cup {<<2, "a">>}
SplitKeyboards == {<<1, "a">>, <<1, "b">>, <<2, "left_shift">>}

A == <<"a">>
AB == <<"a", "b">>
X == <<To(Key("x"))>>
Y == <<To(Key("y"))>>
Shift == <<To(Key("left_shift"))>>
ShiftX == <<[To(Key("x")) EXCEPT !.modifiers = <<"left_shift">>]>>

\* A modifier when held, another key when alone.
Alone == [Rule(A, Shift) EXCEPT !.optional = {any}, !.to_if_alone = Y]

\* shift+a with events after it.
Mandatory ==
    [Rule(A, X) EXCEPT !.mandatory = {"shift"}, !.to_after_key_up = ShiftX]

\* a and b at once.
Simultaneous == [Rule(AB, X) EXCEPT !.optional = {any}]
SimultaneousAll ==
    [Rule(AB, X) EXCEPT !.options.key_up_when = "all", !.options.to_after_key_up = Y,
                        !.options.key_down_order = "strict"]
SimultaneousOrder ==
    [Rule(AB, X) EXCEPT !.options.key_up_order = "strict_inverse",
                        !.options.detect_key_down_uninterruptedly = TRUE]

\* Other events when held down.
Held == [Rule(A, X) EXCEPT !.mandatory = {"shift"}, !.to_if_held_down = Y]

\* A second press soon after the first.
Variable(value) == Condition("variable", TRUE, [name |-> "v", value |-> value])
SecondPress == [Rule(A, X) EXCEPT !.conditions = {Variable(1)}]
FirstPress ==
    [Rule(A, <<To(SetVariable("v", 1, Unset))>>)
     EXCEPT !.to_if_invoked = <<To(SetVariable("v", Unset, Unset)), To(Key("y"))>>,
            !.to_if_canceled = <<To(SetVariable("v", Unset, Unset))>>]

\* Another key while a is down.
Other ==
    [Rule(A, X) EXCEPT !.to_if_other_key_pressed =
        <<[other_keys |-> <<[from |-> <<"b">>, mandatory |-> {}, optional |-> {any}]>>,
           to |-> Shift]>>]

\* A manager that maps the events of the one before.
Later == [Rule(<<"x">>, Y) EXCEPT !.optional = {any},
                                  !.conditions = {Condition("event_changed", TRUE, TRUE)}]

Rules1 == {<<<<Alone>>>>, <<<<Mandatory>>>>, <<<<Held>>>>, <<<<SecondPress, FirstPress>>>>,
           <<<<Other>>>>}
Rules2 == {<<<<Simultaneous>>, <<Later>>>>, <<<<SimultaneousAll>>, <<>>>>,
           <<<<SimultaneousOrder>>, <<Later>>>>}
TwiceConfigurations == {<<<<SimultaneousAll>>, <<>>>>}
MCConfigurations == Rules1 \cup Rules2
=============================================================================
