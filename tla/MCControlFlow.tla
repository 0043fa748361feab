---------------------------- MODULE MCControlFlow ----------------------------
(***************************************************************************)
(* Programs of five paragraphs: the fourth is an EXIT that ranges end at,  *)
(* the fifth ends the program.                                             *)
(***************************************************************************)
EXTENDS ControlFlow

Lists(first, second) == {<<>>} \cup {<<s>> : s \in first} \cup (first \X second)

\* What the first three paragraphs are made of.
Main == Lists({Act(11), GoTo(4), Perform(2, 2), Perform(3, 4), Inline(<<Act(15), InlineUntil(10, <<Act(9)>>)>>),
               InlineUntil(14, <<Perform(2, 4)>>), If(17, <<Perform(2, 4)>>, <<Stop>>),
               If(18, <<GoTo(5)>>, <<Act(19), GoTo(3)>>)},
              {Accept(12), Perform(2, 4), Until(13, 2, 3), If(16, <<GoTo(3)>>, <<>>)})
Work == Lists({If(22, <<GoTo(4)>>, <<>>), If(23, <<Act(24)>>, <<Act(25), GoTo(4)>>),
               If(26, <<If(27, <<GoTo(3)>>, <<>>), Act(28)>>, <<Inline(<<Act(29)>>)>>),
               Perform(3, 3), Accept(20)},
              {Act(21), GoTo(4)})
More == Lists({Act(31), If(32, <<GoTo(4)>>, <<Stop>>), Accept(36), Until(37, 4, 4),
               If(33, <<Act(34)>>, <<If(35, <<GoTo(5)>>, <<>>)>>)}, {})

Five == {<<m, w, r, <<Exit>>, <<Act(51), Stop>>>> : m \in Main, w \in Work, r \in More}

\* A program that ends by reaching the end of its last paragraph.
FallsOff == {<<<<InlineUntil(1, <<Act(2)>>), Act(3)>>>>}

\* A range left early on either side of an IF.
ExitsTwice == {<<<<Perform(2, 3), Stop>>, <<If(1, <<GoTo(3)>>, <<GoTo(3)>>)>>, <<Exit>>>>}
=============================================================================
