-------------------------- MODULE MCImagePipeline --------------------------
(***************************************************************************)
(* Pictures and policies for ImagePipeline, with the program's own limits  *)
(* or small ones.  TLC's integers cut U32_MAX to 2^31 - 1.                 *)
(***************************************************************************)
EXTENDS ImagePipeline

Modes == {"contain", "cover", "stretch"}
AutoText(pairs) == <<"auto">> \o pairs

\* Every shape of policy around the sides of SmallSides, and texts that are
\* wrong, repeat a key or change the order of the keys.
SmallTexts ==
    {<<"none">>, <<"bogus">>}
      \cup {<<"cap", m>> : m \in {0, 1, 4, 7, 61, NaN}}
      \cup {AutoText(<<<<"portrait", p>>, <<"landscape", l>>>>) : p \in {3, 8}, l \in {0, 5}}
      \cup {AutoText(<<<<"landscape", 6>>, <<"portrait", 3>>>>),
            AutoText(<<<<"portrait", 3>>, <<"landscape", 6>>, <<"portrait", 8>>>>),
            AutoText(<<<<"portrait", NaN>>, <<"portrait", 8>>, <<"landscape", 6>>>>),
            AutoText(<<<<"portrait", 3>>>>), AutoText(<<<<"square", 3>>>>)}
      \cup {<<"fit", m, n>> : m \in Modes, n \in {1, 4, 9}}
      \cup {<<"fit", "cover", 10>>, <<"fit", "pad", 4>>}

SmallDefault == PortraitLandscape(5, 7)
SmallSides == 1 .. 12

\* The v0 baseline and the ends of the accepted ranges.
RealTexts ==
    {<<"none">>, <<"cap", 1000>>}
      \cup {<<"fit", m, n>> : m \in Modes, n \in {1, 1000, 16384, 20000}}

RealDefault == PortraitLandscape(800, 1000)
RealSides == {1, 2000, 3000, 16383, 16384, 16385}
=============================================================================
