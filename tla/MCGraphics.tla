------------------------------ MODULE MCGraphics ------------------------------
(* Programs small enough to be checked together, each mixing the features    *)
(* whose recording meets.                                                    *)
EXTENDS Graphics

\* Settings and clips under captures, pattern cells within captures, and pages
\* ended over what they used.
MCPrograms ==
    {{"color", "clip", "page"}, {"color", "glyph"}, {"color", "save", "form"},
     {"width", "clip", "glyph"}, {"width", "clip", "form"}, {"width", "stroke", "pattern", "save"},
     {"over", "clip", "save", "image", "page"}, {"over", "pattern", "save"},
     {"adjust", "stroke", "save", "glyph"}, {"adjust", "stroke", "form", "pattern"},
     {"pattern", "form", "clip"}, {"pattern", "glyph", "save"}, {"ctm", "pattern", "form"},
     {"null", "save", "form", "pattern"}, {"clip", "initclip", "init", "form"},
     {"glyph", "measure", "clip", "page"}, {"form", "pattern", "page"}}

\* A glyph measured, then shown under another transformation.
MeasuringPrograms == {{"ctm", "pattern", "glyph", "measure"}}

\* A form executed where the transformation has no inverse.
SingularPrograms == {{"ctm", "pattern", "form", "clip"}}
===============================================================================
