------------------------------ MODULE MCMovePlan ------------------------------
(***************************************************************************)
(* The libraries of the runs of MovePlan.                                  *)
(***************************************************************************)
EXTENDS MovePlan

DirA == Name(<<"a">>)
Season == Name(<<"season">>)
Dirs == {<<>>, <<DirA>>, <<DirA, Season>>}
FilmNames == {Name(<<"x", "mkv">>), Name(<<"x", "mp4">>), Name(<<"x", "y", "mkv">>)}

Videos(t, ds, names) ==
    [dir: ds, name: names, of: {t}, season: {0}, offline: {FALSE}]
OneOf(S) == {{v} : v \in S}
TwoOf(S) == {{v, o} : v \in S, o \in S}
Apart(S) == \A v, o \in S : v # o => FileAt(v) # FileAt(o)

Sides == {{}, {Name(<<"x", "y", "srt">>)}, {Name(<<"x", "srt">>), Name(<<"x", "y", "srt">>)}}
Destinations ==
    {{}, {<<DirA>>, <<Name(<<"x", "mkv">>)>>},
     {<<Name(<<"x", "mp4">>)>>, <<Name(<<"x", "srt">>)>>}, {<<Numbered(DirA, TRUE, 2)>>, <<DirA>>}}

\* Two movies, one of them in one or two files, and perhaps a stray video.
FilmShelves ==
    {[videos |-> f \cup o \cup n, sides |-> {[dir |-> d, name |-> s] : s \in ss, d \in {v.dir : v \in f}},
      roots |-> {}, taken |-> to, there |-> {}, folder |-> [t \in {"film", "other"} |-> DirA]] :
        f \in TwoOf(Videos("film", Dirs, FilmNames)), o \in OneOf(Videos("other", Dirs, FilmNames \ {Name(<<"x", "mp4">>)})),
        n \in {{}} \cup OneOf(Videos(Nobody, {<<DirA, Season>>}, {Name(<<"x", "y", "mkv">>)})),
        ss \in Sides, to \in Destinations}

\* A show with two episodes, and a movie, a stray video or a library in it.
ShowShelves ==
    {[videos |-> e \cup o, sides |-> {}, roots |-> r, taken |-> to, there |-> th,
      folder |-> [t \in {"show", "other"} |-> DirA]] :
        e \in TwoOf([dir: Dirs \cup {<<Season>>}, name: {Name(<<"x", "mkv">>), Name(<<"y", "mkv">>)},
                         of: {"show"}, season: {0, 1}, offline: {FALSE}]),
        o \in OneOf(Videos("other", Dirs, {Name(<<"x", "mkv">>)}) \cup Videos(Nobody, {<<DirA>>}, FilmNames)),
        r \in {{}, {<<DirA, Season>>}}, to \in {{}, {<<DirA>>}}, th \in {{}}}

\* A title that is refused, next to one that is not.
Unmoved ==
    {[videos |-> {[v EXCEPT !.offline = gone]} \cup o, sides |-> {}, roots |-> {}, taken |-> {},
      there |-> IF gone THEN {} ELSE {"film"}, folder |-> [t \in {"film", "other"} |-> DirA]] :
        gone \in BOOLEAN, v \in Videos("film", Dirs, FilmNames), o \in OneOf(Videos("other", Dirs, FilmNames))}

\* Nothing to move.
Empty == [videos |-> {}, sides |-> {}, roots |-> {}, taken |-> {}, there |-> {}, folder |-> <<>>]

MCShelves ==
    {l \in FilmShelves \cup ShowShelves \cup Unmoved : Apart(l.videos)}

=============================================================================
