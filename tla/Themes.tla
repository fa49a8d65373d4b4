------------------------------- MODULE Themes -------------------------------
(***************************************************************************)
(* Colors.  The application's theme (core/src/theme.rs, bridge/theme.rs)   *)
(* is computed from the user's settings and the system's; a terminal's     *)
(* theme (core/src/terminal/theme.rs, import.rs) comes from a file of one  *)
(* of six formats, is saved, edited and exported; the text of a terminal   *)
(* cell (term/src/palette.rs) is moved to a minimum contrast.              *)
(*                                                                         *)
(* A color is one of the 16 grays #000000, #111111 ... #FFFFFF with its    *)
(* WCAG luminance; contrast ratios are in tenths.  The 8 normal and the 8  *)
(* bright colors of a terminal are one color each, the yellow.             *)
(***************************************************************************)
EXTENDS Integers, Sequences, FiniteSetsExt

CONSTANTS
    Unset,     \* a file that does not give a color
    Accents,   \* the accents the user may choose
    RawFiles   \* the theme files somebody may import

VARIABLES
    subject,  \* which of the three parts this behavior is about
    inputs, app,           \* ThemeRust: its inputs, its palette
    file, theme, first,    \* a theme's file, its colors here, the colors it came with
    cell                   \* a cell's text, its background, what is drawn

themeVars == <<subject, inputs, app, file, theme, first, cell>>

Colors == 0..15
Black == 0
White == 15

\* Rgba::relative_luminance, Rgb::luminance (in 1/10000)
Luminance(c) == <<0, 56, 160, 331, 578, 908, 1329, 1845, 2462, 3185, 4020, 4969, 6038,
                  7231, 8550, 10000>>[c + 1]

\* contrast_ratio(a, b) >= ratio / 10
Reaches(a, b, ratio) ==
    10 * (Max({Luminance(a), Luminance(b)}) + 500)
        >= ratio * (Min({Luminance(a), Luminance(b)}) + 500)

\* contrast_ratio(a, on) >= contrast_ratio(b, on)
Better(a, b, on) ==
    LET hi(c) == Max({Luminance(c), Luminance(on)}) + 500
        lo(c) == Min({Luminance(c), Luminance(on)}) + 500
    IN hi(a) * lo(b) >= hi(b) * lo(a)

\* Rgba::mix and Rgb::mix by n/d, rounded.
Mix(a, b, n, d) == (2 * (a * (d - n) + b * n) + d) \div (2 * d)

AATEXT == 45
AAUI == 30
AAATEXT == 70
InkDark == 1

-----------------------------------------------------------------------------
\* The application's theme.

\* dark_base, light_base, dark_high_contrast, light_high_contrast
Base(dark, high) ==
    CASE dark /\ ~high ->
           [bg |-> 1, surface |-> 1, surface2 |-> 2, border |-> 3, strong |-> 3, text |-> 14,
            muted |-> 10, accent |-> 11, status |-> {9, 10, 11, 12}, selection |-> 5]
      [] ~dark /\ ~high ->
           [bg |-> 14, surface |-> 15, surface2 |-> 14, border |-> 13, strong |-> 13,
            text |-> 2, muted |-> 6, accent |-> 8, status |-> {6, 7, 8}, selection |-> 4]
      [] dark /\ high ->
           [bg |-> 0, surface |-> 1, surface2 |-> 1, border |-> 6, strong |-> 9, text |-> 15,
            muted |-> 12, accent |-> 11, status |-> {9, 10, 11, 12}, selection |-> 6]
      [] ~dark /\ high ->
           [bg |-> 15, surface |-> 15, surface2 |-> 14, border |-> 7, strong |-> 5, text |-> 0,
            muted |-> 3, accent |-> 8, status |-> {6, 7, 8}, selection |-> 5]

\* best_text_on
BestTextOn(fill) ==
    LET better(a, b) == IF Better(a, b, fill) THEN a ELSE b
        ink == better(InkDark, White)
    IN IF Reaches(ink, fill, AATEXT) THEN ink ELSE better(Black, White)

\* ensure_contrast: the first of 40 steps towards the target, or the target.
EnsureContrast(color, target, against, ratio) ==
    LET good(k) == \A bg \in against : Reaches(Mix(color, target, k, 40), bg, ratio)
        steps == {k \in 0..40 : good(k)}
    IN IF steps = {} THEN target ELSE Mix(color, target, Min(steps), 40)

\* readable_on_composite: on the fill moved one unit towards the ink.
ReadableOnComposite(ink, fill, ratio) ==
    LET worst == IF Luminance(ink) > Luminance(fill) THEN Min({15, fill + 1})
                 ELSE Max({0, fill - 1})
    IN Reaches(ink, worst, ratio)

\* Rgba::over with alpha in fifteenths.
Over(color, alpha, surface) == Mix(surface, color, alpha, 15)

Surfaces(p) == {p.bg, p.surface, p.surface2}

\* selection_alpha: the strongest tint every ink stays readable on.
SelectionAlpha(p, fg, muted) ==
    LET fits(alpha) == \A s \in Surfaces(p) :
            /\ ReadableOnComposite(p.text, Over(p.accent, alpha, s), AATEXT)
            /\ ReadableOnComposite(muted, Over(p.accent, alpha, s), AATEXT)
            /\ ReadableOnComposite(fg, Over(p.accent, alpha, s), AAUI)
    IN Max({0} \cup {alpha \in 0..p.selection : fits(alpha)})

\* ThemeMode::resolve, Contrast::resolve
IsDark(in) == in.mode = "dark" \/ (in.mode = "system" /\ in.systemDark)
IsHigh(in) == in.contrast = "high" \/ (in.contrast = "system" /\ in.systemHigh)

\* resolve (the sizes of metrics() left out)
Resolve(in) ==
    LET high == IsHigh(in)
        base == Base(IsDark(in), high)
        p == [base EXCEPT !.accent = IF in.accent = Unset THEN @ ELSE in.accent]
        textRatio == IF high THEN AAATEXT ELSE AATEXT
        uiRatio == IF high THEN AATEXT ELSE AAUI
        fg == EnsureContrast(p.accent, p.text, Surfaces(p), textRatio)
        muted == IF high THEN EnsureContrast(p.muted, p.text, Surfaces(p), AAATEXT) ELSE p.muted
    IN [base |-> p, high |-> high, accentText |-> BestTextOn(p.accent), accentFg |-> fg,
        muted |-> muted, alpha |-> SelectionAlpha(p, fg, muted),
        strong |-> EnsureContrast(IF high THEN p.strong ELSE p.border, p.text,
                                  {p.surface, p.surface2}, uiRatio),
        status |-> {EnsureContrast(s, p.text, Surfaces(p), uiRatio) : s \in p.status}]

\* tab_colors: on the plain bases, whatever the contrast.
TabColors(dark) ==
    LET base == Base(dark, FALSE)
    IN {EnsureContrast(c, base.text, Surfaces(base), AAUI) : c \in IF dark THEN {9, 10, 11, 12}
                                                                  ELSE {5, 6, 7, 8}}

\* The setters of bridge/theme.rs: replace, and recompute when it changed.
SetInput(k, v) ==
    /\ subject = "app" /\ inputs[k] # v
    /\ inputs' = [inputs EXCEPT ![k] = v]
    /\ app' = Resolve(inputs')
    /\ UNCHANGED <<subject, file, theme, first, cell>>

-----------------------------------------------------------------------------
\* Terminal themes.

Slots == {"fg", "bg", "cursor", "cursorText", "selBg", "selFg", "matchBg", "matchFg",
          "focusBg", "focusFg", "normal", "bright"}
NoColors == [s \in Slots |-> Unset]

Or(c, d) == IF c = Unset THEN d ELSE c

\* PartialColors::complete: the text color and the background must be there.
Complete(p) ==
    LET dark == Luminance(p.bg) < Luminance(p.fg)
        normal == Or(p.normal, IF dark THEN 12 ELSE 6)
        readable(preferred, on) ==
            IF Reaches(preferred, on, AATEXT) THEN preferred
            ELSE IF Better(p.fg, p.bg, on) THEN p.fg ELSE p.bg
        matchBg == Or(p.matchBg, Mix(p.bg, normal, 35, 100))
        focusBg == Or(p.focusBg, normal)
    IN IF Unset \in {p.fg, p.bg} THEN Unset
       ELSE [fg |-> p.fg, bg |-> p.bg, cursor |-> Or(p.cursor, p.fg),
             cursorText |-> Or(p.cursorText, p.bg),
             selBg |-> Or(p.selBg, Mix(p.bg, p.fg, 22, 100)), selFg |-> p.selFg,
             matchBg |-> matchBg, matchFg |-> Or(p.matchFg, readable(p.fg, matchBg)),
             focusBg |-> focusBg, focusFg |-> Or(p.focusFg, readable(p.bg, focusBg)),
             normal |-> normal, bright |-> Or(p.bright, normal)]

\* The colors each format's file can hold (a value that is not a color, or
\* Alacritty's and kitty's words for "the cell's own", count as not given).
Given(slots, f) == [s \in Slots |-> IF s \in slots THEN f.colors[s] ELSE Unset]
Shared == {"fg", "bg", "cursor", "cursorText", "selBg", "selFg", "normal", "bright"}

FromTomlStr(f) == Given(Slots, f)
Alacritty(f) == Given(Slots, f)
Iterm2(f) == Given(Shared, f)
WindowsTerminal(f) == Given(Shared \ {"cursorText", "selFg"}, f)

\* kitty: its own defaults for a file that leaves them out.
Kitty(f) == [Given(Shared, f) EXCEPT !.fg = Or(@, 13), !.bg = Or(@, Black)]

\* base16: the base16-shell mapping.
Base16(f) ==
    LET p == Given({"fg", "bg", "selBg", "normal"}, f)
    IN [p EXCEPT !.cursor = p.fg, !.cursorText = p.bg, !.selFg = p.fg, !.bright = p.normal]

\* Format::detect: by the file's extension, else by what the text looks like;
\* both TOML flavors by their colors table.
TomlFlavor(f) ==
    IF f.flavor # "alacritty" /\ f.colors.fg # Unset THEN "opensesh" ELSE "alacritty"

Detect(f) ==
    CASE f.ext = "itermcolors" -> "iterm2"
      [] f.ext = "json" -> "windows"
      [] f.ext = "conf" -> "kitty"
      [] f.ext = "yaml" -> "base16"
      [] f.ext = "toml" -> TomlFlavor(f)
      [] f.ext = "none" -> IF f.flavor \in {"opensesh", "alacritty"} THEN TomlFlavor(f)
                           ELSE f.flavor

\* import_text: what the file gives, completed.  A file of another format read
\* as this one gives no color at all.
ImportText(f) ==
    LET format == Detect(f)
        read == IF f.flavor = format THEN f ELSE [f EXCEPT !.colors = NoColors]
        p == CASE format = "opensesh" -> FromTomlStr(read)
               [] format = "alacritty" -> Alacritty(read)
               [] format = "iterm2" -> Iterm2(read)
               [] format = "windows" -> WindowsTerminal(read)
               [] format = "kitty" -> Kitty(read)
               [] format = "base16" -> Base16(read)
    IN IF Unset \in {p.fg, p.bg} THEN Unset ELSE Complete(p)

\* to_alacritty ("CellForeground" for no color of selected text) and
\* TerminalTheme::to_toml_string (no key for it).
ToAlacritty(colors) == colors
ToToml(colors) == colors

\* import_theme; a file without its text or background color is refused.
Import ==
    /\ subject = "terminal" /\ theme = Unset
    /\ ImportText(file) # Unset
    /\ theme' = ImportText(file)
    /\ first' = theme'
    /\ UNCHANGED <<subject, inputs, app, file, cell>>

\* export_theme, to a file of the extension the user types.
Export(format, ext) ==
    /\ subject = "terminal" /\ theme # Unset
    /\ file' = [ext |-> ext, flavor |-> format,
                colors |-> IF format = "alacritty" THEN ToAlacritty(theme) ELSE ToToml(theme)]
    /\ UNCHANGED <<subject, inputs, app, theme, first, cell>>

\* The exported file is imported again, in place of the theme.
ImportBack ==
    /\ subject = "terminal" /\ theme # Unset
    /\ file.flavor = "alacritty" \/ file.flavor = "opensesh"
    /\ file.ext \in {"toml", "none"} /\ file.colors.cursor # Unset
    /\ theme' = ImportText(file)
    /\ UNCHANGED <<subject, inputs, app, file, first, cell>>

\* save_theme of what colors_json gave the editor (colors_from_json), then the
\* file is loaded again (TerminalTheme::from_toml_str).
SaveAndLoad ==
    /\ subject = "terminal" /\ theme # Unset
    /\ theme' = Complete(ToToml(theme))
    /\ UNCHANGED <<subject, inputs, app, file, first, cell>>

-----------------------------------------------------------------------------
\* Mutant: the last step that was too little is used.
BisectLow(fg, bg, target, minimum) ==
    LET good == {k \in 0..64 : Reaches(Mix(fg, target, k, 64), bg, minimum)}
    IN Mix(fg, target, Max({0} \cup {Min(good) - 1}), 64)

\* The bisection of with_contrast: the least step towards the target that
\* reaches the minimum.
Bisect(fg, bg, target, minimum) ==
    LET good == {k \in 0..64 : Reaches(Mix(fg, target, k, 64), bg, minimum)}
    IN Mix(fg, target, Min(good), 64)

\* Rgb::with_contrast
WithContrast(fg, bg, minimum) ==
    LET white == Reaches(White, bg, minimum)
        black == Reaches(Black, bg, minimum)
    IN CASE Reaches(fg, bg, minimum) -> fg
         [] ~Reaches(fg, bg, minimum) /\ white /\ (~black \/ Luminance(fg) >= Luminance(bg)) ->
              Bisect(fg, bg, White, minimum)
         [] ~Reaches(fg, bg, minimum) /\ black /\ ~(white /\ Luminance(fg) >= Luminance(bg)) ->
              Bisect(fg, bg, Black, minimum)
         [] OTHER -> IF Better(White, Black, bg) THEN White ELSE Black

\* ColorTable::foreground and the snapshot's minimum contrast: the cell's text
\* is drawn again when a program or the profile changes its colors.
Draw(k, v) ==
    /\ subject = "cell" /\ cell[k] # v
    /\ LET c == [cell EXCEPT ![k] = v]
       IN cell' = [c EXCEPT !.drawn = WithContrast(c.fg, c.bg, c.minimum)]
    /\ UNCHANGED <<subject, inputs, app, file, theme, first>>

-----------------------------------------------------------------------------
\* ThemeRust::default
HInputs == [mode |-> "system", systemDark |-> TRUE, accent |-> Unset, contrast |-> "system",
            systemHigh |-> FALSE]

HInit ==
    /\ subject \in {"app", "terminal", "cell"}
    /\ inputs = HInputs /\ app = Resolve(HInputs)
    /\ file \in IF subject = "terminal" THEN RawFiles ELSE {Unset}
    /\ theme = Unset /\ first = Unset
    /\ cell = [fg |-> 14, bg |-> 1, minimum |-> 10, drawn |-> 14]

HNext ==
    \/ \E v \in {"system", "dark", "light"} : SetInput("mode", v)
    \/ \E v \in {"system", "high", "standard"} : SetInput("contrast", v)
    \/ \E v \in BOOLEAN : SetInput("systemDark", v) \/ SetInput("systemHigh", v)
    \/ \E v \in Accents \cup {Unset} : SetInput("accent", v)
    \/ Import \/ ImportBack \/ SaveAndLoad
    \/ \E ext \in {"toml", "none"}, format \in {"opensesh", "alacritty"} : Export(format, ext)
    \/ \E c \in Colors : Draw("fg", c) \/ Draw("bg", c)
    \/ \E minimum \in {10, 30, 45, 70, 210} : Draw("minimum", minimum)

HSpec == HInit /\ [][HNext]_themeVars

-----------------------------------------------------------------------------
(***************************************************************************)
(* The contrast rules at the head of core/src/theme.rs, for every accent,  *)
(* scheme and contrast: accent text reads on the surfaces, text reads on   *)
(* the accent and on a selected row wherever it is drawn, indicators show  *)
(* on the surfaces; and a terminal cell with a minimum contrast reaches it *)
(* whenever black or white would.                                          *)
(***************************************************************************)
Readable ==
    LET p == app.base
        textRatio == IF app.high THEN AAATEXT ELSE AATEXT
        uiRatio == IF app.high THEN AATEXT ELSE AAUI
    IN /\ \A s \in Surfaces(p) :
            /\ \A ink \in {p.text, app.muted, app.accentFg} : Reaches(ink, s, textRatio)
            /\ \A c \in app.status : Reaches(c, s, uiRatio)
            /\ LET row == Over(p.accent, app.alpha, s) IN
               /\ Reaches(p.text, row, AATEXT) /\ Reaches(app.muted, row, AATEXT)
               /\ Reaches(app.accentFg, row, AAUI)
       /\ Reaches(app.accentText, p.accent, AATEXT)
       /\ \A c \in TabColors(IsDark(inputs)) : \A s \in Surfaces(p) : Reaches(c, s, AAUI)
       /\ \A s \in {p.surface, p.surface2} : Reaches(app.strong, s, uiRatio)
       /\ \/ Reaches(cell.drawn, cell.bg, cell.minimum)
          \/ ~Reaches(White, cell.bg, cell.minimum) /\ ~Reaches(Black, cell.bg, cell.minimum)

(***************************************************************************)
(* A terminal theme keeps its colors: however often it is edited, saved    *)
(* and loaded, exported in either format and imported back, it is the      *)
(* theme it was when its first file, of whatever format, was completed.    *)
(***************************************************************************)
ThemeTravels == theme = first
=============================================================================
