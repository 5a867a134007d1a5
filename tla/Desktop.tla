-------------------------------- MODULE Desktop --------------------------------
(* What the window keeps from one run of the program to the next: the          *)
(* favourites and their file, the settings and their INI file, and the tray    *)
(* icon that stands for the window while it is hidden. The program can crash   *)
(* while it writes.                                                            *)
EXTENDS Integers, SequencesExt

CONSTANTS Ids,       \* channel names
          Players,   \* values of the player's path
          MaxFavs,   \* bound: favourites in the list
          MaxRuns    \* bound: starts of the program

\* A name as the program sees it: byte order marks in front of the visible part.
Plain(n) == [marks |-> 0, id |-> n]
NoFile == [bom |-> FALSE, lines |-> << >>]

\* What a crash in the middle of a line leaves of a name.
Torn == "torn"

VARIABLES
  favorites,  \* g_favorites; the list box shows the same
  box,        \* the text box of the active tab
  file,       \* favorites.txt
  unwritten,  \* lines SaveFavoritesToFile has still to write
  saving,     \* it is at work
  given,      \* the visible names last handed to it
  whole,      \* it came to its end
  settings,   \* g_playerPath and g_minimizeToTray
  ini,        \* Tardsplaya.ini
  dialog,     \* << >>, or the values in the settings dialog
  hidden,     \* the window is hidden
  made,       \* g_trayIconCreated
  icon,       \* the icon is in the task bar
  refused,    \* the shell refused or lost the icon of this hiding
  running, runs

favs == << favorites, box, file, unwritten, saving, given, whole >>
prefs == << settings, ini, dialog >>
tray == << hidden, made, icon, refused >>
vars == << favs, prefs, tray, running, runs >>

\* The window takes a command: no dialog is open, no handler is at work.
Ready == running /\ ~hidden /\ dialog = << >> /\ ~saving

(* ------------------------------ favourites ------------------------------- *)

Visible(list) == FoldLeft(LAMBDA s, x : IF x.id # "" THEN Append(s, x.id) ELSE s, << >>, list)

\* SaveFavoritesToFile: the file is emptied, gets a mark, then line by line. That
\* it could not be opened is noticed by nobody.
SaveFavorites(list) ==
  /\ favorites' = list
  /\ \/ /\ file' = NoFile /\ unwritten' = list /\ saving' = TRUE
        /\ given' = Visible(list) /\ whole' = FALSE
     \/ UNCHANGED << file, unwritten, saving, given, whole >>

WriteBom ==
  /\ running /\ saving /\ ~file.bom
  /\ file' = [file EXCEPT !.bom = TRUE]
  /\ UNCHANGED << favorites, box, unwritten, saving, given, whole, prefs, tray, running, runs >>

WriteLine ==
  /\ running /\ saving /\ file.bom /\ unwritten # << >>
  /\ file' = [file EXCEPT !.lines = Append(@, Head(unwritten))]
  /\ unwritten' = Tail(unwritten)
  /\ UNCHANGED << favorites, box, saving, given, whole, prefs, tray, running, runs >>

CloseFile ==
  /\ running /\ saving /\ file.bom /\ unwritten = << >>
  /\ saving' = FALSE /\ whole' = TRUE
  /\ UNCHANGED << favorites, box, file, unwritten, given, prefs, tray, running, runs >>

\* Mutant: the first line is taken for the mark alone.
LoadFavoritesFromFileDropping(f) == IF f.lines = << >> THEN << >> ELSE Tail(f.lines)

\* LoadFavoritesFromFile: the mark becomes part of the first line, and a line of
\* its own if there is none.
LoadFavoritesFromFile(f) ==
  CASE ~f.bom -> << >>
    [] f.bom /\ f.lines = << >> -> << [marks |-> 1, id |-> ""] >>
    [] OTHER -> [f.lines EXCEPT ![1].marks = @ + 1]

TypeName(n) ==
  /\ Ready /\ box' = Plain(n)
  /\ UNCHANGED << favorites, file, unwritten, saving, given, whole, prefs, tray, running, runs >>

\* OnFavoriteDoubleClick, for a click as well.
OnFavoriteDoubleClick(i) ==
  /\ Ready /\ i \in DOMAIN favorites /\ box' = favorites[i]
  /\ UNCHANGED << favorites, file, unwritten, saving, given, whole, prefs, tray, running, runs >>

AddFavorite ==
  /\ Ready /\ box # Plain("") /\ ~Contains(favorites, box) /\ Len(favorites) < MaxFavs
  /\ SaveFavorites(Append(favorites, box))
  /\ UNCHANGED << box, prefs, tray, running, runs >>

\* Mutant: the list changes, the file does not.
DeleteFavoriteUnsaved(i) ==
  /\ Ready /\ i \in DOMAIN favorites
  /\ favorites' = RemoveAt(favorites, i)
  /\ given' = Visible(RemoveAt(favorites, i))
  /\ UNCHANGED << box, file, unwritten, saving, whole, prefs, tray, running, runs >>

DeleteFavorite(i) ==
  /\ Ready /\ i \in DOMAIN favorites
  /\ SaveFavorites(RemoveAt(favorites, i))
  /\ UNCHANGED << box, prefs, tray, running, runs >>

(* ------------------------------- settings -------------------------------- *)

ShowSettingsDialog ==
  /\ Ready /\ dialog' = << settings >>
  /\ UNCHANGED << favs, settings, ini, tray, running, runs >>

EditDialog(v) ==
  /\ running /\ dialog # << >> /\ dialog' = << v >>
  /\ UNCHANGED << favs, settings, ini, tray, running, runs >>

\* IDOK: SaveSettings writes what the dialog held.
ConfirmSettings ==
  /\ running /\ dialog # << >>
  /\ settings' = dialog[1] /\ ini' = dialog[1] /\ dialog' = << >>
  /\ UNCHANGED << favs, tray, running, runs >>

CancelSettings ==
  /\ running /\ dialog # << >> /\ dialog' = << >>
  /\ UNCHANGED << favs, settings, ini, tray, running, runs >>

(* --------------------------------- tray ---------------------------------- *)

\* CreateTrayIcon believes in its flag, not in what the shell answers.
CreateTrayIcon ==
  IF made THEN UNCHANGED << made, icon, refused >>
  ELSE made' = TRUE /\ icon' \in BOOLEAN /\ refused' = ~icon'

\* WM_SIZE and WM_SYSCOMMAND, if the settings say so.
Minimize ==
  /\ Ready /\ settings.tray
  /\ hidden' = TRUE /\ CreateTrayIcon
  /\ UNCHANGED << favs, prefs, running, runs >>

\* The task bar starts anew and nobody tells the program to put its icon back.
LoseIcon ==
  /\ icon /\ icon' = FALSE /\ refused' = TRUE
  /\ UNCHANGED << favs, prefs, hidden, made, running, runs >>

\* Mutant: the flag stays set.
ShowFromTrayFlagged ==
  /\ running /\ hidden /\ icon
  /\ hidden' = FALSE /\ icon' = FALSE
  /\ UNCHANGED << favs, prefs, made, refused, running, runs >>

\* ShowFromTray on a double click; RemoveTrayIcon.
ShowFromTray ==
  /\ running /\ hidden /\ icon
  /\ hidden' = FALSE /\ icon' = FALSE /\ made' = FALSE
  /\ UNCHANGED << favs, prefs, refused, running, runs >>

(* ------------------------------- the program ----------------------------- *)

\* WM_CLOSE and WM_DESTROY: the icon goes, the settings are saved.
Quit ==
  /\ Ready /\ running' = FALSE
  /\ icon' = FALSE /\ made' = FALSE /\ ini' = settings
  /\ UNCHANGED << favs, settings, dialog, hidden, refused, runs >>

Crash ==
  /\ running /\ running' = FALSE
  /\ saving' = FALSE /\ unwritten' = << >> /\ dialog' = << >> /\ icon' = FALSE
  /\ \/ UNCHANGED file
     \/ /\ saving /\ file.bom /\ unwritten # << >> /\ Head(unwritten).id # ""
        /\ file' = [file EXCEPT !.lines = Append(@, [Head(unwritten) EXCEPT !.id = Torn])]
  /\ UNCHANGED << favorites, box, given, whole, settings, ini, hidden, made, refused, runs >>

\* wWinMain: LoadSettings, LoadFavorites, an empty tab.
Start ==
  /\ ~running /\ runs < MaxRuns
  /\ running' = TRUE /\ runs' = runs + 1
  /\ favorites' = LoadFavoritesFromFile(file) /\ box' = Plain("")
  /\ settings' = ini /\ dialog' = << >>
  /\ hidden' = FALSE /\ made' = FALSE /\ icon' = FALSE /\ refused' = FALSE
  /\ UNCHANGED << file, unwritten, saving, given, whole, ini >>

Next ==
  \/ WriteBom \/ WriteLine \/ CloseFile \/ AddFavorite
  \/ \E n \in Ids : TypeName(n)
  \/ \E i \in DOMAIN favorites : OnFavoriteDoubleClick(i) \/ DeleteFavorite(i)
  \/ ShowSettingsDialog \/ ConfirmSettings \/ CancelSettings
  \/ \E v \in [player : Players, tray : BOOLEAN] : EditDialog(v)
  \/ Minimize \/ LoseIcon \/ ShowFromTray \/ Quit \/ Crash \/ Start

\* Neither file is there yet.
Init ==
  /\ favorites = << >> /\ box = Plain("") /\ file = NoFile /\ unwritten = << >>
  /\ saving = FALSE /\ given = << >> /\ whole = TRUE
  /\ settings \in [player : Players, tray : {FALSE}] /\ ini = settings /\ dialog = << >>
  /\ hidden = FALSE /\ made = FALSE /\ icon = FALSE /\ refused = FALSE
  /\ running = TRUE /\ runs = 1

Spec == Init /\ [][Next]_vars

(* ------------------------------ properties ------------------------------- *)

\* A start brings back the visible names of the last save that began, in order
\* and all of them if it ended; if a crash cut it short the first of them and at
\* most a piece of the next, however often the mark was read back as part of one.
FavoritesSurvive ==
  [][Start => LET back == Visible(favorites')
              IN  /\ whole => back = given
                  /\ Len(back) <= Len(given)
                  /\ \A i \in DOMAIN back :
                       back[i] = given[i] \/ (i = Len(back) /\ back[i] = Torn)]_vars

\* favorites.h says one channel name per line is loaded: the names, as the
\* program compares them, are those that were saved.
NamesUnmarked == \A i \in DOMAIN favorites : favorites[i].marks = 0 /\ favorites[i].id # ""

\* The hidden window can be got back: whenever it is hidden its icon is there,
\* unless the shell refused or lost that very icon.
WindowReachable == running /\ hidden /\ ~refused => icon /\ made
==============================================================================
