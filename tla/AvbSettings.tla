----------------------------- MODULE AvbSettings -----------------------------
(***************************************************************************)
(* The AVB interfaces: their configuration is kept by the AVB manager of    *)
(* the controller library, changed in the AVB window and kept in one file,  *)
(* which both programs load when they start.                                *)
(*                                                                          *)
(* The manager (AvbManager) is external: it keeps a point rate for every    *)
(* configured device and the banks with half-size output, and refuses to    *)
(* enable a device that is not connected.  A device has one bank.           *)
(***************************************************************************)
EXTENDS Integers, Sequences, FiniteSets

CONSTANTS
  Devices,        \* audio interfaces
  PointRates,     \* rates a device supports
  MaxAvbFaults    \* saves that fail

ASSUME AvbAssumption == PointRates \subseteq Nat \ {0} /\ PointRates # {}

VARIABLES
  rates,          \* AvbManager::configuredDevices(): a rate or Off for each device
  halfXY,         \* AvbManager::halfXYOutputControllers()
  connected,      \* devices the audio system has
  window,         \* AvbWindowState: open, the cached device list, and lastError
  program,        \* is the program running
  locked,         \* avbSettingsLocked
  file,           \* the settings file
  avbFaults

avbVars == <<rates, halfXY, connected, window, program, locked, file, avbFaults>>

Off == 0
AllOff == [d \in Devices |-> Off]
Contents(r, h) == [rates |-> r, halfXY |-> h, valid |-> TRUE]
EmptyFile == Contents(AllOff, {})            \* also a missing one
Damaged == [EmptyFile EXCEPT !.valid = FALSE] \* some line is not a setting
ClosedWindow == [open |-> FALSE, devices |-> {}, error |-> FALSE]

AvbInit ==
  /\ rates = AllOff /\ halfXY = {} /\ connected \in SUBSET Devices /\ window = ClosedWindow
  /\ program = FALSE /\ locked = FALSE /\ file \in {EmptyFile, Damaged} /\ avbFaults = 0

(* loadAvbSettings() takes every line or none; the file may be unreadable.  *)
LoadAvbSettings ==
  /\ ~program /\ program' = TRUE /\ UNCHANGED <<connected, locked, file>>
  /\ \/ /\ file.valid /\ rates' = file.rates /\ halfXY' = file.halfXY
        /\ window' = ClosedWindow /\ UNCHANGED avbFaults
     \/ /\ window' = [ClosedWindow EXCEPT !.error = TRUE] /\ UNCHANGED <<rates, halfXY>>
        /\ \/ ~file.valid /\ UNCHANGED avbFaults
           \/ file.valid /\ avbFaults < MaxAvbFaults /\ avbFaults' = avbFaults + 1

(* The program ends, or dies, perhaps while it writes the file.             *)
EndProgram ==
  /\ program /\ program' = FALSE /\ rates' = AllOff /\ halfXY' = {} /\ window' = ClosedWindow
  /\ locked' = FALSE
  /\ \/ file' = file /\ UNCHANGED avbFaults
     \/ avbFaults < MaxAvbFaults /\ avbFaults' = avbFaults + 1 /\ file' \in {EmptyFile, Damaged}
  /\ UNCHANGED connected

(* Mistake: a failed save is not reported.                                  *)
SaveAvbSettingsSilently(r, h, devices) ==
  \/ /\ file' = Contents(r, h) /\ UNCHANGED avbFaults
     /\ window' = [window EXCEPT !.error = FALSE, !.devices = devices]
  \/ /\ avbFaults < MaxAvbFaults /\ avbFaults' = avbFaults + 1
     /\ file' \in {file, EmptyFile, Damaged} /\ window' = [window EXCEPT !.error = FALSE, !.devices = devices]

(* saveSettings(): the file is truncated and written, and the error shown   *)
(* is that of this save; the next frame asks for the devices again.         *)
SaveAvbSettings(r, h, devices) ==
  \/ /\ file' = Contents(r, h) /\ UNCHANGED avbFaults
     /\ window' = [window EXCEPT !.error = FALSE, !.devices = devices]
  \/ /\ avbFaults < MaxAvbFaults /\ avbFaults' = avbFaults + 1
     /\ file' \in {file, EmptyFile, Damaged} /\ window' = [window EXCEPT !.error = TRUE, !.devices = devices]

ChangeAvb(r, h) ==
  /\ program /\ window.open /\ ~locked /\ rates' = r /\ halfXY' = h
  /\ SaveAvbSettings(r, h, connected) /\ UNCHANGED <<connected, program, locked>>

Refused ==
  /\ program /\ window.open /\ ~locked /\ window' = [window EXCEPT !.error = TRUE]
  /\ UNCHANGED <<rates, halfXY, connected, program, locked, file, avbFaults>>

OpenAvbWindow ==
  /\ program /\ ~window.open /\ window' = [window EXCEPT !.open = TRUE, !.devices = connected]
  /\ UNCHANGED <<rates, halfXY, connected, program, locked, file, avbFaults>>

CloseAvbWindow ==
  /\ window.open /\ window' = [window EXCEPT !.open = FALSE, !.devices = {}]
  /\ UNCHANGED <<rates, halfXY, connected, program, locked, file, avbFaults>>

(* Once a second, or when the user asks for it.                             *)
RefreshInterfaces ==
  /\ window.open /\ window' = [window EXCEPT !.devices = connected]
  /\ UNCHANGED <<rates, halfXY, connected, program, locked, file, avbFaults>>

(* A device that is listed may be gone.                                     *)
UseDevice(d) ==
  /\ d \in window.devices /\ rates[d] = Off
  /\ IF d \in connected THEN \E r \in PointRates : ChangeAvb([rates EXCEPT ![d] = r], halfXY) ELSE Refused

DropDevice(d) ==
  /\ d \in window.devices /\ rates[d] # Off /\ ChangeAvb([rates EXCEPT ![d] = Off], halfXY)

ChoosePointRate(d, r) ==
  /\ d \in window.devices /\ rates[d] # Off
  /\ IF d \in connected THEN ChangeAvb([rates EXCEPT ![d] = r], halfXY) ELSE Refused

HalfXYClicked(d) ==
  /\ d \in window.devices /\ rates[d] # Off
  /\ \/ ChangeAvb(rates, IF d \in halfXY THEN halfXY \ {d} ELSE halfXY \cup {d})
     \/ Refused

(* Only the interfaces that are configured and not listed can be forgotten. *)
ForgetInterface(d) ==
  /\ d \notin window.devices /\ rates[d] # Off /\ ChangeAvb([rates EXCEPT ![d] = Off], halfXY)

(* Below the disabled part of the window: works while settings are locked.  *)
RetrySave ==
  /\ program /\ window.open /\ window.error /\ SaveAvbSettings(rates, halfXY, connected)
  /\ UNCHANGED <<rates, halfXY, connected, program, locked>>

(* An interface is plugged in or out; a scan, start or stop begins or ends, *)
(* or an AVB controller is linked or not any more.                          *)
Plug(d) ==
  /\ connected' = IF d \in connected THEN connected \ {d} ELSE connected \cup {d}
  /\ UNCHANGED <<rates, halfXY, window, program, locked, file, avbFaults>>
Lock == program /\ locked' = ~locked /\ UNCHANGED <<rates, halfXY, connected, window, program, file, avbFaults>>

AvbNext ==
  \/ LoadAvbSettings \/ EndProgram \/ OpenAvbWindow \/ CloseAvbWindow \/ RefreshInterfaces \/ RetrySave \/ Lock
  \/ \E d \in Devices : UseDevice(d) \/ DropDevice(d) \/ HalfXYClicked(d) \/ ForgetInterface(d) \/ Plug(d)
  \/ \E d \in Devices, r \in PointRates : ChoosePointRate(d, r)

AvbSpec == AvbInit /\ [][AvbNext]_avbVars
------------------------------------------------------------------------------
(* While the window shows no error, the file holds the interfaces, rates    *)
(* and half-size banks as they are: "saved ... and restored by both"        *)
(* programs.  Whatever failed in between, to load or to save, the error is  *)
(* still there, or a later save has made up for it.                         *)
AvbErrorShown == program /\ ~window.error => file = Contents(rates, halfXY)
=============================================================================
