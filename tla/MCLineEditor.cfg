CONSTANTS
  Width = 3
  Height = 2
  LineMax = 4
  HistMax = 2
  Letters <- MCLetters
  Prompt <- MCPrompt
SPECIFICATION LineSpec
INVARIANTS HistorySound WhatYouSee
PROPERTY WalksTheLog
VIEW Visible
