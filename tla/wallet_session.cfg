SPECIFICATION Spec
CONSTANTS
  Hex = 2
  CharBase = 3
  WordBase = 8
  WordCount = 2
  EntLen = 2
  PkhLen = 2
  CsLen = 1
  CsBase = 4
  EntCs <- MCEntCs
  PkhCs <- MCPkhCs
  PkhOf <- MCPkhOf
  Tabs = {t1, t2}
  Passwords = {pw1, pw2}
  Draws <- MCDraws
  Phrases <- MCPhrases
  NoWallet = NoWallet
SYMMETRY TabSymmetry
INVARIANTS
  TypeOK
  PhrasesRestore
  StoredIsWhole
  OpenWalletIsKeyed
  WalletsAreWrittenDown
  RecordIsOpenWallet
  OnlyDraftsStay
