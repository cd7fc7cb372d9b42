\* Ids of two binary digits; three listed peers, so "0" names two of them.
CONSTANTS
    Digit = {0, 1}
    IdLen = 2
    Registry <- MCRegistry
    Wallet = {w1, w2}
    NoWallet = NoWallet
    MaxOut = 2
SPECIFICATION CliSpec
PROPERTY WalletKeptOnFailure
