SPECIFICATION Spec
CONSTANTS
  Primes = {5, 11}
  GermainPrimes = {3, 5}
  Factors = {2, 4, 6}
  Draws = {2, 3, 7, 8, 10, 22, 76}
  MAX_GENERATORS = 2
  Threads = {t1, t2}
  Value <- MCValue
  Modulus <- MCModulus
  MAX_EXPLEN = 5
  K = 2
  WIDTH <- MCWIDTH
  BaseLists <- MCBaseLists
  Exponents <- MCExponents
  MAX_TABLES = 3
  Numbers <- MCNumbers
  MAX_CACHED = 1
  WORD = 4
  AES_BLOCK_SIZE = 2
  Ivs <- MCIvs
  FILE_LENGTH = 8
INVARIANTS TypeOK GeneratorsGenerate AnswersAreRight SquaresAreRight PartsAgree
SYMMETRY MCSymmetry
CHECK_DEADLOCK FALSE
